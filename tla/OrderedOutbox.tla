---------------------------- MODULE OrderedOutbox ----------------------------
(***************************************************************************)
(* What the rollover path of a channel promises, whatever carries it out   *)
(* (apps/proxy/src/crosspost/rollover.ts:24-27, docs/adr/0001): messages   *)
(* wait until somebody takes the oldest of them, and a message is          *)
(* published only from the hands that took it.  Several may take at once,  *)
(* may lose what they took, and what waits may be thrown away: RolloverDrain *)
(* says when.                                                              *)
(***************************************************************************)
EXTENDS Naturals

CONSTANT NumMessages   (* messages, numbered in post order *)

VARIABLES
  waiting,       (* messages that wait                    *)
  taken,         (* messages somebody is about to publish *)
  published      (* published messages                    *)

vars == <<waiting, taken, published>>

Message == 1..NumMessages

Init == waiting = {} /\ taken = {} /\ published = {}

Hold(m) == waiting' = waiting \cup {m} /\ UNCHANGED <<taken, published>>

(* Sent, deleted, expired, or the channel stops.                            *)
Discard(S) == waiting' = waiting \ S /\ UNCHANGED <<taken, published>>

Take(m) ==
  /\ m \in waiting /\ \A k \in waiting : m <= k
  /\ taken' = taken \cup {m}
  /\ UNCHANGED <<waiting, published>>

LetGo(S) == taken' = taken \ S /\ UNCHANGED <<waiting, published>>

(* Discord publishes what was taken, and takes no message twice.            *)
Publish(m) ==
  /\ m \in taken \ published
  /\ published' = published \cup {m}
  /\ taken' \in {taken, taken \ {m}}
  /\ UNCHANGED waiting

Next ==
  \/ \E m \in Message : Hold(m) \/ Take(m) \/ Publish(m)
  \/ \E S \in SUBSET Message : Discard(S) \/ LetGo(S)

Spec == Init /\ [][Next]_vars
=============================================================================
