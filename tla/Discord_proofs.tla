--------------------------- MODULE Discord_proofs ---------------------------
(***************************************************************************)
(* How long a lost permission still opens the dashboard, how many refused  *)
(* crossposts a window can hold, and that the helper never takes the role  *)
(* from a member who pays, for every lifetime and number of requests,      *)
(* messages, attempts, places of the worker, members, changes and faults;  *)
(* and that the page in the dashboard uses something up with every step    *)
(* and is never stuck.                                                     *)
(***************************************************************************)
EXTENDS UserReads, CrosspostJobs, HelperRoles, DashboardPage, FiniteSetTheorems, TLAPS

-----------------------------------------------------------------------------
(* The reads.  What a copy or an answer says was true not long ago: the    *)
(* ticks since it was and the ticks it has left add up to a bound.         *)
CopiesAreRecent ==
  \A c \in {warm["guilds"], lastGood["guilds"]} :
    c.value /\ c.left > 0 => since + c.left <= Window

AnswersAreRecent ==
  \A r \in Requests :
    req[r].at = "answer" /\ req[r].route = "guilds" /\ req[r].value
      => since + req[r].left <= CallTime

SinceIsNow == alive /\ manages => since = 0

ReadsInv == ReadsTypeOK /\ CopiesAreRecent /\ AnswersAreRecent /\ SinceIsNow

Ats == Ended \cup {"look", "call", "answer", "keep"}
Req == [at : Ats, route : Routes, n : 0..MaxAttempts, value : BOOLEAN, left : 0..CallTime]
Copies == [left : 0..KeptTime, value : BOOLEAN]

LEMMA ReadsConstants ==
  /\ AuthTime \in Nat /\ GuildsTime \in Nat /\ KeptTime \in Nat /\ MaxAttempts \in Nat
  /\ CallTime \in Nat /\ MaxFlips \in Nat /\ KeptTime > 0 /\ MaxAttempts > 0
  /\ AuthTime <= KeptTime /\ GuildsTime <= KeptTime /\ Window \in Nat
BY ReadsAssumption DEF Window

(* Records of a request, edited as the steps do.                           *)
LEMMA Edited ==
  \A q \in Req, a \in Ats : [q EXCEPT !.at = a] \in Req /\ [q EXCEPT !.at = a].at = a
BY DEF Req

LEMMA EditedRoute ==
  \A q \in Req, a \in Ats, d \in Routes :
    [q EXCEPT !.at = a, !.route = d] \in Req /\ [q EXCEPT !.at = a, !.route = d].at = a
BY DEF Req

LEMMA EditedAttempt ==
  \A q \in Req, a \in Ats, n \in 0..MaxAttempts :
    [q EXCEPT !.at = a, !.n = n] \in Req /\ [q EXCEPT !.at = a, !.n = n].at = a
BY DEF Req

Called(q, l, v) == [q EXCEPT !.at = "answer", !.left = l, !.value = v]

LEMMA EditedCall ==
  ASSUME NEW q \in Req, NEW l \in 0..CallTime, NEW v \in BOOLEAN
  PROVE  LET p == Called(q, l, v)
         IN  p \in Req /\ p.at = "answer" /\ p.route = q.route /\ p.left = l /\ p.value = v
<1> DEFINE p == Called(q, l, v)
<1>1. p \in Req /\ p.at = "answer"
  BY DEF Req, Ats, Called
<1>2. p.route = q.route
  BY DEF Req, Called
<1>3. p.left = l
  BY DEF Req, Called
<1>4. p.value = v
  BY Zenon DEF Req, Called
<1> QED BY <1>1, <1>2, <1>3, <1>4

(* A copy that is stored for one route leaves the other as it is.          *)
LEMMA Stored ==
  ASSUME NEW f \in [Routes -> Copies], NEW e \in Routes, NEW c, NEW g, g = [f EXCEPT ![e] = c]
  PROVE  g["guilds"] = f["guilds"] \/ (e = "guilds" /\ g["guilds"] = c)
<1>1. "guilds" \in Routes /\ DOMAIN f = Routes
  BY DEF Routes
<1>2. CASE e = "guilds"
  BY <1>1, <1>2
<1>3. CASE e # "guilds"
  BY <1>1, <1>3
<1> QED BY <1>2, <1>3

LEMMA EditedKeep ==
  \A q \in Req, a \in Ats, v \in BOOLEAN, l \in 0..CallTime :
    /\ [q EXCEPT !.at = a, !.value = v, !.left = l] \in Req
    /\ [q EXCEPT !.at = a, !.value = v, !.left = l].at = a
BY DEF Req

LEMMA EditedAgain ==
  \A q \in Req, a \in Ats, n \in 0..MaxAttempts, v \in BOOLEAN, l \in 0..CallTime :
    /\ [q EXCEPT !.at = a, !.n = n, !.value = v, !.left = l] \in Req
    /\ [q EXCEPT !.at = a, !.n = n, !.value = v, !.left = l].at = a
BY DEF Req

LEMMA NoRequestOK == NoRequest \in Req
BY ReadsConstants DEF NoRequest, Req, Ats, Ended, Routes

LEMMA ReadsInitInv == ReadsInit => ReadsInv
<1> SUFFICES ASSUME ReadsInit PROVE ReadsInv OBVIOUS
<1>1. ReadsTypeOK
  BY ReadsConstants DEF ReadsInit, ReadsTypeOK, NoCopy, NoRequest, Routes, Ended
<1>2. CopiesAreRecent
  BY DEF ReadsInit, CopiesAreRecent, NoCopy, Routes
<1>3. AnswersAreRecent
  BY DEF ReadsInit, AnswersAreRecent, NoRequest
<1>4. SinceIsNow
  BY DEF ReadsInit, SinceIsNow
<1> QED BY <1>1, <1>2, <1>3, <1>4 DEF ReadsInv

(* A request that moves leaves the others as they are.                     *)
LEMMA MoveKeeps ==
  ASSUME ReadsTypeOK, NEW r \in Requests, NEW q \in Req, Moves(r, q)
  PROVE  /\ req' \in [Requests -> Req]
         /\ req'[r] = q /\ \A s \in Requests \ {r} : req'[s] = req[s]
BY DEF ReadsTypeOK, Req, Ats, Moves

LEMMA AnswerMoves ==
  ASSUME ReadsTypeOK, NEW r \in Requests, NEW value \in BOOLEAN, Answer(r, value)
  PROVE  \E q \in Req : Moves(r, q) /\ q.at # "answer"
<1> DEFINE onward == [NoRequest EXCEPT !.at = "look", !.route = "guilds"]
           ended(way) == [NoRequest EXCEPT !.at = way]
<1>1. onward \in Req /\ onward.at # "answer"
  <2>1. "look" \in Ats /\ "guilds" \in Routes /\ "look" # "answer"
    BY DEF Ats, Routes
  <2> QED BY <2>1, NoRequestOK, EditedRoute, Zenon
<1>4. \A way \in Ended : ended(way) \in Req /\ ended(way).at # "answer"
  <2>1. \A way \in Ended : way \in Ats /\ way # "answer"
    BY DEF Ats, Ended
  <2> QED BY <2>1, NoRequestOK, Edited, Zenon
<1> HIDE DEF onward
<1>2. CASE req[r].route = "user"
  BY <1>1, <1>2 DEF Answer, onward
<1>3. CASE req[r].route # "user"
  <2>1. Ends(r, IF value THEN "admitted" ELSE "refused")
    BY <1>3 DEF Answer
  <2>2. (IF value THEN "admitted" ELSE "refused") \in Ended
    BY DEF Ended
  <2>3. PICK way \in Ended : Moves(r, ended(way))
    BY <2>1, <2>2 DEF Ends
  <2>4. ended(way) \in Req /\ ended(way).at # "answer"
    BY <1>4
  <2> HIDE DEF ended
  <2> QED BY <2>3, <2>4
<1> QED BY <1>2, <1>3

(* Most steps neither store a copy nor start an answer.                    *)
LEMMA QuietMove ==
  ASSUME ReadsInv, NEW r \in Requests, NEW q \in Req, Moves(r, q), q.at # "answer",
         UNCHANGED <<truth, since, copies>>
  PROVE  ReadsInv'
<1> USE DEF ReadsInv
<1>1. /\ req' \in [Requests -> Req]
      /\ req'[r] = q /\ \A s \in Requests \ {r} : req'[s] = req[s]
  BY MoveKeeps
<1>2. ReadsTypeOK'
  BY <1>1 DEF ReadsTypeOK, Req, Ats, truth, copies
<1>3. CopiesAreRecent'
  BY DEF CopiesAreRecent, copies
<1>4. AnswersAreRecent'
  BY <1>1 DEF AnswersAreRecent
<1>5. SinceIsNow'
  BY DEF SinceIsNow, truth
<1> QED BY <1>2, <1>3, <1>4, <1>5

LEMMA ReadsStep == ReadsInv /\ [ReadsNext]_readVars => ReadsInv'
<1> SUFFICES ASSUME ReadsInv, [ReadsNext]_readVars PROVE ReadsInv' OBVIOUS
<1>0. ReadsTypeOK /\ CopiesAreRecent /\ AnswersAreRecent /\ SinceIsNow
  BY DEF ReadsInv
<1>ty. /\ \A r \in Requests : req[r] \in Req
       /\ warm \in [Routes -> Copies] /\ lastGood \in [Routes -> Copies]
       /\ since \in 0..Window /\ alive \in BOOLEAN /\ manages \in BOOLEAN
  BY <1>0 DEF ReadsTypeOK, Req, Ats, Copies
<1>e. \A way \in Ended : [NoRequest EXCEPT !.at = way] \in Req
                      /\ [NoRequest EXCEPT !.at = way].at # "answer"
  <2>1. \A way \in Ended : way \in Ats /\ way # "answer"
    BY DEF Ats, Ended
  <2> QED BY <2>1, NoRequestOK, Edited, Zenon
<1>1. ASSUME NEW r \in Requests, Arrives(r) PROVE ReadsInv'
  <2> DEFINE q == [NoRequest EXCEPT !.at = "look"]
  <2>1. q \in Req /\ q.at # "answer"
    <3>1. "look" \in Ats /\ "look" # "answer"
      BY DEF Ats
    <3> QED BY <3>1, NoRequestOK, Edited, Zenon
  <2>2. Moves(r, q) /\ UNCHANGED <<truth, since, copies>>
    BY <1>1 DEF Arrives
  <2> HIDE DEF q
  <2> QED BY <2>1, <2>2, QuietMove
<1>2. ASSUME NEW r \in Requests, Look(r) PROVE ReadsInv'
  <2> DEFINE q == [req[r] EXCEPT !.at = "call", !.n = 1]
  <2>1. q \in Req /\ q.at # "answer"
    <3>1. "call" \in Ats /\ "call" # "answer" /\ 1 \in 0..MaxAttempts /\ req[r] \in Req
      BY <1>ty, ReadsConstants DEF Ats
    <3> QED BY <3>1, EditedAttempt, Zenon
  <2>2. warm[req[r].route].value \in BOOLEAN
    BY <1>ty DEF Req, Copies
  <2>3. UNCHANGED <<truth, since, copies>>
    BY <1>2 DEF Look
  <2>4. CASE Answer(r, warm[req[r].route].value)
    <3>1. PICK p \in Req : Moves(r, p) /\ p.at # "answer"
      BY <2>4, <2>2, <1>0, AnswerMoves
    <3> QED BY <3>1, <2>3, QuietMove
  <2>5. CASE Moves(r, q)
    <3> HIDE DEF q
    <3> QED BY <2>5, <2>1, <2>3, QuietMove
  <2> QED BY <1>2, <2>4, <2>5 DEF Look
<1>3. ASSUME NEW r \in Requests, Evaluate(r) PROVE ReadsInv'
  <2> DEFINE v == req[r].route = "user" \/ manages
             q == [req[r] EXCEPT !.at = "answer", !.left = CallTime, !.value = v]
  <2>1. q \in Req /\ q.at = "answer" /\ q.route = req[r].route /\ q.left = CallTime /\ q.value = v
    <3>1. "answer" \in Ats /\ CallTime \in 0..CallTime /\ v \in BOOLEAN /\ req[r] \in Req
      BY ReadsConstants, <1>ty DEF Ats
    <3> HIDE DEF v
    <3>2. q = Called(req[r], CallTime, v)
      BY DEF Called
    <3> HIDE DEF q
    <3> QED BY <3>1, <3>2, EditedCall, Zenon
  <2>2. Moves(r, q) /\ UNCHANGED <<truth, since, copies>> /\ alive
    BY <1>3 DEF Evaluate
  <2>3. /\ req' \in [Requests -> Req]
        /\ req'[r] = q /\ \A s \in Requests \ {r} : req'[s] = req[s]
    <3> HIDE DEF q
    <3> QED BY <2>1, <2>2, <1>0, MoveKeeps
  <2>4. ReadsTypeOK'
    BY <2>3, <2>2, <1>0 DEF ReadsTypeOK, Req, Ats, truth, copies
  <2>5. CopiesAreRecent'
    BY <2>2, <1>0 DEF CopiesAreRecent, copies
  <2>6. q.route = "guilds" /\ q.value => since + CallTime <= CallTime
    BY <2>1, <2>2, <1>0, <1>ty, ReadsConstants DEF SinceIsNow
  <2>7. AnswersAreRecent'
    <3> SUFFICES ASSUME NEW s \in Requests, req'[s].at = "answer",
                        req'[s].route = "guilds", req'[s].value
                 PROVE  since' + req'[s].left <= CallTime
      BY DEF AnswersAreRecent
    <3>1. CASE s = r
      BY <3>1, <2>1, <2>2, <2>3, <2>6
    <3>2. CASE s # r
      BY <3>2, <2>2, <2>3, <1>0 DEF AnswersAreRecent
    <3> QED BY <3>1, <3>2
  <2>8. SinceIsNow'
    BY <2>2, <1>0 DEF SinceIsNow, truth
  <2> QED BY <2>4, <2>5, <2>7, <2>8 DEF ReadsInv
<1>4. ASSUME NEW r \in Requests, Denied(r) PROVE ReadsInv'
  <2> DEFINE q == [NoRequest EXCEPT !.at = "expired"]
  <2>1. q \in Req /\ q.at # "answer"
    BY <1>e DEF Ended
  <2>2. Moves(r, q) /\ UNCHANGED <<truth, since, copies>>
    BY <1>4 DEF Denied, Ends
  <2> HIDE DEF q
  <2> QED BY <2>1, <2>2, QuietMove
<1>5. ASSUME NEW r \in Requests, Lands(r) PROVE ReadsInv'
  <2> DEFINE d == req[r].route
             Copy(time) == [left |-> time, value |-> req[r].value]
  <2>1. /\ req[r] \in Req /\ req[r].at = "answer" /\ d \in Routes /\ req[r].value \in BOOLEAN
        /\ UNCHANGED <<truth, since>>
    BY <1>5, <1>ty DEF Lands, Req
  <2>2. PICK p \in Req : Moves(r, p) /\ p.at # "answer"
    <3>1. Answer(r, req[r].value)
      BY <1>5 DEF Lands
    <3> QED BY <3>1, <2>1, <1>0, AnswerMoves
  <2>3. /\ req' \in [Requests -> Req]
        /\ req'[r] = p /\ \A s \in Requests \ {r} : req'[s] = req[s]
    BY <2>2, <1>0, MoveKeeps
  <2>4. /\ warm' \in {warm, [warm EXCEPT ![d] = Copy(WarmTime[d])]}
        /\ lastGood' \in {lastGood, [lastGood EXCEPT ![d] = Copy(KeptTime)]}
    BY <1>5 DEF Lands, StoreBoth
  <2>5. WarmTime[d] \in 0..KeptTime /\ KeptTime \in 0..KeptTime
    BY <2>1, ReadsConstants DEF WarmTime, Routes
  <2>6. Copy(WarmTime[d]) \in Copies /\ Copy(KeptTime) \in Copies
    BY <2>1, <2>5 DEF Copies
  <2>7. warm' \in [Routes -> Copies] /\ lastGood' \in [Routes -> Copies]
    <3> HIDE DEF Copy
    <3> QED BY <2>4, <2>6, <2>1, <1>ty
  <2>8. ReadsTypeOK'
    BY <2>1, <2>3, <2>7, <1>0 DEF ReadsTypeOK, Req, Ats, Copies, truth
  <2>9. \A time \in 0..KeptTime :
          d = "guilds" /\ Copy(time).value => since + Copy(time).left <= Window
    BY <2>1, <1>0, <1>ty, ReadsConstants DEF AnswersAreRecent, Window, Req
  <2>10. CopiesAreRecent'
    <3>1. warm'["guilds"].value /\ warm'["guilds"].left > 0
            => since + warm'["guilds"].left <= Window
      <4>1. warm'["guilds"] = warm["guilds"] \/ (d = "guilds" /\ warm'["guilds"] = Copy(WarmTime[d]))
        <5>1. PICK c : c = Copy(WarmTime[d])
          OBVIOUS
        <5>2. warm' = warm \/ warm' = [warm EXCEPT ![d] = c]
          BY <2>4, <5>1, Zenon
        <5> HIDE DEF Copy, d
        <5> QED BY <5>1, <5>2, Stored, <2>1, <1>ty
      <4> HIDE DEF Copy
      <4> QED BY <4>1, <2>9, <2>5, <1>0 DEF CopiesAreRecent
    <3>2. lastGood'["guilds"].value /\ lastGood'["guilds"].left > 0
            => since + lastGood'["guilds"].left <= Window
      <4>1. lastGood'["guilds"] = lastGood["guilds"] \/ (d = "guilds" /\ lastGood'["guilds"] = Copy(KeptTime))
        <5>1. PICK c : c = Copy(KeptTime)
          OBVIOUS
        <5>2. lastGood' = lastGood \/ lastGood' = [lastGood EXCEPT ![d] = c]
          BY <2>4, <5>1, Zenon
        <5> HIDE DEF Copy, d
        <5> QED BY <5>1, <5>2, Stored, <2>1, <1>ty
      <4> HIDE DEF Copy
      <4> QED BY <4>1, <2>9, <2>5, <1>0 DEF CopiesAreRecent
    <3> QED BY <3>1, <3>2, <2>1 DEF CopiesAreRecent
  <2>11. AnswersAreRecent'
    BY <2>1, <2>2, <2>3, <1>0 DEF AnswersAreRecent
  <2>12. SinceIsNow'
    BY <2>1, <1>0 DEF SinceIsNow, truth
  <2> QED BY <2>8, <2>10, <2>11, <2>12 DEF ReadsInv
<1>6. ASSUME NEW r \in Requests, Fails(r) PROVE ReadsInv'
  <2> DEFINE q1 == [req[r] EXCEPT !.at = "call", !.n = @ + 1, !.value = FALSE, !.left = 0]
             q2 == [req[r] EXCEPT !.at = "keep", !.value = FALSE, !.left = 0]
  <2>0. /\ "keep" \in Ats /\ "keep" # "answer" /\ "call" \in Ats /\ "call" # "answer"
        /\ FALSE \in BOOLEAN /\ 0 \in 0..CallTime /\ req[r] \in Req
    BY <1>ty, ReadsConstants DEF Ats
  <2>1. q2 \in Req /\ q2.at # "answer"
    BY <2>0, EditedKeep, Zenon
  <2>2. req[r].n < MaxAttempts => q1 \in Req /\ q1.at # "answer"
    <3>1. req[r].n < MaxAttempts => req[r].n + 1 \in 0..MaxAttempts
      BY <1>ty, ReadsConstants DEF Req
    <3>2. ASSUME req[r].n < MaxAttempts PROVE q1 \in Req /\ q1.at # "answer"
      <4>1. PICK k \in 0..MaxAttempts : k = req[r].n + 1
        BY <3>1, <3>2
      <4>2. q1 = [req[r] EXCEPT !.at = "call", !.n = k, !.value = FALSE, !.left = 0]
        BY <4>1, <2>0, Zenon DEF Req
      <4> HIDE DEF q1
      <4> QED BY <4>2, <2>0, EditedAgain, Zenon
    <3> QED BY <3>2
  <2>3. /\ (req[r].n < MaxAttempts /\ Moves(r, q1)) \/ Moves(r, q2)
        /\ UNCHANGED <<truth, since, copies>>
    BY <1>6 DEF Fails
  <2> HIDE DEF q1, q2
  <2> QED BY <2>1, <2>2, <2>3, QuietMove
<1>7. ASSUME NEW r \in Requests, Keep(r) PROVE ReadsInv'
  <2> DEFINE q == [NoRequest EXCEPT !.at = "blip"]
  <2>1. q \in Req /\ q.at # "answer"
    BY <1>e DEF Ended
  <2>2. lastGood[req[r].route].value \in BOOLEAN
    BY <1>ty DEF Req, Copies
  <2>3. UNCHANGED <<truth, since, copies>>
    BY <1>7 DEF Keep
  <2>4. CASE Answer(r, lastGood[req[r].route].value)
    <3>1. PICK p \in Req : Moves(r, p) /\ p.at # "answer"
      BY <2>4, <2>2, <1>0, AnswerMoves
    <3> QED BY <3>1, <2>3, QuietMove
  <2>5. CASE Moves(r, q)
    <3> HIDE DEF q
    <3> QED BY <2>5, <2>1, <2>3, QuietMove
  <2> QED BY <1>7, <2>4, <2>5 DEF Keep, Ends
<1>8. CASE Flip
  <2>1. /\ since' = (IF alive' /\ manages' THEN 0 ELSE since) /\ UNCHANGED <<copies, req>>
        /\ alive' \in BOOLEAN /\ manages' \in BOOLEAN
        /\ flips < MaxFlips /\ flips' = flips + 1
    BY <1>8, <1>ty DEF Flip
  <2>2. since' \in 0..Window /\ since' <= since
    BY <2>1, <1>ty, ReadsConstants
  <2>3. ReadsTypeOK'
    BY <2>1, <2>2, <1>0, ReadsConstants DEF ReadsTypeOK, copies
  <2>4. CopiesAreRecent'
    <3> SUFFICES ASSUME NEW c \in {warm["guilds"], lastGood["guilds"]}, c.value, c.left > 0
                 PROVE  since' + c.left <= Window
      BY <2>1 DEF CopiesAreRecent, copies
    <3>1. since + c.left <= Window /\ c.left \in Nat
      BY <1>0, <1>ty, ReadsConstants DEF CopiesAreRecent, Copies, Routes
    <3> QED BY <3>1, <2>2, <1>ty, ReadsConstants
  <2>5. AnswersAreRecent'
    <3> SUFFICES ASSUME NEW s \in Requests, req[s].at = "answer", req[s].route = "guilds", req[s].value
                 PROVE  since' + req[s].left <= CallTime
      BY <2>1 DEF AnswersAreRecent
    <3>1. since + req[s].left <= CallTime /\ req[s].left \in Nat
      BY <1>0, <1>ty, ReadsConstants DEF AnswersAreRecent, Req
    <3> QED BY <3>1, <2>2, <1>ty, ReadsConstants
  <2>6. SinceIsNow'
    BY <2>1 DEF SinceIsNow
  <2> QED BY <2>3, <2>4, <2>5, <2>6 DEF ReadsInv
<1>9. CASE Passes
  <2>1. /\ \A r \in Requests : req[r].at = "answer" => req[r].left > 0
        /\ since' = IF (alive /\ manages) \/ since = Window THEN since ELSE since + 1
        /\ warm' = [d \in Routes |-> Older(warm[d])]
        /\ lastGood' = [d \in Routes |-> Older(lastGood[d])]
        /\ req' = [r \in Requests |->
               IF req[r].at = "answer" THEN [req[r] EXCEPT !.left = @ - 1] ELSE req[r]]
        /\ UNCHANGED truth
    BY <1>9 DEF Passes
  <2>2. since' \in 0..Window /\ since' <= since + 1
    BY <2>1, <1>ty, ReadsConstants
  <2>3. ASSUME NEW c \in Copies
        PROVE  /\ Older(c) \in Copies
               /\ Older(c).left > 0 => Older(c).left = c.left - 1 /\ Older(c).value = c.value
    <3>1. c.left <= 1 => Older(c) = NoCopy
      BY DEF Older
    <3>2. ~(c.left <= 1) => Older(c) = [left |-> c.left - 1, value |-> c.value]
      BY DEF Older, Copies
    <3>3. NoCopy \in Copies /\ ~(NoCopy.left > 0)
      BY ReadsConstants DEF NoCopy, Copies
    <3>4. ~(c.left <= 1) => [left |-> c.left - 1, value |-> c.value] \in Copies
      BY ReadsConstants DEF Copies
    <3> QED BY <3>1, <3>2, <3>3, <3>4
  <2>4. warm' \in [Routes -> Copies] /\ lastGood' \in [Routes -> Copies]
    BY <2>1, <2>3, <1>ty
  <2>5. \A r \in Requests : req'[r] \in Req
    BY <2>1, <1>ty, ReadsConstants DEF Req
  <2>6. ReadsTypeOK'
    BY <2>1, <2>2, <2>4, <2>5, <1>0 DEF ReadsTypeOK, Req, Ats, Copies, truth
  <2>7. ASSUME NEW c \in Copies, c.value /\ c.left > 0 => since + c.left <= Window,
               Older(c).value, Older(c).left > 0
        PROVE  since' + Older(c).left <= Window
    <3>1. Older(c).left = c.left - 1 /\ c.value /\ c.left \in Nat
      BY <2>3, <2>7 DEF Copies
    <3>2. Older(c).left \in Nat
      BY <2>3 DEF Copies
    <3>3. c.left > 0 /\ since + c.left <= Window
      BY <3>1, <3>2, <2>7
    <3> QED BY <3>1, <3>3, <2>2, <1>ty, ReadsConstants
  <2>8. CopiesAreRecent'
    <3>1. /\ warm'["guilds"] = Older(warm["guilds"]) /\ warm["guilds"] \in Copies
          /\ lastGood'["guilds"] = Older(lastGood["guilds"]) /\ lastGood["guilds"] \in Copies
      BY <2>1, <1>ty DEF Routes
    <3> QED BY <3>1, <2>7, <1>0 DEF CopiesAreRecent
  <2>9. AnswersAreRecent'
    <3> SUFFICES ASSUME NEW s \in Requests, req'[s].at = "answer",
                        req'[s].route = "guilds", req'[s].value
                 PROVE  since' + req'[s].left <= CallTime
      BY DEF AnswersAreRecent
    <3>1. /\ req[s] \in Req /\ req[s].at = "answer" /\ req[s].left > 0
          /\ req'[s] = [req[s] EXCEPT !.left = @ - 1]
      BY <2>1, <1>ty
    <3>2. req[s].route = "guilds" /\ req[s].value /\ req'[s].left = req[s].left - 1 /\ req[s].left \in Nat
      BY <3>1, ReadsConstants DEF Req
    <3>3. since + req[s].left <= CallTime
      BY <3>1, <3>2, <1>0 DEF AnswersAreRecent
    <3> QED BY <3>2, <3>3, <2>2, <1>ty, ReadsConstants
  <2>10. SinceIsNow'
    BY <2>1, <1>0 DEF SinceIsNow, truth
  <2> QED BY <2>6, <2>8, <2>9, <2>10 DEF ReadsInv
<1>10. CASE UNCHANGED readVars
  BY <1>10, <1>0 DEF ReadsInv, ReadsTypeOK, CopiesAreRecent, AnswersAreRecent, SinceIsNow,
                     readVars, truth, copies
<1> QED
  BY <1>1, <1>2, <1>3, <1>4, <1>5, <1>6, <1>7, <1>8, <1>9, <1>10 DEF ReadsNext

(* Only the request that moves is admitted, and only as it moves there.    *)
LEMMA AdmittedByMove ==
  ASSUME ReadsTypeOK, NEW r \in Requests, NEW s \in Requests, NEW q, Moves(s, q), Admits(r)
  PROVE  s = r /\ q.at = "admitted"
<1>1. DOMAIN req = Requests
  BY DEF ReadsTypeOK
<1>2. CASE s = r
  <2>1. req'[r] = q
    BY <1>1, <1>2 DEF Moves
  <2> QED BY <1>2, <2>1 DEF Admits
<1>3. CASE s # r
  <2>1. req'[r] = req[r]
    BY <1>1, <1>3 DEF Moves
  <2> QED BY <2>1 DEF Admits
<1> QED BY <1>2, <1>3

(* Only a yes about the guilds admits.                                     *)
LEMMA AdmittedByAnswer ==
  ASSUME ReadsTypeOK, NEW r \in Requests, NEW s \in Requests, NEW value \in BOOLEAN,
         Answer(s, value), Admits(r)
  PROVE  s = r /\ value /\ req[r].route = "guilds"
<1> DEFINE onward == [NoRequest EXCEPT !.at = "look", !.route = "guilds"]
           ended(way) == [NoRequest EXCEPT !.at = way]
<1>1. onward.at = "look" /\ \A way \in Ended : ended(way).at = way
  <2>1. "look" \in Ats /\ "guilds" \in Routes /\ Ended \subseteq Ats
    BY DEF Ats, Routes
  <2> QED BY <2>1, NoRequestOK, EditedRoute, Edited, Zenon
<1> HIDE DEF onward
<1>2. ASSUME req[s].route = "user" PROVE FALSE
  <2>1. Moves(s, onward)
    BY <1>2 DEF Answer, onward
  <2>2. onward.at = "admitted"
    BY <2>1, AdmittedByMove
  <2> QED BY <1>1, <2>2
<1>3. PICK way \in Ended : way = (IF value THEN "admitted" ELSE "refused") /\ Ends(s, way)
  BY <1>2 DEF Answer, Ended
<1>4. Moves(s, ended(way))
  BY <1>3 DEF Ends
<1>5. ended(way).at = way
  BY <1>1
<1> HIDE DEF ended
<1>6. s = r /\ way = "admitted"
  BY <1>4, <1>5, AdmittedByMove
<1>7. value
  BY <1>3, <1>6
<1>8. req[s].route \in Routes
  BY DEF ReadsTypeOK
<1> QED BY <1>2, <1>6, <1>7, <1>8 DEF Routes

LEMMA AdmittedIsRecent ==
  ASSUME ReadsInv, ReadsNext, NEW r \in Requests, Admits(r)
  PROVE  since < Window
<1>0. ReadsTypeOK /\ CopiesAreRecent /\ AnswersAreRecent /\ SinceIsNow
  BY DEF ReadsInv
<1>ty. /\ \A s \in Requests : req[s] \in Req
       /\ warm \in [Routes -> Copies] /\ lastGood \in [Routes -> Copies]
       /\ since \in Nat
  BY <1>0, ReadsConstants DEF ReadsTypeOK, Req, Ats, Copies
<1>e. \A way \in Ended : [NoRequest EXCEPT !.at = way].at = way
  <2>1. Ended \subseteq Ats
    BY DEF Ats
  <2> QED BY <2>1, NoRequestOK, Edited, Zenon
(* A copy that can still be used was true before its lifetime began.       *)
<1>c. ASSUME NEW c \in {warm["guilds"], lastGood["guilds"]}, c.value, c.left > 0
      PROVE  since < Window
  <2>1. since + c.left <= Window /\ c.left \in Nat
    BY <1>c, <1>0, <1>ty DEF CopiesAreRecent, Copies, Routes
  <2> QED BY <2>1, <1>c, <1>ty, ReadsConstants
<1>1. ASSUME NEW s \in Requests, Arrives(s) PROVE FALSE
  <2> DEFINE q == [NoRequest EXCEPT !.at = "look"]
  <2>1. q.at = "look"
    <3>1. "look" \in Ats
      BY DEF Ats
    <3> QED BY <3>1, NoRequestOK, Edited, Zenon
  <2>2. Moves(s, q)
    BY <1>1 DEF Arrives
  <2> HIDE DEF q
  <2>3. q.at = "admitted"
    BY <2>2, <1>0, AdmittedByMove
  <2> QED BY <2>1, <2>3
<1>2. ASSUME NEW s \in Requests, Look(s) PROVE since < Window
  <2> DEFINE q == [req[s] EXCEPT !.at = "call", !.n = 1]
  <2>1. q.at = "call"
    <3>1. "call" \in Ats /\ 1 \in 0..MaxAttempts /\ req[s] \in Req
      BY <1>ty, ReadsConstants DEF Ats
    <3> QED BY <3>1, EditedAttempt, Zenon
  <2>2. warm[req[s].route].value \in BOOLEAN
    BY <1>ty DEF Req, Copies
  <2>3. CASE warm[req[s].route].left > 0 /\ Answer(s, warm[req[s].route].value)
    <3>1. s = r /\ warm[req[s].route].value /\ req[r].route = "guilds"
      BY <2>3, <2>2, <1>0, AdmittedByAnswer
    <3> QED BY <3>1, <2>3, <1>c
  <2>4. CASE Moves(s, q)
    <3> HIDE DEF q
    <3>1. q.at = "admitted"
      BY <2>4, <1>0, AdmittedByMove
    <3> QED BY <3>1, <2>1
  <2> QED BY <1>2, <2>3, <2>4 DEF Look
<1>3. ASSUME NEW s \in Requests, Evaluate(s) PROVE FALSE
  <2> DEFINE v == req[s].route = "user" \/ manages
             q == [req[s] EXCEPT !.at = "answer", !.left = CallTime, !.value = v]
  <2>1. q.at = "answer"
    <3>1. CallTime \in 0..CallTime /\ v \in BOOLEAN /\ req[s] \in Req
      BY ReadsConstants, <1>ty, <1>0 DEF ReadsTypeOK
    <3>2. q = Called(req[s], CallTime, v)
      BY DEF Called
    <3> HIDE DEF q, v
    <3> QED BY <3>1, <3>2, EditedCall, Zenon
  <2>2. Moves(s, q)
    BY <1>3 DEF Evaluate
  <2> HIDE DEF q
  <2>3. q.at = "admitted"
    BY <2>2, <1>0, AdmittedByMove
  <2> QED BY <2>1, <2>3
<1>4. ASSUME NEW s \in Requests, Denied(s) PROVE FALSE
  <2> DEFINE q == [NoRequest EXCEPT !.at = "expired"]
  <2>1. q.at = "expired"
    BY <1>e DEF Ended
  <2>2. Moves(s, q)
    BY <1>4 DEF Denied, Ends
  <2> HIDE DEF q
  <2>3. q.at = "admitted"
    BY <2>2, <1>0, AdmittedByMove
  <2> QED BY <2>1, <2>3
<1>5. ASSUME NEW s \in Requests, Lands(s) PROVE since < Window
  <2>1. req[s].at = "answer" /\ Answer(s, req[s].value) /\ req[s].value \in BOOLEAN
    BY <1>5, <1>ty DEF Lands, Req
  <2>2. s = r /\ req[s].value /\ req[s].route = "guilds"
    BY <2>1, <1>0, AdmittedByAnswer
  <2>3. since + req[s].left <= CallTime /\ req[s].left \in Nat
    BY <2>1, <2>2, <1>0, <1>ty, ReadsConstants DEF AnswersAreRecent, Req
  <2> QED BY <2>3, <1>ty, ReadsConstants DEF Window
<1>6. ASSUME NEW s \in Requests, Fails(s) PROVE FALSE
  <2> DEFINE q1 == [req[s] EXCEPT !.at = "call", !.n = @ + 1, !.value = FALSE, !.left = 0]
             q2 == [req[s] EXCEPT !.at = "keep", !.value = FALSE, !.left = 0]
  <2>0. /\ "keep" \in Ats /\ "call" \in Ats
        /\ FALSE \in BOOLEAN /\ 0 \in 0..CallTime /\ req[s] \in Req
    BY <1>ty, ReadsConstants DEF Ats
  <2>1. q2.at = "keep"
    BY <2>0, EditedKeep, Zenon
  <2>2. ASSUME req[s].n < MaxAttempts PROVE q1.at = "call"
    <3>1. PICK k \in 0..MaxAttempts : k = req[s].n + 1
      BY <2>2, <1>ty, ReadsConstants DEF Req
    <3>2. q1 = [req[s] EXCEPT !.at = "call", !.n = k, !.value = FALSE, !.left = 0]
      BY <3>1, <2>0, Zenon DEF Req
    <3> HIDE DEF q1
    <3> QED BY <3>2, <2>0, EditedAgain, Zenon
  <2>3. (req[s].n < MaxAttempts /\ Moves(s, q1)) \/ Moves(s, q2)
    BY <1>6 DEF Fails
  <2> HIDE DEF q1, q2
  <2>4. CASE Moves(s, q2)
    <3>1. q2.at = "admitted"
      BY <2>4, <1>0, AdmittedByMove
    <3> QED BY <3>1, <2>1
  <2>5. CASE req[s].n < MaxAttempts /\ Moves(s, q1)
    <3>1. q1.at = "admitted"
      BY <2>5, <1>0, AdmittedByMove
    <3> QED BY <3>1, <2>2, <2>5
  <2> QED BY <2>3, <2>4, <2>5
<1>7. ASSUME NEW s \in Requests, Keep(s) PROVE since < Window
  <2> DEFINE q == [NoRequest EXCEPT !.at = "blip"]
  <2>1. q.at = "blip"
    BY <1>e DEF Ended
  <2>2. lastGood[req[s].route].value \in BOOLEAN
    BY <1>ty DEF Req, Copies
  <2>3. CASE lastGood[req[s].route].left > 0 /\ Answer(s, lastGood[req[s].route].value)
    <3>1. s = r /\ lastGood[req[s].route].value /\ req[r].route = "guilds"
      BY <2>3, <2>2, <1>0, AdmittedByAnswer
    <3> QED BY <3>1, <2>3, <1>c
  <2>4. CASE Moves(s, q)
    <3> HIDE DEF q
    <3>1. q.at = "admitted"
      BY <2>4, <1>0, AdmittedByMove
    <3> QED BY <3>1, <2>1
  <2> QED BY <1>7, <2>3, <2>4 DEF Keep, Ends
<1>8. ASSUME Flip PROVE FALSE
  BY <1>8 DEF Flip, Admits
<1>9. ASSUME Passes PROVE FALSE
  <2>1. req'[r] = IF req[r].at = "answer" THEN [req[r] EXCEPT !.left = @ - 1] ELSE req[r]
    BY <1>9 DEF Passes
  <2>2. req[r] \in Req
    BY <1>ty
  <2>3. req'[r].at = req[r].at
    BY <2>1, <2>2 DEF Req
  <2> QED BY <2>3 DEF Admits
<1> QED BY <1>1, <1>2, <1>3, <1>4, <1>5, <1>6, <1>7, <1>8, <1>9 DEF ReadsNext

(* The copies, the answers on their way and the ticks keep their ranges.   *)
THEOREM ReadsTypeCorrect == ReadsSpec => []ReadsTypeOK
<1>1. ReadsInv => ReadsTypeOK
  BY DEF ReadsInv
<1> QED BY <1>1, ReadsInitInv, ReadsStep, PTL DEF ReadsSpec

(* discordUserApi.ts's cap: no request is admitted that did not hold a     *)
(* good token and the permission within the lifetime of a kept answer and  *)
(* the time of one call, for all lifetimes and any number of requests.     *)
THEOREM StaleServeIsBounded == ReadsSpec => StaleIsBounded
<1>1. ReadsInv /\ [ReadsNext]_readVars
        => [\A r \in Requests : Admits(r) => since < Window]_readVars
  BY AdmittedIsRecent
<1> QED BY <1>1, ReadsInitInv, ReadsStep, PTL DEF ReadsSpec, StaleIsBounded

-----------------------------------------------------------------------------
(* The jobs.  A job is only let through below the threshold, so a window   *)
(* has room for all that are being sent.                                   *)
GateTypeOK ==
  /\ locked \subseteq Feeds /\ blocked \subseteq Feeds
  /\ window \in BOOLEAN /\ count \in Nat /\ ours \in Nat /\ mishaps \in Nat

OursCounted == ours <= count /\ (~window => count = 0)
RoomForSends ==
  /\ Cardinality(Active) <= Concurrency
  /\ ours + Cardinality(Active) <= Threshold - 1 + Concurrency

JobsInv == JobsTypeOK /\ OursCounted /\ RoomForSends

JobAts == {"none", "waiting", "delayed", "active", "kept"}
Job == [at : JobAts, tries : Nat]
PushAts == {"none", "call", "wait", "over"}
Push == [at : PushAts, n : Nat]

LEMMA JobsConstants ==
  /\ Concurrency \in Nat /\ Threshold \in Nat /\ Concurrency > 0 /\ Threshold > 0
  /\ IsFiniteSet(Posts) /\ \A p \in Posts : p[1] \in Feeds
BY CrosspostAssumption

LEMMA JobsTypes == JobsTypeOK <=> push \in [Posts -> Push] /\ queued \in [Posts -> Job] /\ GateTypeOK
BY DEF JobsTypeOK, GateTypeOK, Job, JobAts, Push, PushAts

LEMMA JobEdited == \A j \in Job, way \in JobAts : [j EXCEPT !.at = way] \in Job /\ [j EXCEPT !.at = way].at = way
BY DEF Job

LEMMA PushEdited == \A j \in Push, way \in PushAts : [j EXCEPT !.at = way] \in Push
BY DEF Push

LEMMA ActiveFinite == ASSUME NEW S, S \subseteq Posts PROVE IsFiniteSet(S) /\ Cardinality(S) \in Nat
BY JobsConstants, FS_Subset, FS_CardinalityType

LEMMA ActiveIsFinite == IsFiniteSet(Active) /\ Cardinality(Active) \in Nat
<1>1. Active \subseteq Posts
  BY DEF Active, InState
<1> QED BY <1>1, ActiveFinite

(* What becomes of the jobs that are being sent as one job changes.        *)
LEMMA QueuePuts ==
  ASSUME queued \in [Posts -> Job], NEW p \in Posts, NEW j \in Job,
         queued' = [queued EXCEPT ![p] = j]
  PROVE  /\ queued' \in [Posts -> Job]
         /\ Active' = IF j.at = "active" THEN Active \cup {p} ELSE Active \ {p}
<1>1. queued' \in [Posts -> Job]
  OBVIOUS
<1>2. \A q \in Posts : queued'[q] = IF q = p THEN j ELSE queued[q]
  OBVIOUS
<1>3. \A q : q \in Active' <=> q \in Posts /\ (IF q = p THEN j ELSE queued[q]).at = "active"
  BY <1>2 DEF Active, InState
<1>4. \A q : q \in Active <=> q \in Posts /\ queued[q].at = "active"
  BY DEF Active, InState
<1> QED BY <1>1, <1>3, <1>4, Zenon

LEMMA MovedJob ==
  ASSUME queued \in [Posts -> Job], NEW p \in Posts, NEW way \in JobAts, Moved(p, way)
  PROVE  /\ queued' \in [Posts -> Job]
         /\ Active' = IF way = "active" THEN Active \cup {p} ELSE Active \ {p}
<1> DEFINE j == [queued[p] EXCEPT !.at = way]
<1>1. queued[p] \in Job
  OBVIOUS
<1>2. j \in Job /\ j.at = way
  BY <1>1, JobEdited
<1>3. queued' = [queued EXCEPT ![p] = j]
  BY DEF Moved
<1> HIDE DEF j
<1> QED BY <1>2, <1>3, QueuePuts

LEMMA FewerActive ==
  ASSUME NEW p, Active' = Active \ {p}
  PROVE  /\ Cardinality(Active') \in Nat /\ Cardinality(Active') <= Cardinality(Active)
         /\ p \in Active => Cardinality(Active') = Cardinality(Active) - 1
<1>1. Cardinality(Active \ {p}) = IF p \in Active THEN Cardinality(Active) - 1 ELSE Cardinality(Active)
  BY ActiveIsFinite, FS_RemoveElement
<1>2. Active \ {p} \subseteq Posts
  BY DEF Active, InState
<1>3. Cardinality(Active \ {p}) \in Nat
  BY <1>2, ActiveFinite
<1> QED BY <1>1, <1>3, ActiveIsFinite

(* A step that lets nothing through and counts no answer of ours.          *)
LEMMA QuietJob ==
  ASSUME JobsInv, NEW p \in Posts, queued' \in [Posts -> Job],
         Active' = Active \ {p} \/ Active' = Active,
         push' \in [Posts -> Push], GateTypeOK', OursCounted', ours' = ours
  PROVE  JobsInv'
<1>1. JobsTypeOK'
  BY DEF JobsTypeOK, GateTypeOK, Job, JobAts, Push, PushAts
<1>2. Cardinality(Active') \in Nat /\ Cardinality(Active') <= Cardinality(Active)
  BY FewerActive, ActiveIsFinite
<1>3. RoomForSends'
  BY <1>2, ActiveIsFinite, JobsConstants, JobsTypes DEF RoomForSends, JobsInv, GateTypeOK
<1> QED BY <1>1, <1>3 DEF JobsInv

LEMMA PushMoves ==
  ASSUME push \in [Posts -> Push], NEW p \in Posts, NEW q \in Push, push' = [push EXCEPT ![p] = q]
  PROVE  push' \in [Posts -> Push]
OBVIOUS

LEMMA PushEnds ==
  ASSUME push \in [Posts -> Push], NEW p \in Posts, Again(p) \/ Settled(p)
  PROVE  push' \in [Posts -> Push]
<1> DEFINE over == [push[p] EXCEPT !.at = "over"]
           again == [at |-> "wait", n |-> push[p].n + 1]
<1>1. over \in Push /\ again \in Push
  <2>1. push[p] \in Push /\ "over" \in PushAts /\ "wait" \in PushAts
    BY DEF PushAts
  <2>2. over \in Push
    BY <2>1, PushEdited
  <2>3. again \in Push
    BY <2>1 DEF Push
  <2> QED BY <2>2, <2>3
<1>2. push' = [push EXCEPT ![p] = over] \/ push' = [push EXCEPT ![p] = again]
  BY Zenon DEF Again, Settled
<1> HIDE DEF over, again
<1> QED BY <1>1, <1>2, PushMoves

LEMMA JobsInitInv == JobsInit => JobsInv
<1> SUFFICES ASSUME JobsInit PROVE JobsInv OBVIOUS
<1>1. push \in [Posts -> Push]
  BY DEF JobsInit, Unpushed, Push, PushAts
<1>2. queued \in [Posts -> Job]
  BY DEF JobsInit, NoQueued, Job, JobAts
<1>3. GateTypeOK /\ OursCounted
  <2>1. count = 0 /\ ours = 0 /\ mishaps = 0 /\ locked \subseteq Feeds /\ blocked \subseteq Feeds
    BY DEF JobsInit
  <2>2. window \in BOOLEAN
    BY DEF JobsInit
  <2> QED BY <2>1, <2>2 DEF GateTypeOK, OursCounted
<1>4. Active = {}
  BY DEF JobsInit, NoQueued, Active, InState
<1>5. RoomForSends
  BY <1>4, FS_EmptySet, JobsConstants DEF RoomForSends, JobsInit
<1> QED BY <1>1, <1>2, <1>3, <1>5, JobsTypes DEF JobsInv

(* The gate lets a message through only below the threshold.               *)
LEMMA AllowedBelow ==
  ASSUME JobsInv, NEW p \in Posts, Gated(p, "allow")
  PROVE  ours <= Threshold - 1
<1>1. ~IsOverThreshold
  <2>1. Verdict(p, TRUE) = "allow" \/ Verdict(p, FALSE) = "allow"
    BY DEF Gated
  <2>2. ASSUME IsOverThreshold, NEW open \in BOOLEAN PROVE Verdict(p, open) = "invalid_requests"
    BY <2>2 DEF Verdict
  <2> QED BY <2>1, <2>2
<1>2. count < Threshold
  BY <1>1, JobsConstants, JobsTypes DEF IsOverThreshold, JobsInv, OursCounted, GateTypeOK
<1> QED BY <1>2, JobsConstants, JobsTypes DEF JobsInv, OursCounted, GateTypeOK

LEMMA JobsStep == JobsInv /\ [JobsNext]_jobVars => JobsInv'
<1> SUFFICES ASSUME JobsInv, [JobsNext]_jobVars PROVE JobsInv' OBVIOUS
<1>ty. push \in [Posts -> Push] /\ queued \in [Posts -> Job] /\ GateTypeOK /\ OursCounted
  BY JobsTypes DEF JobsInv
<1>same. ASSUME queued' = queued PROVE Active' = Active
  BY <1>same DEF Active, InState
<1>mis. ASSUME Mishap \/ UNCHANGED mishaps PROVE mishaps' \in Nat
  BY <1>mis, <1>ty DEF Mishap, GateTypeOK
<1>gate. ASSUME UNCHANGED gate, mishaps' \in Nat PROVE GateTypeOK' /\ OursCounted' /\ ours' = ours
  BY <1>gate, <1>ty DEF gate, GateTypeOK, OursCounted
<1>ats. /\ {"none", "waiting", "delayed", "active", "kept"} = JobAts
        /\ "delayed" # "active" /\ "kept" # "active" /\ "waiting" # "active" /\ "none" # "active"
  BY DEF JobAts
<1>1. ASSUME NEW p \in Posts, Handle(p) PROVE JobsInv'
  <2>1. push' = [push EXCEPT ![p].at = "call"] /\ UNCHANGED <<queued, gate, mishaps>>
    BY <1>1 DEF Handle
  <2> DEFINE q == [push[p] EXCEPT !.at = "call"]
  <2>2. q \in Push /\ push' = [push EXCEPT ![p] = q]
    BY <2>1, <1>ty, PushEdited DEF PushAts
  <2> HIDE DEF q
  <2>3. push' \in [Posts -> Push]
    BY <2>2, <1>ty, PushMoves
  <2> QED BY <2>1, <2>3, <1>ty, <1>same, <1>gate, <1>mis, QuietJob
<1>2. ASSUME NEW p \in Posts, PushLost(p) PROVE JobsInv'
  <2>1. Mishap /\ Again(p) /\ UNCHANGED <<queued, gate>>
    BY <1>2 DEF PushLost
  <2>2. push' \in [Posts -> Push]
    BY <2>1, <1>ty, PushEnds
  <2> QED BY <2>1, <2>2, <1>ty, <1>same, <1>gate, <1>mis, QuietJob
<1>3. ASSUME NEW p \in Posts, PushArrives(p) PROVE JobsInv'
  <2>1. /\ Mishap \/ UNCHANGED mishaps
        /\ Again(p) \/ Settled(p)
        /\ UNCHANGED queued \/ \E way \in {"waiting", "delayed"} : Enqueue(p, way)
        /\ UNCHANGED gate
    BY <1>3, Zenon DEF PushArrives, Gated
  <2>2. push' \in [Posts -> Push]
    BY <2>1, <1>ty, PushEnds
  <2>3. queued' \in [Posts -> Job] /\ (Active' = Active \ {p} \/ Active' = Active)
    <3>1. CASE UNCHANGED queued
      BY <3>1, <1>ty, <1>same
    <3>2. ASSUME NEW way \in {"waiting", "delayed"}, Moved(p, way) PROVE <2>3!1 /\ <2>3!2
      BY <3>2, <1>ats, <1>ty, MovedJob
    <3> QED BY <2>1, <3>1, <3>2 DEF Enqueue, Moved
  <2> QED BY <2>1, <2>2, <2>3, <1>ty, <1>gate, <1>mis, QuietJob
<1>4. ASSUME NEW p \in Posts, Take(p) PROVE JobsInv'
  <2>1. /\ UNCHANGED <<push, gate>> /\ Cardinality(Active) < Concurrency
        /\ Mishap \/ UNCHANGED mishaps
        /\ \/ \E way \in {"delayed", "kept"} : Moved(p, way)
           \/ Gated(p, "allow") /\ Moved(p, "active")
    BY <1>4, Zenon DEF Take, Gated
  <2>2. GateTypeOK' /\ OursCounted' /\ ours' = ours /\ push' \in [Posts -> Push]
    BY <2>1, <1>gate, <1>mis, <1>ty
  <2>3. ASSUME NEW way \in {"delayed", "kept"}, Moved(p, way) PROVE JobsInv'
    <3>1. queued' \in [Posts -> Job] /\ Active' = Active \ {p}
      BY <2>3, <1>ats, <1>ty, MovedJob
    <3> QED BY <3>1, <2>2, QuietJob
  <2>4. ASSUME Gated(p, "allow"), Moved(p, "active") PROVE JobsInv'
    <3>1. queued' \in [Posts -> Job] /\ Active' = Active \cup {p}
      BY <2>4, <1>ats, <1>ty, MovedJob
    <3>2. JobsTypeOK'
      BY <3>1, <2>2 DEF JobsTypeOK, GateTypeOK, Job, JobAts, Push, PushAts
    <3>3. Cardinality(Active') \in Nat /\ Cardinality(Active') <= Cardinality(Active) + 1
      <4>1. Cardinality(Active \cup {p}) = IF p \in Active THEN Cardinality(Active) ELSE Cardinality(Active) + 1
        BY ActiveIsFinite, FS_AddElement
      <4> QED BY <3>1, <4>1, ActiveIsFinite
    <3>4. ours <= Threshold - 1
      BY <2>4, AllowedBelow
    <3>5. RoomForSends'
      BY <3>3, <3>4, <2>1, <2>2, <1>ty, ActiveIsFinite, JobsConstants DEF RoomForSends, GateTypeOK
    <3> QED BY <3>2, <3>5, <2>2 DEF JobsInv
  <2> QED BY <2>1, <2>3, <2>4
<1>5. ASSUME NEW p \in Posts, Answered(p) PROVE JobsInv'
  <2> DEFINE j == [at |-> IF queued[p].tries + 1 < JobAttempts THEN "delayed" ELSE "kept",
                   tries |-> queued[p].tries + 1]
  <2>0. queued[p].at = "active" /\ UNCHANGED <<push, mishaps>>
    BY <1>5 DEF Answered
  <2>1. /\ (\E way \in {"delayed", "kept"} : Moved(p, way)) \/ queued' = [queued EXCEPT ![p] = j]
        /\ Increment(TRUE) \/ UNCHANGED <<window, count, ours>>
        /\ locked' \in {locked, locked \cup {p[1]}} /\ blocked' \in {blocked, blocked \cup {p[1]}}
    BY <1>5, Zenon DEF Answered, gate
  <2>2. queued' \in [Posts -> Job] /\ Active' = Active \ {p}
    <3>1. ASSUME NEW way \in {"delayed", "kept"}, Moved(p, way) PROVE <2>2!1 /\ <2>2!2
      BY <3>1, <1>ats, <1>ty, MovedJob
    <3>2. ASSUME queued' = [queued EXCEPT ![p] = j] PROVE <2>2!1 /\ <2>2!2
      <4>1. j \in Job /\ j.at # "active"
        BY <1>ty DEF Job, JobAts
      <4> HIDE DEF j
      <4> QED BY <3>2, <4>1, <1>ty, QueuePuts
    <3> QED BY <2>1, <3>1, <3>2
  <2>3. GateTypeOK' /\ OursCounted' /\ ours' \in {ours, ours + 1}
    <3>1. window' \in BOOLEAN /\ count' \in Nat /\ ours' \in {ours, ours + 1} /\ OursCounted'
      <4>1. CASE Increment(TRUE)
        <5>1. count' = count + 1 /\ ours' = ours + 1
          BY <4>1 DEF Increment
        <5>2. window' \in BOOLEAN /\ window'
          BY <4>1 DEF Increment
        <5> QED BY <5>1, <5>2, <1>ty DEF GateTypeOK, OursCounted
      <4>2. CASE UNCHANGED <<window, count, ours>>
        BY <4>2, <1>ty DEF GateTypeOK, OursCounted
      <4> QED BY <2>1, <4>1, <4>2
    <3>2. locked' \subseteq Feeds /\ blocked' \subseteq Feeds
      BY <2>1, <1>ty, JobsConstants DEF GateTypeOK
    <3> QED BY <3>1, <3>2, <2>0, <1>ty DEF GateTypeOK
  <2>4. JobsTypeOK'
    BY <2>0, <2>2, <2>3, <1>ty DEF JobsTypeOK, GateTypeOK, Job, JobAts, Push, PushAts
  <2>5. p \in Active
    BY <2>0 DEF Active, InState
  <2>6. Cardinality(Active') \in Nat /\ Cardinality(Active') = Cardinality(Active) - 1
    BY <2>2, <2>5, FewerActive
  <2>7. RoomForSends'
    BY <2>6, <2>3, <1>ty, ActiveIsFinite, JobsConstants DEF RoomForSends, JobsInv, GateTypeOK
  <2> QED BY <2>4, <2>3, <2>7 DEF JobsInv
<1>6. ASSUME Others, UNCHANGED <<queue, locked, blocked, mishaps>> PROVE JobsInv'
  <2>1. GateTypeOK' /\ OursCounted' /\ ours' = ours
    BY <1>6, <1>ty DEF Others, Increment, GateTypeOK, OursCounted
  <2>2. JobsTypeOK' /\ Active' = Active
    BY <1>6, <1>ty, <2>1, <1>same DEF queue, JobsTypeOK, GateTypeOK, Job, JobAts, Push, PushAts
  <2>3. RoomForSends'
    BY <2>1, <2>2 DEF RoomForSends, JobsInv
  <2> QED BY <2>1, <2>2, <2>3 DEF JobsInv
<1>7. ASSUME NEW p \in Posts, DelayEnds(p) PROVE JobsInv'
  <2>1. queued' \in [Posts -> Job] /\ Active' = Active \ {p}
    BY <1>7, <1>ats, <1>ty, MovedJob DEF DelayEnds
  <2> QED BY <2>1, <1>7, <1>ty, <1>gate, <1>mis, QuietJob DEF DelayEnds
<1>8. ASSUME NEW p \in Posts, RemoveJob(p) PROVE JobsInv'
  <2>1. NoQueued \in Job /\ NoQueued.at # "active"
    BY DEF NoQueued, Job, JobAts
  <2>2. queued' \in [Posts -> Job] /\ Active' = Active \ {p}
    BY <2>1, <1>8, <1>ty, QueuePuts DEF RemoveJob
  <2> QED BY <2>2, <1>8, <1>ty, <1>gate, <1>mis, QuietJob DEF RemoveJob
<1>9. ASSUME NEW f \in Feeds, Opens(f) PROVE JobsInv'
  <2>1. GateTypeOK' /\ OursCounted' /\ ours' = ours
    BY <1>9, <1>ty DEF Opens, GateTypeOK, OursCounted
  <2>2. JobsTypeOK' /\ Active' = Active
    BY <1>9, <1>ty, <2>1, <1>same DEF Opens, queue, JobsTypeOK, GateTypeOK, Job, JobAts, Push, PushAts
  <2>3. RoomForSends'
    BY <2>1, <2>2 DEF RoomForSends, JobsInv
  <2> QED BY <2>1, <2>2, <2>3 DEF JobsInv
<1>10. ASSUME WindowEnds PROVE JobsInv'
  <2>1. GateTypeOK' /\ OursCounted' /\ ours' = 0
    <3>1. count' = 0 /\ ours' = 0 /\ UNCHANGED <<locked, blocked, mishaps>>
      BY <1>10 DEF WindowEnds
    <3>2. window' \in BOOLEAN
      BY <1>10 DEF WindowEnds
    <3> QED BY <3>1, <3>2, <1>ty DEF GateTypeOK, OursCounted
  <2>2. JobsTypeOK' /\ Active' = Active
    BY <1>10, <1>ty, <2>1, <1>same DEF WindowEnds, queue, JobsTypeOK, GateTypeOK, Job, JobAts, Push, PushAts
  <2>3. RoomForSends'
    BY <2>1, <2>2, ActiveIsFinite, JobsConstants DEF RoomForSends, JobsInv
  <2> QED BY <2>1, <2>2, <2>3 DEF JobsInv
<1>11. CASE UNCHANGED jobVars
  BY <1>11, <1>same DEF jobVars, queue, gate, JobsInv, JobsTypeOK, OursCounted, RoomForSends
<1>12. ASSUME NEW p \in Posts, WaitedOut(p) PROVE JobsInv'
  BY <1>12, <1>6 DEF WaitedOut
<1>13. ASSUME Passthrough PROVE JobsInv'
  BY <1>13, <1>6 DEF Passthrough
<1> QED
  BY <1>1, <1>2, <1>3, <1>4, <1>5, <1>7, <1>8, <1>9, <1>10, <1>11, <1>12, <1>13 DEF JobsNext

(* The pushes, the jobs and the gate keep their ranges.                    *)
THEOREM JobsTypeCorrect == JobsSpec => []JobsTypeOK
<1>1. JobsInv => JobsTypeOK
  BY DEF JobsInv
<1> QED BY <1>1, JobsInitInv, JobsStep, PTL DEF JobsSpec

(* gateway/invalidRequests.ts's shed: in one window, the invalid answers   *)
(* that end a crosspost exceed what is below the threshold by the worker's *)
(* concurrency at most, for any threshold, messages and other traffic.     *)
THEOREM ShedIsBounded == JobsSpec => []ShedBounds
<1>1. JobsInv => ShedBounds
  BY ActiveIsFinite, JobsConstants, JobsTypes DEF JobsInv, RoomForSends, ShedBounds, GateTypeOK
<1> QED BY <1>1, JobsInitInv, JobsStep, PTL DEF JobsSpec

-----------------------------------------------------------------------------
(* The helper's passes.                                                     *)
Stages == {"idle", "read", "answered", "apply"}
PassStates == [at : Stages, desired : SUBSET Users, grants : SUBSET Users, revokes : SUBSET Users]
Caches == [members : SUBSET Users, holders : SUBSET Users]
Links == {"up", "stale", "fetched", "down"}
Fetches == [on : BOOLEAN, users : SUBSET Users]
Checks == {"none", "ask", "grant"}
Answers == [known : BOOLEAN, users : SUBSET Users]
Counts == [changes : 0..MaxChanges, faults : 0..MaxFaults]

(* What a pass knows of those who have paid ever since it began: they are  *)
(* in its answer, and not among its revokes.                               *)
PassSparesSteady ==
  /\ steady \subseteq paying
  /\ pass.at = "answered" => steady \subseteq pass.desired
  /\ pass.at = "apply" => pass.revokes \cap steady = {}

HelperInv == HelperTypeOK /\ PassSparesSteady

LEMMA HelperTypes ==
  HelperTypeOK <=>
    /\ paying \subseteq Users /\ members \subseteq Users /\ holders \subseteq members
    /\ cached \in Caches /\ link \in Links /\ fetch \in Fetches /\ overlooked \subseteq Users
    /\ writable \in BOOLEAN /\ loop \in BOOLEAN
    /\ lastDesired \in Answers /\ pass \in PassStates /\ check \in [Users -> Checks]
    /\ steady \subseteq Users /\ spent \in Counts
BY DEF HelperTypeOK, Links, Fetches, Caches, Answers, PassStates, Stages, Checks, Counts

(* Records of a pass, edited as the steps do.                              *)
LEMMA PassMoves == \A p \in PassStates, a \in Stages : [p EXCEPT !.at = a] \in PassStates /\ [p EXCEPT !.at = a].at = a
BY DEF PassStates

AnsweredPass(p, d) == [p EXCEPT !.at = "answered", !.desired = d]
SmallerPass(p, g, r) == [p EXCEPT !.grants = g, !.revokes = r]

LEMMA PassAnswered ==
  \A p \in PassStates, d \in SUBSET Users :
    AnsweredPass(p, d) \in PassStates /\ AnsweredPass(p, d).at = "answered" /\ AnsweredPass(p, d).desired = d
BY DEF PassStates, Stages, AnsweredPass

LEMMA PassShrinks ==
  \A p \in PassStates, g \in SUBSET Users, r \in SUBSET Users :
    /\ SmallerPass(p, g, r) \in PassStates /\ SmallerPass(p, g, r).at = p.at
    /\ SmallerPass(p, g, r).revokes = r
BY DEF PassStates, SmallerPass

LEMMA Beginnings ==
  /\ NoPass \in PassStates /\ NoPass.at = "idle" /\ StartPass \in PassStates /\ StartPass.at = "read"
  /\ NoAnswer \in Answers /\ NoChecks \in [Users -> Checks]
<1>1. NoPass \in PassStates /\ NoPass.at = "idle"
  BY DEF NoPass, PassStates, Stages
<1>2. StartPass \in PassStates /\ StartPass.at = "read"
  <2>1. "read" \in Stages
    BY DEF Stages
  <2> QED BY <1>1, <2>1, PassMoves, Zenon DEF StartPass
<1>3. NoAnswer \in Answers
  BY DEF NoAnswer, Answers
<1>4. NoChecks \in [Users -> Checks]
  BY DEF NoChecks, Checks
<1> QED BY <1>1, <1>2, <1>3, <1>4

LEMMA CountsMove ==
  ASSUME spent \in Counts
  PROVE  /\ Change => spent' \in Counts /\ spent'.changes # spent.changes
         /\ Fault => spent' \in Counts
<1>1. MaxChanges \in Nat /\ MaxFaults \in Nat
  BY HelperAssumption
<1>2. Change => spent' \in Counts /\ spent'.changes # spent.changes
  BY <1>1 DEF Change, Counts
<1>3. Fault => spent' \in Counts
  BY <1>1 DEF Fault, Counts
<1> QED BY <1>2, <1>3

LEMMA PutIn == \A S \in SUBSET Users, u \in Users, b \in BOOLEAN : Put(S, u, b) \in SUBSET Users
BY DEF Put

LEMMA BecomesOK ==
  ASSUME HelperTypeOK, NEW u \in Users, NEW member \in BOOLEAN, NEW holder \in BOOLEAN,
         holder => member, Becomes(u, member, holder)
  PROVE  /\ members' \subseteq Users /\ holders' \subseteq members' /\ cached' \in Caches
         /\ overlooked' \subseteq Users
         /\ holder => holders \subseteq holders'
         /\ holders \ holders' \subseteq {u}
<1>t. members \subseteq Users /\ holders \subseteq members /\ cached \in Caches /\ overlooked \subseteq Users
  BY HelperTypes
<1>1. members' = Put(members, u, member) /\ holders' = Put(holders, u, holder)
  BY DEF Becomes
<1>2. members' \subseteq Users /\ holders' \subseteq members'
  BY <1>1, <1>t DEF Put
<1>3. cached' \in Caches
  <2>1. Put(cached.members, u, member) \in SUBSET Users /\ Put(cached.holders, u, holder) \in SUBSET Users
    BY <1>t, PutIn DEF Caches
  <2> QED BY <2>1, <1>t DEF Becomes, Caches
<1>4. (holder => holders \subseteq holders') /\ holders \ holders' \subseteq {u}
  BY <1>1 DEF Put
<1>5. overlooked' \subseteq Users
  BY <1>t DEF Becomes
<1> QED BY <1>2, <1>3, <1>4, <1>5

LEMMA WriteOK ==
  ASSUME HelperTypeOK, NEW u \in Users, NEW holder \in BOOLEAN, Write(u, holder)
  PROVE  /\ members' \subseteq Users /\ holders' \subseteq members' /\ cached' \in Caches
         /\ overlooked' \subseteq Users /\ spent' \in Counts
         /\ holder => holders \subseteq holders'
         /\ holders \ holders' \subseteq {u}
<1>t. members \subseteq Users /\ holders \subseteq members /\ cached \in Caches /\ spent \in Counts
    /\ overlooked \subseteq Users
  BY HelperTypes
<1>1. CASE Becomes(u, TRUE, holder) /\ UNCHANGED spent
  BY <1>1, <1>t, BecomesOK
<1>2. CASE UNCHANGED <<memberVars, spent>>
  BY <1>2, <1>t DEF memberVars
<1>3. CASE Fault /\ UNCHANGED memberVars
  BY <1>3, <1>t, CountsMove DEF memberVars
<1> QED BY <1>1, <1>2, <1>3 DEF Write, memberVars

LEMMA HelperInitInv == Init => HelperInv
<1> SUFFICES ASSUME Init PROVE HelperInv OBVIOUS
<1>1. lastDesired \in Answers /\ pass \in PassStates /\ pass.at = "idle" /\ check \in [Users -> Checks]
  BY Beginnings DEF Init, Began
<1>2. spent \in Counts
  BY HelperAssumption DEF Init, Counts
<1>3. paying \subseteq Users /\ members \subseteq Users /\ holders \subseteq members /\ steady = {}
  BY DEF Init
<1>4. /\ cached \in Caches /\ link \in Links /\ fetch \in Fetches /\ overlooked \subseteq Users
      /\ writable \in BOOLEAN /\ loop \in BOOLEAN
  BY DEF Init, Began, Caches, Links, Fetches, NoFetch
<1> QED BY <1>1, <1>2, <1>3, <1>4, HelperTypes DEF HelperInv, PassSparesSteady

(* A step keeps the invariant, and takes the role from nobody who has paid *)
(* since the pass began, unless a person takes it.                         *)
Spares == spent'.changes = spent.changes => (holders \ holders') \cap steady = {}

LEMMA HelperStep ==
  ASSUME HelperInv, Next
  PROVE  HelperInv' /\ Spares
<1>t. /\ paying \subseteq Users /\ members \subseteq Users /\ holders \subseteq members
      /\ cached \in Caches /\ link \in Links /\ fetch \in Fetches /\ overlooked \subseteq Users
      /\ writable \in BOOLEAN /\ loop \in BOOLEAN
      /\ lastDesired \in Answers /\ pass \in PassStates /\ check \in [Users -> Checks]
      /\ steady \subseteq Users /\ spent \in Counts
  BY HelperTypes DEF HelperInv
<1>i. HelperTypeOK /\ PassSparesSteady
  BY DEF HelperInv
(* Put together from its parts.                                            *)
<1>k. ASSUME paying' \subseteq Users, members' \subseteq Users, holders' \subseteq members',
             cached' \in Caches, link' \in Links, fetch' \in Fetches,
             overlooked' \subseteq Users, writable' \in BOOLEAN,
             loop' \in BOOLEAN, lastDesired' \in Answers, pass' \in PassStates,
             check' \in [Users -> Checks], steady' \subseteq Users, spent' \in Counts,
             PassSparesSteady'
      PROVE  HelperInv'
  BY <1>k DEF HelperInv, HelperTypeOK, Links, Fetches, Caches, Answers, PassStates, Stages, Checks, Counts
<1>same. ASSUME UNCHANGED <<steady, paying, pass>> PROVE PassSparesSteady'
  BY <1>same, <1>i DEF PassSparesSteady
<1>1. ASSUME NEW u \in Users, Pays(u) PROVE HelperInv' /\ Spares
  <2>1. /\ Change /\ paying' = Put(paying, u, u \notin paying) /\ steady' = steady \ {u}
        /\ UNCHANGED <<members, holders, writable, helper, cached, overlooked>>
    BY <1>1 DEF Pays
  <2>2. paying' \subseteq Users /\ steady' \subseteq paying' /\ steady' \subseteq Users
    BY <2>1, <1>i, <1>t DEF Put, PassSparesSteady
  <2>3. PassSparesSteady'
    BY <2>1, <2>2, <1>i DEF PassSparesSteady, helper
  <2>4. spent' \in Counts /\ spent'.changes # spent.changes
    BY <2>1, <1>t, CountsMove
  <2> QED BY <2>1, <2>2, <2>3, <2>4, <1>t, <1>k DEF helper, history, Spares
<1>2. ASSUME NEW u \in Users, Joins(u) PROVE HelperInv' /\ Spares
  <2>1. /\ Change /\ Becomes(u, TRUE, FALSE)
        /\ UNCHANGED <<paying, writable, link, fetch, loop, lastDesired, pass, steady>>
    BY <1>2 DEF Joins
  <2>2. PICK c \in Checks : check' = [check EXCEPT ![u] = c]
    <3>1. check[u] \in Checks /\ "ask" \in Checks /\ "grant" \in Checks
      BY <1>t DEF Checks
    <3> QED BY <1>2, <3>1 DEF Joins
  <2>3. check' \in [Users -> Checks]
    BY <2>2, <1>t
  <2>4. spent' \in Counts /\ spent'.changes # spent.changes
    BY <2>1, <1>t, CountsMove
  <2>5. /\ members' \subseteq Users /\ holders' \subseteq members' /\ cached' \in Caches
        /\ overlooked' \subseteq Users
    BY <2>1, <1>i, BecomesOK
  <2> QED BY <2>1, <2>3, <2>4, <2>5, <1>t, <1>k, <1>same DEF Spares
<1>3. ASSUME NEW u \in Users, Leaves(u) \/ HandChanges(u) PROVE HelperInv' /\ Spares
  <2>1. Change /\ UNCHANGED <<paying, writable, helper, steady>>
    BY <1>3 DEF Leaves, HandChanges
  <2>2. /\ members' \subseteq Users /\ holders' \subseteq members' /\ cached' \in Caches
        /\ overlooked' \subseteq Users
    <3>1. CASE Becomes(u, FALSE, FALSE)
      BY <3>1, <1>i, BecomesOK
    <3>2. CASE Becomes(u, TRUE, u \notin holders)
      <4>1. (u \notin holders) \in BOOLEAN
        OBVIOUS
      <4> QED BY <4>1, <3>2, <1>i, BecomesOK
    <3> QED BY <1>3, <3>1, <3>2 DEF Leaves, HandChanges
  <2>3. spent' \in Counts /\ spent'.changes # spent.changes
    BY <2>1, <1>t, CountsMove
  <2> QED BY <2>1, <2>2, <2>3, <1>t, <1>k, <1>same DEF helper, history, Spares
<1>4. ASSUME NEW u \in Users, Apply(u) PROVE HelperInv' /\ Spares
  <2>1. /\ pass.at = "apply" /\ u \in (IF pass.grants # {} THEN pass.grants ELSE pass.revokes)
        /\ Write(u, u \in pass.grants) /\ pass' = Without(u)
        /\ UNCHANGED <<paying, writable, link, fetch, loop, lastDesired, check, steady>>
    BY <1>4 DEF Apply
  <2>2. /\ members' \subseteq Users /\ holders' \subseteq members' /\ cached' \in Caches
        /\ overlooked' \subseteq Users /\ spent' \in Counts
        /\ u \in pass.grants => holders \subseteq holders'
        /\ holders \ holders' \subseteq {u}
    <3>1. (u \in pass.grants) \in BOOLEAN
      OBVIOUS
    <3> QED BY <3>1, <2>1, <1>i, WriteOK
  <2>3. pass' \in PassStates /\ (pass'.at = "apply" => pass'.revokes \cap steady = {}) /\ pass'.at # "answered"
    <3> DEFINE g == pass.grants \ {u}
               r == pass.revokes \ {u}
               rest == SmallerPass(pass, g, r)
    <3>1. g \in SUBSET Users /\ r \in SUBSET Users /\ r \cap steady = {}
      BY <2>1, <1>i, <1>t DEF PassStates, PassSparesSteady
    <3>2. pass' = NoPass \/ pass' = rest
      BY <2>1 DEF Without, SmallerPass
    <3> HIDE DEF g, r
    <3>3. rest \in PassStates /\ rest.at = pass.at /\ rest.revokes = r
      BY <3>1, <1>t, PassShrinks, Zenon
    <3> HIDE DEF rest
    <3> QED BY <3>1, <3>2, <3>3, <2>1, Beginnings
  <2>4. PassSparesSteady'
    BY <2>1, <2>3, <1>i DEF PassSparesSteady
  <2>5. Spares
    <3>1. CASE u \in pass.grants
      BY <3>1, <2>2 DEF Spares
    <3>2. CASE u \notin pass.grants
      <4>1. u \in pass.revokes
        BY <3>2, <2>1
      <4>2. u \notin steady
        BY <4>1, <2>1, <1>i DEF PassSparesSteady
      <4> QED BY <4>2, <2>2 DEF Spares
    <3> QED BY <3>1, <3>2
  <2> QED BY <2>1, <2>2, <2>3, <2>4, <2>5, <1>t, <1>k
<1>5. ASSUME NEW u \in Users, CheckAsks(u) PROVE HelperInv' /\ Spares
  <2>1. UNCHANGED <<people, link, fetch, loop, lastDesired, pass, cached, history>>
    BY <1>5 DEF CheckAsks
  <2>2. spent' \in Counts
    BY <1>5, <1>t, CountsMove DEF CheckAsks
  <2>3. PICK c \in Checks : check' = [check EXCEPT ![u] = c]
    <3>1. "none" \in Checks /\ "grant" \in Checks
      BY DEF Checks
    <3> QED BY <1>5, <3>1 DEF CheckAsks
  <2>4. check' \in [Users -> Checks]
    BY <2>3, <1>t
  <2> QED BY <2>1, <2>2, <2>4, <1>t, <1>k, <1>same DEF people, history, Spares
<1>6. ASSUME NEW u \in Users, CheckGrants(u) PROVE HelperInv' /\ Spares
  <2>1. /\ Write(u, TRUE) /\ check' = [check EXCEPT ![u] = "none"]
        /\ UNCHANGED <<paying, writable, link, fetch, loop, lastDesired, pass, steady>>
    BY <1>6 DEF CheckGrants
  <2>2. /\ members' \subseteq Users /\ holders' \subseteq members' /\ cached' \in Caches
        /\ overlooked' \subseteq Users /\ spent' \in Counts /\ holders \subseteq holders'
    BY <2>1, <1>i, WriteOK
  <2>3. check' \in [Users -> Checks]
    BY <2>1, <1>t DEF Checks
  <2> QED BY <2>1, <2>2, <2>3, <1>t, <1>k, <1>same DEF Spares
<1>7. CASE RoleMoves
  <2>1. Change /\ writable' = ~writable /\ UNCHANGED <<paying, members, holders, helper, cached, history>>
    BY <1>7 DEF RoleMoves
  <2>2. spent' \in Counts
    BY <2>1, <1>t, CountsMove
  <2>3. writable' \in BOOLEAN
    BY <2>1
  <2> QED BY <2>1, <2>2, <2>3, <1>t, <1>k, <1>same DEF helper, history, Spares
<1>8. CASE Outage \/ GuildAvailable
  <2>1. /\ link' \in {"down", "stale"}
        /\ UNCHANGED <<people, fetch, loop, lastDesired, pass, check, cached, history>>
    BY <1>8 DEF Outage, GuildAvailable
  <2>3. link' \in Links
    BY <2>1 DEF Links
  <2>2. spent' \in Counts
    BY <1>8, <1>t, CountsMove DEF Outage, GuildAvailable
  <2> QED BY <2>1, <2>2, <2>3, <1>t, <1>k, <1>same DEF people, history, Spares
<1>9. CASE Restart
  <2>1. /\ Fault /\ link' = "stale" /\ loop' = FALSE
        /\ lastDesired' = NoAnswer /\ pass' = NoPass /\ check' = NoChecks
        /\ cached' = [members |-> {}, holders |-> {}]
        /\ fetch' = NoFetch /\ overlooked' = {}
        /\ UNCHANGED <<people, steady>>
    BY <1>9 DEF Restart
  <2>2. cached' \in Caches /\ spent' \in Counts /\ link' \in Links /\ fetch' \in Fetches
    BY <2>1, <1>t, CountsMove DEF Caches, Links, Fetches, NoFetch
  <2>3. PassSparesSteady'
    BY <2>1, <1>i, Beginnings DEF PassSparesSteady, people
  <2> QED BY <2>1, <2>2, <2>3, <1>t, <1>k, Beginnings DEF people, history, Spares
<1>10. CASE FetchMembers
  <2>1. /\ link' = "fetched" /\ fetch' = [on |-> TRUE, users |-> members]
        /\ cached' = [members |-> cached.members \cup members,
                      holders |-> (cached.holders \ members) \cup holders]
        /\ overlooked' = {}
        /\ UNCHANGED <<people, loop, lastDesired, pass, check, steady, spent>>
    BY <1>10 DEF FetchMembers
  <2>2. cached' \in Caches /\ link' \in Links /\ fetch' \in Fetches
    BY <2>1, <1>t DEF Caches, Links, Fetches
  <2> QED BY <2>1, <2>2, <1>t, <1>k, <1>same DEF people, Spares
<1>15. CASE EvictMembers
  <2>1. /\ fetch' = NoFetch /\ link' = (IF link = "fetched" THEN "up" ELSE link) /\ loop' = TRUE
        /\ cached' = Evicted
        /\ overlooked' = overlooked \cup (members \cap (cached.members \ fetch.users))
        /\ \/ pass' = StartPass /\ steady' = paying
           \/ pass' = pass /\ steady' = steady
        /\ UNCHANGED <<people, lastDesired, check, spent>>
    BY <1>15 DEF EvictMembers
  <2>2. cached' \in Caches /\ link' \in Links /\ fetch' \in Fetches /\ overlooked' \subseteq Users
    BY <2>1, <1>t DEF Evicted, Caches, Links, Fetches, NoFetch
  <2>3. PassSparesSteady' /\ pass' \in PassStates /\ steady' \subseteq Users
    BY <2>1, <1>i, <1>t, Beginnings DEF PassSparesSteady, people
  <2> QED BY <2>1, <2>2, <2>3, <1>t, <1>k DEF people, Spares
<1>11. CASE Tick
  <2>1. /\ pass' = StartPass /\ steady' = paying
        /\ UNCHANGED <<people, link, fetch, loop, lastDesired, check, cached, overlooked, spent>>
    BY <1>11 DEF Tick
  <2>2. PassSparesSteady' /\ pass' \in PassStates /\ steady' \subseteq Users
    BY <2>1, <1>t, Beginnings DEF PassSparesSteady, people
  <2> QED BY <2>1, <2>2, <1>t, <1>k DEF people, history, Spares
<1>12. CASE Query
  <2> DEFINE q == AnsweredPass(pass, paying)
  <2>1. pass' = q /\ OnlyPass /\ UNCHANGED <<lastDesired, spent>>
    BY <1>12 DEF Query, AnsweredPass
  <2>2. q \in PassStates /\ q.at = "answered" /\ q.desired = paying
    <3>1. "answered" \in Stages /\ paying \in SUBSET Users
      BY <1>t DEF Stages
    <3> QED BY <3>1, <1>t, PassAnswered, Zenon
  <2> HIDE DEF q
  <2>3. PassSparesSteady'
    BY <2>1, <2>2, <1>i DEF PassSparesSteady, OnlyPass, people, history
  <2> QED BY <2>1, <2>2, <2>3, <1>t, <1>k DEF OnlyPass, people, history, Spares
<1>13. CASE ReadFails
  <2>1. Fault /\ pass' = NoPass /\ OnlyPass /\ UNCHANGED lastDesired
    BY <1>13 DEF ReadFails
  <2>2. spent' \in Counts
    BY <2>1, <1>t, CountsMove
  <2>3. PassSparesSteady'
    BY <2>1, <1>i, Beginnings DEF PassSparesSteady, OnlyPass, people, history
  <2> QED BY <2>1, <2>2, <2>3, <1>t, <1>k, Beginnings DEF OnlyPass, people, history, Spares
<1>14. CASE Plan
  <2> DEFINE grants == (pass.desired \cap cached.members) \ cached.holders
             revokes == cached.holders \ pass.desired
             todo == [at |-> "apply", desired |-> {}, grants |-> grants, revokes |-> revokes]
  <2>1. /\ pass.at = "answered" /\ lastDesired' = [known |-> TRUE, users |-> pass.desired]
        /\ pass' = todo \/ pass' = NoPass
        /\ OnlyPass /\ UNCHANGED spent
    BY <1>14 DEF Plan
  <2>2. lastDesired' \in Answers
    BY <2>1, <1>t DEF Answers, PassStates
  <2>3. grants \in SUBSET Users /\ revokes \in SUBSET Users /\ revokes \cap steady = {}
    BY <2>1, <1>i, <1>t DEF Caches, PassSparesSteady
  <2> HIDE DEF grants, revokes
  <2>4. todo \in PassStates /\ todo.at = "apply" /\ todo.revokes = revokes
    BY <2>3 DEF PassStates, Stages
  <2> HIDE DEF todo
  <2>5. PassSparesSteady' /\ pass' \in PassStates
    BY <2>1, <2>3, <2>4, <1>i, Beginnings DEF PassSparesSteady, OnlyPass, people, history
  <2> QED BY <2>1, <2>2, <2>5, <1>t, <1>k DEF OnlyPass, people, history, Spares
<1> QED
  BY <1>1, <1>2, <1>3, <1>4, <1>5, <1>6, <1>7, <1>8, <1>9, <1>10, <1>11, <1>12, <1>13, <1>14, <1>15 DEF Next

LEMMA HelperStutters == HelperInv /\ UNCHANGED vars => HelperInv'
BY DEF HelperInv, HelperTypeOK, PassSparesSteady, vars, people, helper, history

(* The role's members, the cache and the pass keep their ranges.           *)
THEOREM HelperTypeCorrect == HelperSpec => []HelperTypeOK
<1>1. HelperInv => HelperTypeOK
  BY DEF HelperInv
<1>2. HelperInv /\ [Next]_vars => HelperInv'
  BY HelperStep, HelperStutters
<1> QED BY <1>1, <1>2, HelperInitInv, PTL DEF HelperSpec

(* reconcile.ts's rule, "never revoke on a failed read": no pass, join     *)
(* check or failed call takes the role from a member who has paid ever     *)
(* since the pass began, for any number of members, changes and faults.    *)
THEOREM PayersKeepTheRole == HelperSpec => KeepsPaying
<1>1. HelperInv /\ [Next]_vars => HelperInv'
  BY HelperStep, HelperStutters
<1>2. HelperInv /\ [Next]_vars
        => [spent'.changes = spent.changes => (holders \ holders') \cap steady = {}]_vars
  BY HelperStep DEF Spares
<1> QED BY <1>1, <1>2, HelperInitInv, PTL DEF HelperSpec, KeepsPaying

-----------------------------------------------------------------------------
(* The cache.  Between the answer and the clean-up it has all members, with *)
(* their role, and of those in the answer nobody who has left; and only a   *)
(* fetch that was overtaken by an outage is under way at any other time.    *)
FetchStands ==
  /\ fetch.on /\ overlooked = {}
  /\ members \subseteq cached.members
  /\ cached.members \cap fetch.users \subseteq members
  /\ \A u \in members \cup fetch.users : u \in cached.holders <=> u \in holders

CacheInv ==
  /\ HelperTypeOK /\ CacheIsTrue
  /\ link = "up" => ~fetch.on
  /\ link = "fetched" => FetchStands

(* An event reaches the cache of a guild that is available.                *)
LEMMA EventsKeepCache ==
  ASSUME CacheInv, NEW u \in Users, NEW member \in BOOLEAN, NEW holder \in BOOLEAN,
         holder => member, Becomes(u, member, holder), UNCHANGED <<link, fetch>>, HelperTypeOK'
  PROVE  CacheInv'
<1>t. cached \in Caches /\ holders \subseteq members
  BY HelperTypes DEF CacheInv
<1>1. members' = Put(members, u, member) /\ holders' = Put(holders, u, holder)
  BY DEF Becomes
<1>2. link # "down" => /\ cached'.members = Put(cached.members, u, member)
                       /\ cached'.holders = Put(cached.holders, u, holder)
                       /\ cached' = [members |-> Put(cached.members, u, member),
                                     holders |-> Put(cached.holders, u, holder)]
                       /\ overlooked' = overlooked \ {u}
  BY DEF Becomes
<1>3. CASE link = "up"
  <2>1. cached = [members |-> members \ overlooked, holders |-> holders \ overlooked] /\ ~fetch.on
    BY <1>3 DEF CacheInv, CacheIsTrue
  <2>2. /\ Put(cached.members, u, member) = members' \ overlooked'
        /\ Put(cached.holders, u, holder) = holders' \ overlooked'
    BY <2>1, <1>1, <1>2, <1>3 DEF Put
  <2> QED BY <2>1, <2>2, <1>2, <1>3 DEF CacheInv, CacheIsTrue
<1>4. CASE link = "fetched"
  <2>1. FetchStands
    BY <1>4 DEF CacheInv
  <2>2. FetchStands'
    BY <2>1, <1>1, <1>2, <1>4, <1>t DEF FetchStands, Put
  <2> QED BY <2>2, <1>4 DEF CacheInv, CacheIsTrue
<1> QED BY <1>3, <1>4 DEF CacheInv, CacheIsTrue

LEMMA CacheStep == ASSUME CacheInv, Next, HelperTypeOK' PROVE CacheInv'
<1>t. cached \in Caches /\ fetch \in Fetches /\ members \subseteq Users /\ holders \subseteq members
  BY HelperTypes DEF CacheInv
<1>same. ASSUME UNCHANGED <<members, holders, link, fetch, cached, overlooked>> PROVE CacheInv'
  BY <1>same DEF CacheInv, CacheIsTrue, FetchStands
<1>w. ASSUME NEW u \in Users, NEW holder \in BOOLEAN, Write(u, holder), UNCHANGED <<link, fetch>>
      PROVE  CacheInv'
  <2>1. CASE Becomes(u, TRUE, holder)
    BY <2>1, <1>w, EventsKeepCache
  <2>2. CASE UNCHANGED memberVars
    BY <2>2, <1>w, <1>same DEF memberVars
  <2> QED BY <2>1, <2>2, <1>w DEF Write, memberVars
<1>1. ASSUME NEW u \in Users, Joins(u) \/ Leaves(u) \/ HandChanges(u) PROVE CacheInv'
  <2>1. UNCHANGED <<link, fetch>>
    BY <1>1 DEF Joins, Leaves, HandChanges, helper
  <2>2. CASE Becomes(u, TRUE, FALSE) \/ Becomes(u, FALSE, FALSE)
    BY <2>1, <2>2, EventsKeepCache
  <2>3. CASE Becomes(u, TRUE, u \notin holders)
    <3>1. (u \notin holders) \in BOOLEAN
      OBVIOUS
    <3> QED BY <3>1, <2>1, <2>3, EventsKeepCache
  <2> QED BY <1>1, <2>2, <2>3 DEF Joins, Leaves, HandChanges
<1>2. ASSUME NEW u \in Users, Apply(u) PROVE CacheInv'
  <2>1. (u \in pass.grants) \in BOOLEAN
    OBVIOUS
  <2> QED BY <2>1, <1>2, <1>w DEF Apply
<1>3. ASSUME NEW u \in Users, CheckGrants(u) PROVE CacheInv'
  BY <1>3, <1>w DEF CheckGrants
<1>4. ASSUME NEW u \in Users, Pays(u) \/ CheckAsks(u) PROVE CacheInv'
  BY <1>4, <1>same DEF Pays, CheckAsks, people, helper, history
<1>5. CASE RoleMoves \/ Tick \/ Query \/ ReadFails \/ Plan
  BY <1>5, <1>same DEF RoleMoves, Tick, Query, ReadFails, Plan, OnlyPass, people, helper, history
<1>6. CASE Outage \/ GuildAvailable \/ Restart
  <2>1. link' \in {"down", "stale"}
    BY <1>6 DEF Outage, GuildAvailable, Restart
  <2> QED BY <2>1 DEF CacheInv, CacheIsTrue
<1>7. CASE FetchMembers
  <2>1. /\ link' = "fetched" /\ fetch' = [on |-> TRUE, users |-> members] /\ overlooked' = {}
        /\ cached' = [members |-> cached.members \cup members,
                      holders |-> (cached.holders \ members) \cup holders]
        /\ members' = members /\ holders' = holders
    BY <1>7 DEF FetchMembers, people
  <2>2. FetchStands'
    BY <2>1, <1>t DEF FetchStands
  <2> QED BY <2>1, <2>2 DEF CacheInv, CacheIsTrue
<1>8. CASE EvictMembers
  <2>1. /\ fetch.on /\ ~fetch'.on /\ link' = (IF link = "fetched" THEN "up" ELSE link)
        /\ cached' = [members |-> cached.members \cap fetch.users,
                      holders |-> cached.holders \cap fetch.users]
        /\ overlooked' = overlooked \cup (members \cap (cached.members \ fetch.users))
        /\ members' = members /\ holders' = holders
    BY <1>8 DEF EvictMembers, Evicted, NoFetch, people
  <2>2. CASE link = "fetched"
    <3>1. FetchStands
      BY <2>2 DEF CacheInv
    <3>2. overlooked' = members \ fetch.users
      BY <3>1, <2>1 DEF FetchStands
    <3>3. /\ cached.members \cap fetch.users = members' \ overlooked'
          /\ cached.holders \cap fetch.users = holders' \ overlooked'
      BY <3>1, <3>2, <2>1, <1>t DEF FetchStands
    <3> QED BY <3>3, <2>1, <2>2 DEF CacheInv, CacheIsTrue
  <2>3. CASE link # "fetched"
    <3>1. link' = link /\ link # "up"
      BY <2>1, <2>3 DEF CacheInv
    <3> QED BY <3>1, <2>3 DEF CacheInv, CacheIsTrue
  <2> QED BY <2>2, <2>3
<1> QED BY <1>1, <1>2, <1>3, <1>4, <1>5, <1>6, <1>7, <1>8 DEF Next

(* reconcile.ts's premise, "live gateway cache": as long as the gateway is  *)
(* up the cache has every member and their role, but for those who joined  *)
(* during the last fetch, for any members, outages and restarts.           *)
THEOREM CacheTellsTheTruth == HelperSpec => []CacheIsTrue
<1>1. Init => CacheInv
  BY HelperInitInv DEF Init, Began, CacheInv, CacheIsTrue, HelperInv
<1>2. HelperInv /\ CacheInv /\ [Next]_vars => HelperInv' /\ CacheInv'
  <2>1. HelperInv /\ [Next]_vars => HelperInv'
    BY HelperStep, HelperStutters
  <2>2. CacheInv /\ UNCHANGED vars => CacheInv'
    BY DEF CacheInv, HelperTypeOK, CacheIsTrue, FetchStands, vars, people, helper, history
  <2> QED BY <2>1, <2>2, CacheStep DEF HelperInv
<1>3. CacheInv => CacheIsTrue
  BY DEF CacheInv
<1> QED BY <1>1, <1>2, <1>3, HelperInitInv, PTL DEF HelperSpec

-----------------------------------------------------------------------------
(* The page.  The rule of weak fairness is out of the provers' reach, but  *)
(* what it rests on is not: no step can be taken for ever, and while the   *)
(* page does not rest a step of the fair actions is due.                   *)
Screens == {"loading", "shown", "waiting", "retry card", "invite card", "no list", "list", "login"}
Away == at \in {"list", "login"}

PageShape ==
  /\ at \in Screens /\ presses \in 0..MaxPresses /\ attempt \in 0..MaxAutoRetries
  /\ latched \in BOOLEAN /\ armed \in BOOLEAN /\ invited \in BOOLEAN
  /\ promise \in Details \cup {"pending", "read"} /\ refresh \in SUBSET Kinds

(* The budget is spent at the boundary only; what waits for a retry holds  *)
(* the error and has a retry left, or one on its way; a skeleton has       *)
(* something to wait for.                                                  *)
Budget ==
  /\ Away => attempt = 0
  /\ Away \/ at = "no list" => promise = "read"
  /\ at = "loading" => ~latched /\ promise # "read"
  /\ at = "waiting" => latched
  /\ at = "waiting" /\ "boundary" \notin refresh => attempt < MaxAutoRetries

PageInv == PageShape /\ Budget

LEMMA NoTries == 0 \in 0..MaxAutoRetries
BY PageAssumption

LEMMA Mounted ==
  ASSUME Mount
  PROVE  /\ at' \in Screens /\ attempt' \in 0..MaxAutoRetries
         /\ latched' \in BOOLEAN /\ armed' \in BOOLEAN /\ invited' \in BOOLEAN
         /\ promise' \in Details \cup {"pending", "read"} /\ Budget'
<1>1. at' = "loading" /\ ~latched' /\ attempt' = 0 /\ promise' = "pending" /\ ~armed' /\ ~invited'
  BY DEF Mount
<1>2. armed' \in BOOLEAN /\ invited' \in BOOLEAN /\ latched' \in BOOLEAN
  BY DEF Mount
<1>3. Budget'
  BY <1>1 DEF Budget, Away
<1> QED BY <1>1, <1>2, <1>3, PageAssumption DEF Screens

LEMMA Left ==
  ASSUME PageShape, NEW where \in {"login", "list", "no list"}, Leave(where)
  PROVE  /\ at' \in Screens /\ attempt' \in 0..MaxAutoRetries
         /\ latched' \in BOOLEAN /\ armed' \in BOOLEAN /\ invited' \in BOOLEAN
         /\ promise' \in Details \cup {"pending", "read"} /\ Budget'
<1>1. at' = where /\ ~latched' /\ attempt' = 0 /\ promise' = "read"
  BY DEF Leave
<1>2. armed' \in BOOLEAN /\ invited' \in BOOLEAN /\ latched' \in BOOLEAN
  BY DEF Leave
<1>3. Budget'
  BY <1>1 DEF Budget, Away
<1>4. at' \in Screens
  BY <1>1 DEF Screens
<1>5. attempt' \in 0..MaxAutoRetries
  BY <1>1, NoTries
<1>6. promise' \in Details \cup {"pending", "read"}
  BY <1>1 DEF Details
<1> QED BY <1>2, <1>3, <1>4, <1>5, <1>6

LEMMA Pressed ==
  ASSUME PageShape, Press
  PROVE  presses' \in 0..MaxPresses /\ MaxPresses - presses' = MaxPresses - presses - 1
<1>1. presses \in 0..MaxPresses
  BY DEF PageShape
<1> QED BY <1>1, PageAssumption DEF Press

LEMMA PageInvHolds == ASSUME PageInv, [PageNext]_pageVars PROVE PageInv'
<1> USE PageAssumption
<1>0. PageShape /\ Budget
  BY DEF PageInv
<1>1. CASE Resolve
  <2>1. PageShape'
    BY <1>0, <1>1 DEF PageShape, Resolve
  <2>2. Budget'
    BY <1>0, <1>1 DEF Budget, Away, Resolve, Details
  <2> QED BY <2>1, <2>2 DEF PageInv
<1>2. CASE Read
  <2>1. refresh' = refresh /\ presses' = presses /\ at \in {"loading", "shown"}
    BY <1>2 DEF Read
  <2>2. CASE promise = "detail"
    <3>1. at' = "shown" /\ promise' = "read" /\ latched' = latched /\ attempt' = attempt
             /\ armed' = armed /\ invited' = invited
      BY <1>2, <2>2 DEF Read
    <3> QED BY <1>0, <2>1, <3>1 DEF PageInv, PageShape, Budget, Away, Screens
  <2>3. CASE promise \in {"absent", "blip"}
    <3>1. latched' /\ promise' = "read" /\ attempt' = attempt
             /\ armed' = armed /\ invited' = invited /\ latched' \in BOOLEAN
      BY <1>2, <2>3 DEF Read
    <3>2. at' \in {"invite card", "waiting", "retry card"} /\ (at' = "waiting" => attempt < MaxAutoRetries)
      BY <1>2, <2>3 DEF Read
    <3>3. PageShape'
      BY <1>0, <2>1, <3>1, <3>2 DEF PageShape, Screens
    <3>4. Budget'
      BY <2>1, <3>1, <3>2 DEF Budget, Away
    <3> QED BY <3>3, <3>4 DEF PageInv
  <2>4. CASE promise = "expired" \/ promise = "denied"
    <3>1. Leave("login") \/ Leave("list")
      BY <1>2, <2>4 DEF Read
    <3> QED BY <1>0, <2>1, <3>1, Left DEF PageInv, PageShape
  <2> QED BY <1>2, <2>2, <2>3, <2>4 DEF Read, Details
<1>3. CASE AutoRetry
  <2>1. PageShape'
    BY <1>0, <1>3 DEF PageShape, AutoRetry, Retry, Kinds, Budget
  <2>2. Budget'
    BY <1>0, <1>3 DEF Budget, Away, AutoRetry, Retry
  <2> QED BY <2>1, <2>2 DEF PageInv
<1>4. ASSUME NEW k \in Kinds, NEW list \in Lists, Arrive(k, list)
      PROVE  PageInv'
  <2>1. presses' = presses /\ refresh' \in SUBSET Kinds /\ presses' \in 0..MaxPresses
    BY <1>0, <1>4 DEF Arrive, PageShape, Kinds
  <2>2. CASE at = "login"
    <3>1. UNCHANGED <<at, latched, promise, attempt, armed, invited>>
      BY <1>4, <2>2 DEF Arrive
    <3> QED BY <1>0, <2>1, <2>2, <3>1 DEF PageInv, PageShape, Budget, Away
  <2>3. CASE (\E where \in {"login", "list", "no list"} : Leave(where)) \/ Mount
    BY <1>0, <2>1, <2>3, Left, Mounted DEF PageInv, PageShape
  <2>4. CASE /\ at \notin {"login", "list", "no list"} /\ list \in {"present", "botless"}
             /\ promise' = "pending" /\ UNCHANGED <<attempt, armed, invited>>
             /\ IF k = "boundary" /\ latched THEN at' = "loading" /\ latched' = FALSE
                ELSE UNCHANGED <<at, latched>>
    <3>1. at' \in Screens /\ latched' \in BOOLEAN
      BY <1>0, <2>4 DEF PageShape, Screens
    <3>2. PageShape'
      BY <1>0, <2>1, <2>4, <3>1 DEF PageShape
    <3>3. refresh' = refresh \ {k}
      BY <1>4, <2>4 DEF Arrive
    <3>4. Budget'
      BY <1>0, <2>4, <3>3 DEF Budget, Away
    <3> QED BY <3>2, <3>4 DEF PageInv
  <2> QED BY <1>4, <2>2, <2>3, <2>4 DEF Arrive, Lists
<1>5. CASE TryAgain \/ Focus
  <2>1. UNCHANGED <<at, latched, promise, attempt, invited>>
    BY <1>5 DEF TryAgain, Focus
  <2>2. refresh' \in SUBSET Kinds /\ refresh \subseteq refresh'
    BY <1>0, <1>5 DEF TryAgain, Focus, Retry, PageShape, Kinds
  <2>3. presses' \in 0..MaxPresses
    BY <1>0, <1>5, Pressed DEF TryAgain, Focus, PageShape
  <2>4. armed' \in BOOLEAN
    BY <1>0, <1>5 DEF TryAgain, Focus, PageShape
  <2> QED BY <1>0, <2>1, <2>2, <2>3, <2>4 DEF PageInv, PageShape, Budget, Away
<1>6. CASE Invite
  <2>1. UNCHANGED <<at, latched, promise, refresh, attempt>>
    BY <1>6 DEF Invite
  <2>2. armed' \in BOOLEAN /\ invited' \in BOOLEAN
    BY <1>6 DEF Invite
  <2>3. presses' \in 0..MaxPresses
    BY <1>0, <1>6, Pressed DEF Invite
  <2> QED BY <1>0, <2>1, <2>2, <2>3 DEF PageInv, PageShape, Budget, Away
<1>7. CASE Edit
  <2>1. presses' \in 0..MaxPresses
    BY <1>0, <1>7 DEF Edit, Press, PageShape
  <2>2. at = "shown" /\ refresh' \in SUBSET Kinds
    BY <1>0, <1>7 DEF Edit, PageShape, Kinds
  <2>3. CASE Leave("login")
    BY <1>0, <2>1, <2>2, <2>3, Left DEF PageInv, PageShape
  <2>4. CASE UNCHANGED <<at, latched, promise, attempt, armed, invited>>
    BY <1>0, <2>1, <2>2, <2>4 DEF PageInv, PageShape, Budget, Away
  <2> QED BY <1>7, <2>3, <2>4 DEF Edit
<1>8. CASE Open
  <2>1. presses' \in 0..MaxPresses /\ Mount /\ refresh' \in SUBSET Kinds
    BY <1>0, <1>8 DEF Open, Press, PageShape
  <2> QED BY <1>0, <2>1, Mounted DEF PageInv, PageShape
<1>9. CASE UNCHANGED pageVars
  BY <1>0, <1>9 DEF pageVars, PageInv, PageShape, Budget, Away
<1> QED BY <1>1, <1>2, <1>3, <1>4, <1>5, <1>6, <1>7, <1>8, <1>9 DEF PageNext

-----------------------------------------------------------------------------
One(p) == IF p THEN 1 ELSE 0

LEMMA Ones ==
  ASSUME NEW p \in BOOLEAN, NEW q \in BOOLEAN
  PROVE  /\ (q => p) => One(q) <= One(p)
         /\ p /\ ~q => One(q) < One(p)
         /\ One(p) \in 0..1
<1>1. CASE p
  BY <1>1 DEF One
<1>2. CASE ~p
  BY <1>2 DEF One
<1> QED BY <1>1, <1>2

(* In each sum a unit of a weight outweighs all the lighter ones.          *)
Total(p, i, r, f, o, l) == 48 * p + 24 * i + 12 * r + 6 * f + 3 * o + l

LEMMA Totals ==
  ASSUME NEW p \in Nat, NEW i \in 0..1, NEW r \in 0..1, NEW f \in 0..1, NEW o \in 0..1, NEW l \in 0..2
  PROVE  Total(p, i, r, f, o, l) \in Nat
BY DEF Total

LEMMA Weighing ==
  ASSUME NEW p \in Nat, NEW i \in 0..1, NEW r \in 0..1, NEW f \in 0..1, NEW o \in 0..1, NEW l \in 0..2,
         NEW q \in Nat, NEW j \in 0..1, NEW s \in 0..1, NEW g \in 0..1, NEW u \in 0..1, NEW m \in 0..2
  PROVE  /\ q < p => Total(q, j, s, g, u, m) < Total(p, i, r, f, o, l)
         /\ q = p /\ j < i => Total(q, j, s, g, u, m) < Total(p, i, r, f, o, l)
         /\ q = p /\ j <= i /\ s < r => Total(q, j, s, g, u, m) < Total(p, i, r, f, o, l)
         /\ q = p /\ j <= i /\ s <= r /\ g < f => Total(q, j, s, g, u, m) < Total(p, i, r, f, o, l)
         /\ q = p /\ j <= i /\ s <= r /\ g <= f /\ u < o
              => Total(q, j, s, g, u, m) < Total(p, i, r, f, o, l)
         /\ q = p /\ j <= i /\ s <= r /\ g <= f /\ u <= o /\ m < l
              => Total(q, j, s, g, u, m) < Total(p, i, r, f, o, l)
         /\ q = p /\ j <= i /\ s <= r /\ g <= f /\ u <= o /\ m <= l
              => Total(q, j, s, g, u, m) <= Total(p, i, r, f, o, l)
BY DEF Total

Attempts(u, o, r) == 6 * u + 3 * o + r

LEMMA Fewer ==
  ASSUME NEW u \in Nat, NEW o \in 0..1, NEW r \in 0..2, NEW v \in Nat, NEW n \in 0..1, NEW d \in 0..2
  PROVE  /\ v < u => Attempts(v, n, d) < Attempts(u, o, r)
         /\ v = u /\ n < o => Attempts(v, n, d) < Attempts(u, o, r)
         /\ v = u /\ n = o /\ d < r => Attempts(v, n, d) < Attempts(u, o, r)
BY DEF Attempts

(* What the person and the page can still do, the greater weight first:    *)
(* presses, an opened invite, the guild's page, a focus, the refreshes of  *)
(* others and what is left of the page without its list.                   *)
Asked == MaxPresses - presses
Awaited == One(invited)
Regions == One(~Away)
Focuses == One(armed)
Foreign == One("other" \in refresh)
Place == IF Away THEN 0 ELSE IF at # "no list" THEN 1
         ELSE IF "boundary" \in refresh THEN 2 ELSE 0
Effort == Total(Asked, Awaited, Regions, Focuses, Foreign, Place)

(* And what the boundary does by itself: its retries, its own refresh and  *)
(* the read it waits for.                                                  *)
Unspent == MaxAutoRetries - attempt
Own == One("boundary" \in refresh)
Reading == IF promise = "pending" THEN 2 ELSE IF promise = "read" THEN 0 ELSE 1
Tries == Attempts(Unspent, Own, Reading)

(* Every step leaves less of the former, or as much of it and less of the  *)
(* latter.                                                                 *)
Descends == Effort' < Effort \/ (Effort' = Effort /\ Tries' < Tries)

Weighed ==
  /\ Asked \in Nat /\ Unspent \in Nat
  /\ Awaited \in 0..1 /\ Regions \in 0..1 /\ Focuses \in 0..1 /\ Foreign \in 0..1
  /\ Own \in 0..1 /\ Place \in 0..2 /\ Reading \in 0..2

LEMMA Weights == ASSUME PageShape PROVE Weighed /\ Effort \in Nat /\ Tries \in Nat
<1>1. Asked \in Nat /\ Unspent \in Nat
  <2>1. presses \in 0..MaxPresses /\ attempt \in 0..MaxAutoRetries
    BY DEF PageShape
  <2> QED BY <2>1, PageAssumption DEF Asked, Unspent
<1>2. \A b \in BOOLEAN : One(b) \in 0..1
  BY DEF One
<1>3. Awaited \in 0..1 /\ Focuses \in 0..1
  BY <1>2 DEF PageShape, Awaited, Focuses
<1>4. Regions \in 0..1 /\ Foreign \in 0..1 /\ Own \in 0..1
  BY DEF Regions, Foreign, Own, One
<1>5. Place \in 0..2 /\ Reading \in 0..2
  BY DEF Place, Reading
<1>6. Weighed
  BY <1>1, <1>3, <1>4, <1>5 DEF Weighed
<1>7. Effort \in Nat
  BY <1>6 DEF Weighed, Effort, Total
<1>8. Tries \in Nat
  BY <1>6 DEF Weighed, Tries, Attempts
<1> QED BY <1>6, <1>7, <1>8

(* A weight counts whatever the lighter ones do.                           *)
LEMMA Lighter ==
  ASSUME Weighed, Weighed'
  PROVE  /\ Asked' < Asked => Descends
         /\ Asked' = Asked /\ Awaited' < Awaited => Descends
         /\ Asked' = Asked /\ Awaited' <= Awaited =>
              /\ Regions' < Regions => Descends
              /\ Regions' <= Regions /\ Focuses' < Focuses => Descends
              /\ Regions' <= Regions /\ Focuses' <= Focuses =>
                   /\ Foreign' < Foreign => Descends
                   /\ Foreign' <= Foreign /\ Place' < Place => Descends
                   /\ Foreign' <= Foreign /\ Place' <= Place /\ Tries' < Tries => Descends
<1>1. Effort \in Nat
  BY Totals DEF Weighed, Effort
<1>0. Effort' \in Nat
  BY Totals DEF Weighed, Effort
<1>2. Effort' < Effort => Descends
  BY DEF Descends
<1>3. Effort' <= Effort /\ Tries' < Tries => Descends
  BY <1>0, <1>1 DEF Descends
<1>4. Asked' < Asked => Effort' < Effort
  BY Weighing DEF Weighed, Effort
<1>5. Asked' = Asked /\ Awaited' < Awaited => Effort' < Effort
  BY Weighing DEF Weighed, Effort
<1>6. ASSUME Asked' = Asked, Awaited' <= Awaited
      PROVE  /\ Regions' < Regions => Effort' < Effort
             /\ Regions' <= Regions /\ Focuses' < Focuses => Effort' < Effort
  BY <1>6, Weighing DEF Weighed, Effort
<1>7. ASSUME Asked' = Asked, Awaited' <= Awaited, Regions' <= Regions, Focuses' <= Focuses
      PROVE  /\ Foreign' < Foreign => Effort' < Effort
             /\ Foreign' <= Foreign /\ Place' < Place => Effort' < Effort
             /\ Foreign' <= Foreign /\ Place' <= Place => Effort' <= Effort
  BY <1>7, Weighing DEF Weighed, Effort
<1> QED BY <1>2, <1>3, <1>4, <1>5, <1>6, <1>7

LEMMA FewerTries ==
  ASSUME Weighed, Weighed'
  PROVE  /\ Unspent' < Unspent => Tries' < Tries
         /\ Unspent' = Unspent /\ Own' < Own => Tries' < Tries
         /\ Unspent' = Unspent /\ Own' = Own /\ Reading' < Reading => Tries' < Tries
BY Fewer DEF Weighed, Tries

LEMMA Spends == ASSUME Weighed, Weighed', Asked' = Asked - 1 PROVE Descends
<1>1. Asked' < Asked
  BY DEF Weighed
<1> QED BY <1>1, Lighter

LEMMA Cleared == ASSUME Mount, PageShape, PageShape'
  PROVE  /\ Awaited' = 0 /\ Focuses' = 0 /\ Regions' = 1 /\ Place' = 1
<1>1. at' = "loading" /\ ~armed' /\ ~invited'
  BY DEF Mount
<1> QED BY <1>1 DEF Awaited, Focuses, Regions, Place, Away, One

LEMMA Emptied == ASSUME NEW where \in {"login", "list", "no list"}, Leave(where), PageShape, PageShape'
  PROVE  /\ Awaited' <= Awaited /\ Focuses' <= Focuses
         /\ where # "no list" => Regions' = 0 /\ Place' = 0
         /\ where = "no list" => Regions' = 1
<1>1. (invited' => invited) /\ (armed' => armed)
  BY DEF Leave
<1>2. at' = where
  BY DEF Leave
<1>3. Awaited' <= Awaited /\ Focuses' <= Focuses
  BY <1>1, Ones DEF Awaited, Focuses, PageShape
<1> QED BY <1>2, <1>3 DEF Regions, Place, Away, One

LEMMA PageSteps == ASSUME PageInv, PageInv', Weighed, Weighed', PageNext PROVE Descends
<1>0. PageShape /\ PageShape' /\ Budget
  BY DEF PageInv
<1>1. CASE Resolve
  <2>1. UNCHANGED <<at, refresh, attempt, armed, invited, presses>>
    BY <1>1 DEF Resolve
  <2>2. promise = "pending" /\ promise' \notin {"pending", "read"}
    BY <1>1 DEF Resolve, Details
  <2>3. UNCHANGED <<Asked, Awaited, Regions, Focuses, Foreign, Place, Unspent, Own>>
    BY <2>1 DEF Asked, Awaited, Regions, Focuses, Foreign, Place, Unspent, Own, Away
  <2>4. Reading' < Reading
    BY <2>2 DEF Reading
  <2>5. Tries' < Tries
    BY <2>3, <2>4, FewerTries
  <2> QED BY <2>3, <2>5, Lighter DEF Weighed
<1>2. CASE Read
  <2>1. UNCHANGED <<refresh, presses>> /\ promise \in Details /\ at \in {"loading", "shown"}
    BY <1>2 DEF Read
  <2>2. UNCHANGED <<Asked, Foreign>> /\ Regions = 1
    BY <2>1 DEF Asked, Foreign, Regions, Away, One
  <2>3. CASE Leave("login") \/ Leave("list")
    <3>1. Awaited' <= Awaited /\ Regions' = 0
      BY <1>0, <2>3, Emptied
    <3> QED BY <2>2, <3>1, Lighter
  <2>4. CASE /\ at' \in {"shown", "invite card", "waiting", "retry card"} /\ promise' = "read"
             /\ UNCHANGED <<attempt, armed, invited>>
    <3>1. UNCHANGED <<Awaited, Regions, Focuses, Place, Unspent, Own>>
      BY <2>1, <2>4 DEF Awaited, Regions, Focuses, Place, Unspent, Own, Away
    <3>2. Reading' < Reading
      <4>1. promise \notin {"pending", "read"} /\ promise' = "read"
        BY <2>1, <2>4 DEF Details
      <4>2. Reading = 1 /\ Reading' = 0
        BY <4>1 DEF Reading
      <4> QED BY <4>2
    <3>3. Tries' < Tries
      BY <3>1, <3>2, FewerTries
    <3> QED BY <2>2, <3>1, <3>3, Lighter DEF Weighed
  <2> QED BY <1>2, <2>3, <2>4 DEF Read
<1>3. CASE AutoRetry
  <2>1. UNCHANGED <<at, promise, armed, invited, presses>> /\ at = "waiting"
    BY <1>3 DEF AutoRetry
  <2>2. "boundary" \notin refresh /\ refresh' = refresh \cup {"boundary"} /\ attempt' = attempt + 1
    BY <1>3 DEF AutoRetry, Retry
  <2>3. UNCHANGED <<Asked, Awaited, Regions, Focuses, Foreign, Place, Reading>>
    BY <2>1, <2>2 DEF Asked, Awaited, Regions, Focuses, Foreign, Place, Reading, Away
  <2>4. attempt \in Nat /\ MaxAutoRetries \in Nat
    BY <1>0, PageAssumption DEF PageShape
  <2>5. Unspent' = Unspent - 1
    BY <2>2, <2>4 DEF Unspent
  <2>6. Own = 0 /\ Own' = 1
    BY <2>2 DEF Own, One
  <2>7. Tries' < Tries
    BY <2>5, FewerTries DEF Weighed
  <2> QED BY <2>3, <2>7, Lighter DEF Weighed
<1>4. ASSUME NEW k \in Kinds, NEW list \in Lists, Arrive(k, list)
      PROVE  Descends
  <2>1. k \in refresh /\ presses' = presses
    BY <1>4 DEF Arrive
  <2>2. Asked' = Asked
    BY <2>1 DEF Asked
  <2> DEFINE gone == list = "missing" /\ at \notin {"list", "login"}
  <2>3. ~gone => refresh' = refresh \ {k}
    BY <1>4 DEF Arrive
  <2>4. ~gone => \/ k = "other" /\ Foreign' < Foreign /\ Own' = Own
                 \/ k = "boundary" /\ Foreign' = Foreign /\ Own' < Own
    BY <2>1, <2>3 DEF Kinds, Foreign, Own, One
  <2>5. CASE at = "login"
    <3>1. UNCHANGED <<at, promise, attempt, armed, invited>>
      BY <1>4, <2>5 DEF Arrive
    <3>2. UNCHANGED <<Awaited, Regions, Focuses, Unspent, Reading>>
      BY <3>1 DEF Awaited, Regions, Focuses, Unspent, Reading, Away
    <3>3. Place = 0 /\ Place' = 0
      BY <2>5, <3>1 DEF Place, Away
    <3>4. CASE Foreign' < Foreign
      BY <2>2, <3>2, <3>4, Lighter DEF Weighed
    <3>5. CASE Foreign' = Foreign /\ Own' < Own
      <4>1. Tries' < Tries
        BY <3>2, <3>5, FewerTries
      <4> QED BY <2>2, <3>2, <3>3, <3>5, <4>1, Lighter DEF Weighed
    <3> QED BY <2>4, <2>5, <3>4, <3>5
  <2>6. CASE at \notin {"login", "list"} /\ (Leave("login") \/ Leave("list"))
    <3>1. Awaited' <= Awaited /\ Regions' = 0
      BY <1>0, <2>6, Emptied
    <3>2. Regions = 1
      BY <2>6 DEF Regions, Away, One
    <3> QED BY <2>2, <3>1, <3>2, Lighter
  <2>7. CASE at = "list" /\ (Leave("login") \/ Leave("list")) /\ ~gone
    <3>1. Awaited' <= Awaited /\ Focuses' <= Focuses /\ Regions' = 0 /\ Place' = 0
      BY <1>0, <2>7, Emptied
    <3>2. Regions = 0 /\ Place = 0
      BY <2>7 DEF Regions, Place, Away, One
    <3>3. attempt = 0 /\ promise = "read" /\ attempt' = 0 /\ promise' = "read"
      BY <1>0, <2>7 DEF Budget, Away, Leave
    <3>4. UNCHANGED <<Unspent, Reading>>
      BY <3>3 DEF Unspent, Reading
    <3>5. CASE Foreign' < Foreign
      BY <2>2, <3>1, <3>2, <3>5, Lighter DEF Weighed
    <3>6. CASE Foreign' = Foreign /\ Own' < Own
      <4>1. Tries' < Tries
        BY <3>4, <3>6, FewerTries
      <4> QED BY <2>2, <3>1, <3>2, <3>6, <4>1, Lighter DEF Weighed
    <3> QED BY <2>4, <2>7, <3>5, <3>6
  <2>8. CASE at \notin {"login", "list"} /\ Leave("no list") /\ ~gone
    <3>1. Awaited' <= Awaited /\ Focuses' <= Focuses /\ Regions' = 1
      BY <1>0, <2>8, Emptied
    <3>2. Regions = 1
      BY <2>8 DEF Regions, Away, One
    <3>3. CASE Foreign' < Foreign
      BY <2>2, <3>1, <3>2, <3>3, Lighter DEF Weighed
    <3>4. CASE k = "boundary" /\ Foreign' = Foreign
      <4>1. Place' = 0
        BY <2>3, <2>8, <3>4 DEF Leave, Place, Away
      <4>2. Place \in {1, 2}
        BY <2>1, <2>8, <3>4 DEF Place, Away
      <4>3. Place' < Place
        BY <4>1, <4>2
      <4> QED BY <2>2, <3>1, <3>2, <3>4, <4>3, Lighter DEF Weighed
    <3> QED BY <2>4, <2>8, <3>3, <3>4
  <2>9. CASE at = "list" /\ Mount /\ invited
    <3>1. Awaited = 1 /\ Awaited' = 0
      BY <1>0, <2>9, Cleared DEF Awaited, One
    <3> QED BY <2>2, <3>1, Lighter
  <2>10. CASE at = "no list" /\ Mount /\ ~gone
    <3>0. Awaited' = 0 /\ Focuses' = 0 /\ Regions' = 1 /\ Place' = 1
      BY <1>0, <2>10, Cleared
    <3>1. Awaited' <= Awaited /\ Focuses' <= Focuses /\ Regions' = 1 /\ Place' = 1
      BY <3>0 DEF Weighed
    <3>2. Regions = 1
      BY <2>10 DEF Regions, Away, One
    <3>3. CASE Foreign' < Foreign
      BY <2>2, <3>1, <3>2, <3>3, Lighter
    <3>4. CASE k = "boundary" /\ Foreign' = Foreign
      <4>1. Place = 2
        BY <2>1, <2>10, <3>4 DEF Place, Away
      <4> QED BY <2>2, <3>1, <3>2, <3>4, <4>1, Lighter DEF Weighed
    <3> QED BY <2>4, <2>10, <3>3, <3>4
  <2>11. CASE /\ at \notin {"login", "list", "no list"} /\ ~gone
             /\ at' \in {at, "loading"} /\ promise' = "pending" /\ UNCHANGED <<attempt, armed, invited>>
    <3>1. UNCHANGED <<Awaited, Focuses, Unspent>>
      BY <2>11 DEF Awaited, Focuses, Unspent
    <3>2. Regions = 1 /\ Regions' = 1 /\ Place = 1 /\ Place' = 1
      BY <2>11 DEF Regions, Place, Away, One
    <3>3. CASE Foreign' < Foreign
      BY <2>2, <3>1, <3>2, <3>3, Lighter DEF Weighed
    <3>4. CASE Foreign' = Foreign /\ Own' < Own
      <4>1. Tries' < Tries
        BY <3>1, <3>4, FewerTries
      <4> QED BY <2>2, <3>1, <3>2, <3>4, <4>1, Lighter DEF Weighed
    <3> QED BY <2>4, <2>11, <3>3, <3>4
  <2> QED BY <1>4, <2>5, <2>6, <2>7, <2>8, <2>9, <2>10, <2>11 DEF Arrive, Lists
<1>5. CASE TryAgain \/ Invite \/ Edit \/ Open
  <2>1. Press
    BY <1>5 DEF TryAgain, Invite, Edit, Open
  <2> QED BY <1>0, <2>1, Pressed, Spends DEF Asked
<1>6. CASE Focus
  <2>1. UNCHANGED <<at, invited, presses>>
    BY <1>6 DEF Focus
  <2>2. armed /\ ~armed'
    BY <1>6 DEF Focus
  <2>3. UNCHANGED <<Asked, Awaited, Regions>>
    BY <2>1 DEF Asked, Awaited, Regions, Away
  <2>4. Focuses' < Focuses
    BY <1>0, <2>2, Ones DEF Focuses, PageShape
  <2> QED BY <2>3, <2>4, Lighter DEF Weighed
<1> QED BY <1>1, <1>2, <1>3, <1>4, <1>5, <1>6 DEF PageNext

(* What PageRests ends in, and what its fair actions wait for: a read that *)
(* ends, a detail to show, a timer, a page of a refresh.                   *)
Resting == at \notin {"loading", "waiting"} /\ refresh = {}

Owed ==
  \/ promise = "pending"
  \/ promise \in Details /\ ~latched /\ at \in {"loading", "shown"}
  \/ at = "waiting" /\ "boundary" \notin refresh
  \/ refresh # {}

LEMMA PageStays == PageSpec => [](PageInv /\ Weighed)
<1>1. ASSUME PageInit PROVE PageInv
  <2>1. at \in Screens
    BY <1>1 DEF PageInit, Screens
  <2>2. presses \in 0..MaxPresses /\ attempt \in 0..MaxAutoRetries
    BY <1>1, PageAssumption DEF PageInit
  <2>3. latched \in BOOLEAN /\ armed \in BOOLEAN /\ invited \in BOOLEAN
    BY <1>1 DEF PageInit
  <2>4. promise \in Details \cup {"pending", "read"}
    BY <1>1 DEF PageInit, Details
  <2>5. refresh \in SUBSET Kinds
    BY <1>1 DEF PageInit
  <2>6. /\ Away => attempt = 0
        /\ Away \/ at = "no list" => promise = "read"
        /\ at = "waiting" => latched
        /\ at = "waiting" /\ "boundary" \notin refresh => attempt < MaxAutoRetries
    BY <1>1 DEF PageInit, Away
  <2>7. at = "loading" => ~latched /\ promise # "read"
    BY <1>1 DEF PageInit
  <2> QED BY <2>1, <2>2, <2>3, <2>4, <2>5, <2>6, <2>7 DEF PageInv, PageShape, Budget
<1>2. PageInv => Weighed
  BY Weights DEF PageInv
<1> QED BY <1>1, <1>2, PageInvHolds, PTL DEF PageSpec

(* "A persistent outage can't spin an unbounded refresh loop"              *)
(* (guild-detail-boundary.tsx:24): whatever the reads answer, however the  *)
(* refreshes, retries, focuses and presses interleave, every step of the   *)
(* page uses something up, for any number of retries and presses.          *)
THEOREM PageDescends == PageSpec => [][Descends]_pageVars
<1>1. ASSUME PageInv, Weighed, PageInv', Weighed', [PageNext]_pageVars
      PROVE  [Descends]_pageVars
  BY <1>1, PageSteps
<1> QED BY <1>1, PageStays, PTL DEF PageSpec

(* What is used up are natural numbers, so the steps end; and a page that  *)
(* has not come to rest waits for a read, a timer or a refresh that is     *)
(* due: no skeleton without something to end it.                           *)
THEOREM PageNeverStuck == PageSpec => [](Effort \in Nat /\ Tries \in Nat /\ (Resting \/ Owed))
<1>1. PageInv => Effort \in Nat /\ Tries \in Nat
  BY Weights DEF PageInv
<1>2. PageInv => Resting \/ Owed
  BY DEF PageInv, PageShape, Budget, Resting, Owed
<1> QED BY <1>1, <1>2, PageStays, PTL
=============================================================================
