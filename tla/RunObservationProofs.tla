--------------------------- MODULE RunObservationProofs ---------------------------
(***************************************************************************)
(* Proofs about RunObservation, for every page, every length of the run,   *)
(* any number of clicks, lost answers, repeated requests and restarts of   *)
(* the server: one click changes the run at most once, a command id has    *)
(* one answer, and a decision settles the question that was shown.         *)
(*                                                                         *)
(* The argument: an answer is final (AnswersInv), because a request names  *)
(* a revision and revisions only grow; and of the requests of one click    *)
(* all but one were refused (ClickInv), because only a refusal makes       *)
(* dispatch try again, and a lost answer never does.                       *)
(***************************************************************************)
EXTENDS RunObservation, FiniteSetTheorems, TLAPS

(* The ids that were accepted. *)
Accepted == {r.id : r \in receipts}

-----------------------------------------------------------------------------
(* The run only grows. *)

(* A step of the run: nothing, or one more revision. *)
Lengthens(lg, gates, lg2, gates2) ==
    /\ RunTypeOK(lg2, gates2)
    /\ \/ lg2 = lg /\ gates2 = gates
       \/ Len(lg2) = Len(lg) + 1 /\ Len(gates2) >= Len(gates)
    /\ \A q \in 1..Len(gates) : gates2[q] = gates[q]

LEMMA AppendLengthens ==
  ASSUME NEW lg, NEW gates, RunTypeOK(lg, gates), NEW gates2 \in Seq(Nat), NEW q \in Nat,
         q <= Len(gates2), Len(gates2) >= Len(gates),
         \A k \in 1..Len(gates) : gates2[k] = gates[k],
         \A k \in 1..Len(gates2) : gates2[k] <= k
  PROVE  Lengthens(lg, gates, Append(lg, q), gates2)
<1> DEFINE lg2 == Append(lg, q)
<1>1. lg2 \in Seq(Nat) /\ Len(lg2) = Len(lg) + 1 /\ lg2[Len(lg) + 1] = q
      /\ \A r \in 1..Len(lg) : lg2[r] = lg[r]
  BY DEF RunTypeOK
<1> HIDE DEF lg2
<1>2. \A r \in 1..Len(lg2) : lg2[r] <= Len(gates2)
  <2> TAKE r \in 1..Len(lg2)
  <2>1. CASE r = Len(lg) + 1
    BY <2>1, <1>1
  <2>2. CASE r \in 1..Len(lg)
    <3>1. lg[r] \in Nat /\ lg[r] <= Len(gates)
      BY <2>2 DEF RunTypeOK
    <3> QED BY <3>1, <2>2, <1>1
  <2> QED BY <2>1, <2>2, <1>1 DEF RunTypeOK
<1>3. QED BY <1>1, <1>2 DEF Lengthens, RunTypeOK, lg2

LEMMA LastIs ==
  ASSUME NEW s \in Seq(Nat), Len(s) > 0
  PROVE  Last(s) = s[Len(s)] /\ Last(s) \in Nat
BY DEF Last

LEMMA OpenIs ==
  ASSUME RunTypeOK(log, gateOf)
  PROVE  Open = log[Revision] /\ Open \in 0..Len(gateOf)
BY LastIs DEF RunTypeOK, Open, Revision

LEMMA GateAppended ==
  ASSUME NEW gates \in Seq(Nat), NEW g \in Nat, g <= Len(gates) + 1,
         \A q \in 1..Len(gates) : gates[q] <= q
  PROVE  /\ Append(gates, g) \in Seq(Nat) /\ Len(Append(gates, g)) = Len(gates) + 1
         /\ \A k \in 1..Len(gates) : Append(gates, g)[k] = gates[k]
         /\ \A k \in 1..(Len(gates) + 1) : Append(gates, g)[k] <= k
         /\ Append(gates, g)[Len(gates) + 1] = g
OBVIOUS

LEMMA StepLengthens ==
  ASSUME RunTypeOK(log, gateOf), [Next]_vars
  PROVE  Lengthens(log, gateOf, log', gateOf')
<1>0. gateOf \in Seq(Nat) /\ \A q \in 1..Len(gateOf) : gateOf[q] <= q
  BY DEF RunTypeOK
<1>0a. Lengthens(log, gateOf, log, gateOf) /\ Len(gateOf) \in Nat
  BY DEF RunTypeOK, Lengthens
<1>0b. \A q \in 0..Len(gateOf) : Lengthens(log, gateOf, Append(log, q), gateOf)
  BY <1>0, AppendLengthens
<1>0c. \A g \in 0..(Len(gateOf) + 1) :
         Lengthens(log, gateOf, Append(log, Len(Append(gateOf, g))), Append(gateOf, g))
  <2> TAKE g \in 0..(Len(gateOf) + 1)
  <2> DEFINE gates2 == Append(gateOf, g)
  <2>1. /\ gates2 \in Seq(Nat) /\ Len(gates2) = Len(gateOf) + 1
        /\ \A k \in 1..Len(gateOf) : gates2[k] = gateOf[k]
        /\ \A k \in 1..(Len(gateOf) + 1) : gates2[k] <= k
    BY <1>0, GateAppended
  <2> HIDE DEF gates2
  <2>2. Lengthens(log, gateOf, Append(log, Len(gates2)), gates2)
    BY <2>1, <1>0a, AppendLengthens
  <2> QED BY <2>2 DEF gates2
<1>1. CASE RunStep
  <2>1. CASE Emit(Open) /\ UNCHANGED gateOf
    BY <2>1, OpenIs, <1>0b DEF Emit
  <2>2. CASE Open # 0 /\ Emit(0) /\ UNCHANGED gateOf
    BY <2>2, <1>0a, <1>0b DEF Emit
  <2>3. CASE /\ gateOf' = Append(gateOf, Len(gateOf) + 1)
             /\ Emit(Len(gateOf'))
    BY <2>3, <1>0a, <1>0c DEF Emit
  <2> QED BY <1>1, <2>1, <2>2, <2>3 DEF RunStep
<1>2. CASE Reopen
  <2>1. /\ gateOf # <<>> /\ gateOf' = Append(gateOf, Last(gateOf)) /\ Emit(Len(gateOf'))
    BY <1>2 DEF Reopen
  <2>2. Last(gateOf) \in 0..(Len(gateOf) + 1)
    BY <2>1, <1>0, LastIs
  <2>3. log' = Append(log, Len(Append(gateOf, Last(gateOf))))
    BY <2>1 DEF Emit
  <2>4. Lengthens(log, gateOf, Append(log, Len(Append(gateOf, Last(gateOf)))),
                  Append(gateOf, Last(gateOf)))
    BY <2>2, <1>0c
  <2>5. gateOf' = Append(gateOf, Last(gateOf))
    BY <2>1
  <2> QED BY <2>3, <2>4, <2>5
<1>3. ASSUME NEW p \in posts, Apply(p) PROVE Lengthens(log, gateOf, log', gateOf')
  <2>1. gateOf' = gateOf /\ \/ Emit(IF p.what = "gate" THEN 0 ELSE Open)
                            \/ log' = log
    BY <1>3 DEF Apply
  <2>2. CASE log' = log
    BY <2>1, <2>2, <1>0a
  <2>3. CASE p.what = "gate" /\ Emit(0)
    BY <2>1, <2>3, <1>0a, <1>0b DEF Emit
  <2>4. CASE Emit(Open)
    BY <2>1, <2>4, OpenIs, <1>0b DEF Emit
  <2> QED BY <2>1, <2>2, <2>3, <2>4
<1>4. CASE UNCHANGED run
  BY <1>4, <1>0a DEF run
<1> QED
  BY <1>1, <1>2, <1>3, <1>4 DEF Next, vars, LoadRead, LoadArrives, Connect, Poll, Receive, Drop,
     Crash, Restart, Click, ActRead, Post, Reply, LoseReply

-----------------------------------------------------------------------------
(* Types. *)

(* The counters of commands: a click makes at most two. *)
CountInv ==
    /\ act.at = "idle" => ids <= 2 * clicks
    /\ act.at \in {"get", "got"} => clicks > 0 /\ ids <= 2 * (clicks - 1) + act.tries
    /\ act.at = "post" => clicks > 0 /\ act.id > 0 /\ ids <= 2 * (clicks - 1) + act.tries + 1
    /\ act.at # "idle" => act.what # "none"
    /\ act.at \in {"got", "post"} => act.rev > 0

LEMMA Grown ==
  ASSUME RunTypeOK(log, gateOf), [Next]_vars
  PROVE  /\ Revision \in Nat /\ Revision' \in Nat /\ Revision > 0 /\ Revision <= Revision'
         /\ Len(gateOf) \in Nat /\ Len(gateOf') \in Nat /\ Len(gateOf) <= Len(gateOf')
         /\ RunTypeOK(log', gateOf')
BY StepLengthens DEF Lengthens, RunTypeOK, Revision

LEMMA PageTypeStep ==
  ASSUME RunTypeOK(log, gateOf), PageTypeOK, CommandTypeOK, CountInv, [Next]_vars
  PROVE  PageTypeOK'
<1>1. /\ Revision \in Nat /\ Revision' \in Nat /\ Revision > 0 /\ Revision <= Revision'
  BY Grown
<1>2. act.rev \in 0..Revision
  BY DEF CommandTypeOK
<1>a. CASE UNCHANGED <<owner, load, view, stream>>
  BY <1>a, <1>1 DEF PageTypeOK, stream
<1>b. CASE LoadRead
  BY <1>b, <1>1 DEF LoadRead, PageTypeOK, stream, Over, run, Revision
<1>c. CASE LoadArrives
  BY <1>c, <1>1 DEF LoadArrives, PageTypeOK, stream, Over, Newer
<1>d. CASE Connect
  <2>1. wire' \in Seq(Nat) /\ \A i \in 1..Len(wire') : wire'[i] \in 1..Revision
    <3>1. wire' = wire \/ wire' = <<Revision>> \/ wire' = <<>>
      BY <1>d DEF Connect
    <3>2. <<Revision>> \in Seq(Nat) /\ \A i \in 1..Len(<<Revision>>) : <<Revision>>[i] \in 1..Revision
      BY <1>1
    <3>3. <<>> \in Seq(Nat) /\ Len(<<>>) = 0
      OBVIOUS
    <3>4. wire \in Seq(Nat) /\ \A i \in 1..Len(wire) : wire[i] \in 1..Revision
      BY DEF PageTypeOK
    <3>5. CASE wire' = wire
      BY <3>4, <3>5
    <3>6. CASE wire' = <<Revision>>
      BY <3>2, <3>6
    <3>7. CASE wire' = <<>>
      BY <3>3, <3>7
    <3> QED BY <3>1, <3>5, <3>6, <3>7
  <2> QED BY <1>d, <1>1, <2>1 DEF Connect, PageTypeOK
<1>e. CASE Poll
  <2> DEFINE new == IF Kind = "index" THEN <<Revision>>
                    ELSE [i \in 1..(Revision - cursor) |-> cursor + i]
  <2>1. new \in Seq(Nat) /\ \A i \in 1..Len(new) : new[i] \in 1..Revision
    BY <1>e, <1>1 DEF Poll, PageTypeOK
  <2>2. wire' = wire \o new /\ wire \in Seq(Nat) /\ \A i \in 1..Len(wire) : wire[i] \in 1..Revision
    BY <1>e DEF Poll, PageTypeOK
  <2> HIDE DEF new
  <2>3. wire' \in Seq(Nat) /\ \A i \in 1..Len(wire') : wire'[i] \in 1..Revision
    BY <2>1, <2>2
  <2> QED BY <1>e, <1>1, <2>3 DEF Poll, PageTypeOK
<1>f. CASE Receive
  <2>1. /\ Head(wire) \in 1..Revision /\ wire' \in Seq(Nat)
        /\ \A i \in 1..Len(wire') : wire'[i] \in 1..Revision
    BY <1>f, <1>1 DEF Receive, PageTypeOK
  <2> QED BY <1>f, <1>1, <2>1 DEF Receive, PageTypeOK, Newer
<1>g. CASE Drop
  BY <1>g, <1>1 DEF Drop, Disconnected, PageTypeOK
<1>h. CASE Crash
  BY <1>h, <1>1 DEF Crash, Disconnected, PageTypeOK, Over
<1>i. CASE Restart
  BY <1>i, <1>1 DEF Restart, PageTypeOK, stream
<1>j. CASE Post
  BY <1>j, <1>1, <1>2 DEF Post, PageTypeOK, stream
<1>k. CASE Reply
  BY <1>k, <1>1 DEF Reply, PageTypeOK, stream, Over
<1>l. CASE RunStep \/ Reopen \/ Click \/ ActRead \/ (\E p \in posts : Apply(p)) \/ LoseReply
  <2>1. UNCHANGED <<owner, load, view, stream>>
    BY <1>l DEF RunStep, Reopen, Click, ActRead, Apply, LoseReply
  <2> QED BY <2>1, <1>a
<1>m. CASE UNCHANGED vars
  BY <1>m, <1>a DEF vars
<1> QED BY <1>b, <1>c, <1>d, <1>e, <1>f, <1>g, <1>h, <1>i, <1>j, <1>k, <1>l, <1>m DEF Next

(* The records of commands, with their numbers up to i and c, their revisions *)
(* up to r and their questions up to q.                                       *)
ReceiptRow(i, r) == [id : 1..i, rev : 1..r]
AppliedRow(i, c, q) == [id : 1..i, click : 1..c, what : {"gate", "scope"}, shown : 0..q, met : 0..q]
PostRow(i, c, q, r) ==
    [id : 1..i, click : 1..c, what : {"gate", "scope"}, shown : 0..q, exp : 1..r]
AnswerRow(i) == [id : 1..i, ok : BOOLEAN]
ActRow(i, q, r) ==
    [at : {"idle", "get", "got", "post"}, what : {"none", "gate", "scope"},
     shown : 0..q, rev : 0..r, id : 0..i, tries : {0, 1}]

(* The states of the command being dispatched. *)
GateAct(s) == [Idle EXCEPT !.at = "get", !.what = "gate", !.shown = s]
GotAct(ac, r) == [ac EXCEPT !.at = "got", !.rev = r]
AgainAct(ac) == [ac EXCEPT !.at = "get", !.tries = 1]
PostedAct(ac, i) == [ac EXCEPT !.at = "post", !.id = i]

LEMMA IdleRow ==
  ASSUME NEW i \in Nat, NEW q \in Nat, NEW r \in Nat
  PROVE  Idle \in ActRow(i, q, r)
BY DEF Idle, ActRow

LEMMA ScopeRow ==
  ASSUME NEW i \in Nat, NEW q \in Nat, NEW r \in Nat
  PROVE  [Idle EXCEPT !.at = "get", !.what = "scope"] \in ActRow(i, q, r)
<1>1. \A b \in ActRow(i, q, r) : [b EXCEPT !.at = "get"] \in ActRow(i, q, r)
  BY DEF ActRow
<1>2. \A b \in ActRow(i, q, r) : [b EXCEPT !.what = "scope"] \in ActRow(i, q, r)
  BY DEF ActRow
<1> QED BY <1>1, <1>2, IdleRow

LEMMA GateRow ==
  ASSUME NEW i \in Nat, NEW q \in Nat, NEW r \in Nat, NEW s \in 0..q
  PROVE  GateAct(s) \in ActRow(i, q, r)
<1>1. \A b \in ActRow(i, q, r) : [b EXCEPT !.at = "get"] \in ActRow(i, q, r)
  BY DEF ActRow
<1>2. \A b \in ActRow(i, q, r) : [b EXCEPT !.what = "gate"] \in ActRow(i, q, r)
  BY DEF ActRow
<1>3. \A b \in ActRow(i, q, r) : [b EXCEPT !.shown = s] \in ActRow(i, q, r)
  BY DEF ActRow
<1> QED BY <1>1, <1>2, <1>3, IdleRow DEF GateAct

LEMMA FetchedRow ==
  ASSUME NEW i \in Nat, NEW q \in Nat, NEW r \in Nat, NEW ac \in ActRow(i, q, r)
  PROVE  GotAct(ac, r) \in ActRow(i, q, r)
<1>1. \A b \in ActRow(i, q, r) : [b EXCEPT !.at = "got"] \in ActRow(i, q, r)
  BY DEF ActRow
<1>2. \A b \in ActRow(i, q, r) : [b EXCEPT !.rev = r] \in ActRow(i, q, r)
  BY DEF ActRow
<1> QED BY <1>1, <1>2 DEF GotAct

LEMMA AgainRow ==
  ASSUME NEW i \in Nat, NEW q \in Nat, NEW r \in Nat, NEW ac \in ActRow(i, q, r)
  PROVE  AgainAct(ac) \in ActRow(i, q, r)
<1>1. \A b \in ActRow(i, q, r) : [b EXCEPT !.at = "get"] \in ActRow(i, q, r)
  BY DEF ActRow
<1>2. \A b \in ActRow(i, q, r) : [b EXCEPT !.tries = 1] \in ActRow(i, q, r)
  BY DEF ActRow
<1> QED BY <1>1, <1>2 DEF AgainAct

LEMMA PostedRow ==
  ASSUME NEW i \in Nat, NEW q \in Nat, NEW r \in Nat, NEW ac \in ActRow(i, q, r)
  PROVE  PostedAct(ac, i) \in ActRow(i, q, r)
<1>1. \A b \in ActRow(i, q, r) : [b EXCEPT !.at = "post"] \in ActRow(i, q, r)
  BY DEF ActRow
<1>2. \A b \in ActRow(i, q, r) : [b EXCEPT !.id = i] \in ActRow(i, q, r)
  BY DEF ActRow
<1> QED BY <1>1, <1>2 DEF PostedAct

LEMMA CommandTypeStep ==
  ASSUME RunTypeOK(log, gateOf), PageTypeOK, CommandTypeOK, CountInv, ids \in Nat, clicks \in Nat,
         [Next]_vars
  PROVE  CommandTypeOK' /\ ids' \in Nat /\ clicks' \in Nat
<1> DEFINE gates == Len(gateOf)
           Rows(rs, as, ps, an, ac, i, c, q, r) ==
             /\ rs \subseteq ReceiptRow(i, r) /\ as \subseteq AppliedRow(i, c, q)
             /\ ps \subseteq PostRow(i, c, q, r) /\ an \subseteq AnswerRow(i) /\ ac \in ActRow(i, q, r)
<1>1. /\ Revision \in Nat /\ Revision' \in Nat /\ Revision > 0 /\ Revision <= Revision'
      /\ gates \in Nat /\ gates' \in Nat /\ gates <= gates'
  BY Grown
<1>2. act \in ActRow(ids, gates, Revision)
  BY DEF CommandTypeOK, ActRow
<1> HIDE DEF gates
<1>2a. Rows(receipts, applied, posts, answered, act, ids, clicks, gates, Revision)
  BY DEF CommandTypeOK, ReceiptRow, AppliedRow, PostRow, AnswerRow, ActRow, gates
<1>3. Idle \in ActRow(ids, gates, Revision)
  BY <1>1, IdleRow
<1>4. ASSUME ids' \in Nat, clicks' \in Nat, ids <= ids', clicks <= clicks'
      PROVE  Rows(receipts, applied, posts, answered, act, ids', clicks', gates', Revision')
  <2> DEFINE r == Revision'  q == gates'  i == ids'  c == clicks'
  <2>0. r \in Nat /\ q \in Nat /\ i \in Nat /\ c \in Nat /\ Revision <= r /\ gates <= q /\ ids <= i /\ clicks <= c
    BY <1>1, <1>4
  <2> HIDE DEF r, q, i, c
  <2>1. ReceiptRow(ids, Revision) \subseteq ReceiptRow(i, r)
    BY <1>1, <2>0 DEF ReceiptRow
  <2>2. AppliedRow(ids, clicks, gates) \subseteq AppliedRow(i, c, q)
    BY <1>1, <2>0 DEF AppliedRow
  <2>3. PostRow(ids, clicks, gates, Revision) \subseteq PostRow(i, c, q, r)
    BY <1>1, <2>0 DEF PostRow
  <2>4. AnswerRow(ids) \subseteq AnswerRow(i)
    BY <1>1, <2>0 DEF AnswerRow
  <2>5. ActRow(ids, gates, Revision) \subseteq ActRow(i, q, r)
    BY <1>1, <2>0 DEF ActRow
  <2>6. Rows(receipts, applied, posts, answered, act, i, c, q, r)
    BY <2>1, <2>2, <2>3, <2>4, <2>5, <1>2a
  <2> QED BY <2>6 DEF r, q, i, c
<1>5. ASSUME Rows(receipts', applied', posts', answered', act', ids', clicks', gates', Revision')
      PROVE  CommandTypeOK'
  BY <1>5 DEF CommandTypeOK, ReceiptRow, AppliedRow, PostRow, AnswerRow, ActRow, gates
<1>a. CASE UNCHANGED <<receipts, applied, posts, answered, act, ids, clicks>>
  BY <1>a, <1>4, <1>5
<1>b. CASE Crash
  <2>1. /\ UNCHANGED <<receipts, applied, answered, ids, clicks, log, gateOf>>
        /\ posts' = {} /\ act' \in {act, Idle}
    BY <1>b DEF Crash, run
  <2>2. Revision' = Revision /\ gates' = gates
    BY <2>1 DEF Revision, gates
  <2> QED BY <2>1, <2>2, <1>2a, <1>3, <1>5
<1>c. CASE Click
  <2>1. /\ UNCHANGED <<receipts, applied, answered, ids, posts, log, gateOf>>
        /\ clicks' = clicks + 1 /\ view > 0
        /\ \/ act' = GateAct(log[view])
           \/ act' = [Idle EXCEPT !.at = "get", !.what = "scope"]
    BY <1>c DEF Click, run, GateAct
  <2>2. Revision' = Revision /\ gates' = gates
    BY <2>1 DEF Revision, gates
  <2>3. log[view] \in 0..gates
    <3>1. log \in Seq(Nat) /\ view \in 1..Len(log) /\ log[view] <= gates
      BY <2>1 DEF RunTypeOK, PageTypeOK, Revision, gates
    <3> QED BY <3>1, <1>1
  <2>4. act' \in ActRow(ids', gates', Revision')
    <3>1. [Idle EXCEPT !.at = "get", !.what = "scope"] \in ActRow(ids, gates, Revision)
      BY <1>1, ScopeRow
    <3>2. GateAct(log[view]) \in ActRow(ids, gates, Revision)
      BY <1>1, <2>3, GateRow
    <3> QED BY <2>1, <2>2, <3>1, <3>2
  <2> QED BY <2>1, <2>2, <2>4, <1>4, <1>5
<1>d. CASE ActRead
  <2>1. /\ UNCHANGED <<receipts, applied, answered, ids, posts, log, gateOf, clicks>>
        /\ act' = GotAct(act, Revision) \/ act' = Idle
    BY <1>d DEF ActRead, run, GotAct
  <2>2. Revision' = Revision /\ gates' = gates
    BY <2>1 DEF Revision, gates
  <2>4. act' \in ActRow(ids', gates', Revision')
    <3>1. GotAct(act, Revision) \in ActRow(ids, gates, Revision)
      BY <1>1, <1>2, FetchedRow
    <3> QED BY <2>1, <2>2, <3>1, <1>3
  <2> QED BY <2>1, <2>2, <2>4, <1>4, <1>5
<1>e. CASE Post
  <2> DEFINE p == [id |-> ids', click |-> clicks, what |-> act.what,
                   shown |-> act.shown, exp |-> act.rev]
  <2>1. /\ UNCHANGED <<receipts, applied, answered, log, gateOf, clicks>>
        /\ \/ ids' = ids + 1 /\ act' = PostedAct(act, ids')
              /\ posts' = posts \cup {p}
           \/ ids' = ids /\ act' = Idle /\ posts' = posts
    BY <1>e DEF Post, run, PostedAct
  <2>2. Revision' = Revision /\ gates' = gates
    BY <2>1 DEF Revision, gates
  <2>3. Rows(receipts, applied, posts, answered, act, ids', clicks', gates', Revision')
    BY <2>1, <1>4
  <2>4. CASE ids' = ids /\ act' = Idle /\ posts' = posts
    BY <2>1, <2>2, <2>4, <1>2a, <1>3, <1>5
  <2>5. CASE ids' = ids + 1 /\ act' = PostedAct(act, ids')
              /\ posts' = posts \cup {p}
    <3>1. act.what \in {"gate", "scope"} /\ act.rev \in 1..Revision /\ act.shown \in 0..gates
          /\ clicks > 0
      BY <1>e, <1>1, <1>2 DEF Post, CountInv, ActRow
    <3>2. p \in PostRow(ids', clicks', gates', Revision')
      BY <3>1, <2>1, <2>2, <2>5 DEF PostRow
    <3>3. act' \in ActRow(ids', gates', Revision')
      <4>1. ids' \in Nat /\ act \in ActRow(ids', gates', Revision')
        BY <2>3, <2>5
      <4> HIDE DEF p
      <4>2. PostedAct(act, ids') \in ActRow(ids', gates', Revision')
        BY <1>1, <4>1, PostedRow
      <4> QED BY <4>2, <2>5
    <3> QED BY <2>1, <2>3, <2>5, <3>2, <3>3, <1>5
  <2> QED BY <2>1, <2>4, <2>5
<1>f. ASSUME NEW p \in posts, Apply(p) PROVE CommandTypeOK' /\ ids' \in Nat /\ clicks' \in Nat
  <2> DEFINE r == [id |-> p.id, rev |-> Revision + 1]
             a == [id |-> p.id, click |-> p.click, what |-> p.what, shown |-> p.shown, met |-> Open]
             n == [id |-> p.id, ok |-> Accepts(p)]
  <2>1. /\ UNCHANGED <<ids, clicks, act, gateOf>>
        /\ posts' \subseteq posts /\ answered' = answered \cup {n}
        /\ \/ UNCHANGED <<receipts, applied>>
           \/ /\ receipts' = receipts \cup {r} /\ applied' = applied \cup {a}
              /\ Emit(IF p.what = "gate" THEN 0 ELSE Open)
    BY <1>f DEF Apply
  <2>2. p \in PostRow(ids, clicks, gates, Revision) /\ Open \in 0..gates
    BY <1>2a, OpenIs DEF gates
  <2>3. Rows(receipts, applied, posts, answered, act, ids', clicks', gates', Revision')
    BY <2>1, <1>4
  <2>4. n \in AnswerRow(ids') /\ gates' = gates
    BY <2>1, <2>2 DEF PostRow, AnswerRow, gates, Accepts, Known, GateMatches
  <2>5. CASE UNCHANGED <<receipts, applied>>
    BY <2>1, <2>3, <2>4, <2>5, <1>5
  <2>6. CASE /\ receipts' = receipts \cup {r} /\ applied' = applied \cup {a}
             /\ Emit(IF p.what = "gate" THEN 0 ELSE Open)
    <3>1. Revision' = Revision + 1
      <4> DEFINE q == IF p.what = "gate" THEN 0 ELSE Open
      <4>1. q \in Nat /\ log' = Append(log, q) /\ log \in Seq(Nat)
        BY <2>2, <2>6, <1>1 DEF Emit, RunTypeOK
      <4> HIDE DEF q
      <4> QED BY <4>1 DEF Revision
    <3>2. r \in ReceiptRow(ids', Revision') /\ a \in AppliedRow(ids', clicks', gates')
      BY <2>1, <2>2, <2>4, <3>1, <1>1 DEF PostRow, ReceiptRow, AppliedRow
    <3> QED BY <2>1, <2>3, <2>4, <2>6, <3>2, <1>5
  <2> QED BY <2>1, <2>5, <2>6
<1>g. CASE Reply \/ LoseReply
  <2>1. /\ UNCHANGED <<receipts, applied, answered, ids, posts, log, gateOf, clicks>>
        /\ act' = AgainAct(act) \/ act' = Idle
    BY <1>g DEF Reply, LoseReply, Failed, run, AgainAct
  <2>2. Revision' = Revision /\ gates' = gates
    BY <2>1 DEF Revision, gates
  <2>4. act' \in ActRow(ids', gates', Revision')
    <3>1. AgainAct(act) \in ActRow(ids, gates, Revision)
      BY <1>1, <1>2, AgainRow
    <3> QED BY <2>1, <2>2, <3>1, <1>3
  <2> QED BY <2>1, <2>2, <2>4, <1>4, <1>5
<1>h. CASE RunStep \/ Reopen \/ LoadRead \/ LoadArrives \/ Connect \/ Poll \/ Receive \/ Drop \/ Restart
  <2>1. UNCHANGED <<receipts, applied, posts, answered, act, ids, clicks>>
    BY <1>h DEF RunStep, Reopen, LoadRead, LoadArrives, Connect, Poll, Receive, Drop, Restart,
       run, command
  <2> QED BY <2>1, <1>a
<1>i. CASE UNCHANGED vars
  BY <1>i, <1>a DEF vars, run, command
<1> QED BY <1>b, <1>c, <1>d, <1>e, <1>f, <1>g, <1>h, <1>i DEF Next

LEMMA CountStep ==
  ASSUME RunTypeOK(log, gateOf), CommandTypeOK, CountInv, ids \in Nat, clicks \in Nat, [Next]_vars
  PROVE  CountInv'
<1>0. /\ act \in ActRow(ids, Len(gateOf), Revision) /\ act.tries \in {0, 1}
      /\ Revision \in Nat /\ Revision > 0
  BY Grown DEF CommandTypeOK, ActRow
<1>a. CASE UNCHANGED <<act, ids, clicks>>
  BY <1>a DEF CountInv
<1>b. CASE Crash
  <2>1. /\ UNCHANGED <<ids, clicks>>
        /\ act' = act \/ (act' = Idle /\ act.at \in {"get", "post"})
    BY <1>b DEF Crash
  <2>2. CASE act' = Idle /\ act.at \in {"get", "post"}
    BY <2>1, <2>2, <1>0 DEF CountInv, Idle
  <2> QED BY <2>1, <2>2, <1>a
<1>c. CASE Click
  <2>1. /\ UNCHANGED ids /\ clicks' = clicks + 1 /\ act.at = "idle"
        /\ act'.at = "get" /\ act'.what # "none" /\ act'.tries = 0
    BY <1>c DEF Click, Idle
  <2> QED BY <2>1 DEF CountInv
<1>d. CASE ActRead
  <2>1. UNCHANGED <<ids, clicks>> /\ act.at = "get"
    BY <1>d DEF ActRead
  <2>2. CASE act' = Idle
    BY <2>1, <2>2, <1>0 DEF CountInv, Idle
  <2>3. CASE act' = [act EXCEPT !.at = "got", !.rev = Revision]
    <3>1. act'.at = "got" /\ act'.rev = Revision /\ act'.tries = act.tries /\ act'.what = act.what
      BY <2>3, <1>0 DEF ActRow
    <3> QED BY <2>1, <3>1, <1>0 DEF CountInv
  <2> QED BY <1>d, <2>2, <2>3 DEF ActRead
<1>e. CASE Post
  <2>1. /\ UNCHANGED clicks /\ act.at = "got"
        /\ \/ ids' = ids + 1 /\ act' = [act EXCEPT !.at = "post", !.id = ids']
           \/ ids' = ids /\ act' = Idle
    BY <1>e DEF Post
  <2>2. CASE ids' = ids /\ act' = Idle
    BY <2>1, <2>2, <1>0 DEF CountInv, Idle
  <2>3. CASE ids' = ids + 1 /\ act' = [act EXCEPT !.at = "post", !.id = ids']
    <3>1. /\ act'.at = "post" /\ act'.rev = act.rev /\ act'.tries = act.tries
          /\ act'.what = act.what /\ act'.id = ids'
      BY <2>3, <1>0 DEF ActRow
    <3> QED BY <2>1, <2>3, <3>1, <1>0 DEF CountInv
  <2> QED BY <2>1, <2>2, <2>3
<1>f. CASE Reply \/ LoseReply
  <2>1. /\ UNCHANGED <<ids, clicks>> /\ act.at = "post"
        /\ act' = Idle \/ (act' = [act EXCEPT !.at = "get", !.tries = 1] /\ act.tries = 0)
    BY <1>f DEF Reply, LoseReply, Failed, Retries
  <2>2. CASE act' = Idle
    BY <2>1, <2>2, <1>0 DEF CountInv, Idle
  <2>3. CASE act' = [act EXCEPT !.at = "get", !.tries = 1] /\ act.tries = 0
    <3>1. act'.at = "get" /\ act'.tries = 1 /\ act'.what = act.what
      BY <2>3, <1>0 DEF ActRow
    <3> QED BY <2>1, <2>3, <3>1 DEF CountInv
  <2> QED BY <2>1, <2>2, <2>3
<1>g. CASE \/ RunStep \/ Reopen \/ LoadRead \/ LoadArrives \/ Connect \/ Poll \/ Receive
           \/ Drop \/ Restart \/ \E p \in posts : Apply(p)
  <2>1. UNCHANGED <<act, ids, clicks>>
    BY <1>g DEF RunStep, Reopen, LoadRead, LoadArrives, Connect, Poll, Receive, Drop, Restart,
       command, Apply
  <2> QED BY <2>1, <1>a
<1>h. CASE UNCHANGED vars
  BY <1>h, <1>a DEF vars, command
<1> QED BY <1>b, <1>c, <1>d, <1>e, <1>f, <1>g, <1>h DEF Next

(* Every revision is one of the run's own steps or an accepted command.        *)
CeilingInv == Accepted \subseteq 1..ids /\ Revision <= MaxRevision + Cardinality(Accepted)

LEMMA AcceptedIsSmall ==
  ASSUME ids \in Nat, Accepted \subseteq 1..ids
  PROVE  /\ IsFiniteSet(Accepted) /\ Cardinality(Accepted) \in Nat /\ Cardinality(Accepted) <= ids
<1>1. IsFiniteSet(1..ids) /\ Cardinality(1..ids) = ids
  BY FS_Interval
<1> QED BY <1>1, FS_Subset, FS_CardinalityType

LEMMA CeilingStep ==
  ASSUME RunTypeOK(log, gateOf), CommandTypeOK, CeilingInv, ids \in Nat, [Next]_vars
  PROVE  CeilingInv'
<1>0. /\ IsFiniteSet(Accepted) /\ Cardinality(Accepted) \in Nat /\ Revision \in Nat /\ MaxRevision \in Nat
      /\ log \in Seq(Nat)
  BY AcceptedIsSmall, Grown, BoundAssumption DEF CeilingInv, RunTypeOK
<1>a. ASSUME UNCHANGED <<log, receipts>>, ids' \in {ids, ids + 1} PROVE CeilingInv'
  <2>1. Accepted' = Accepted /\ Revision' = Revision
    BY <1>a DEF Accepted, Revision
  <2> QED BY <1>a, <2>1 DEF CeilingInv
<1>b. CASE RunStep \/ Reopen
  <2>1. /\ UNCHANGED <<receipts, ids>> /\ Revision < MaxRevision /\ \E q : log' = Append(log, q)
    BY <1>b DEF RunStep, Reopen, Emit, command
  <2>2. Accepted' = Accepted /\ Revision' = Revision + 1
    BY <2>1, <1>0 DEF Accepted, Revision
  <2> QED BY <1>0, <2>1, <2>2 DEF CeilingInv
<1>c. ASSUME NEW p \in posts, Apply(p) PROVE CeilingInv'
  <2>1. UNCHANGED ids
    BY <1>c DEF Apply
  <2>2. CASE UNCHANGED <<log, receipts>>
    BY <2>1, <2>2, <1>a
  <2>3. CASE /\ ~Known(p) /\ receipts' = receipts \cup {[id |-> p.id, rev |-> Revision + 1]}
             /\ \E q : log' = Append(log, q)
    <3>1. Accepted' = Accepted \cup {p.id}
      <4> DEFINE n == [id |-> p.id, rev |-> Revision + 1]
      <4>1. n.id = p.id /\ receipts' = receipts \cup {n}
        BY <2>3
      <4> HIDE DEF n
      <4>2. {r.id : r \in receipts'} = {r.id : r \in receipts} \cup {p.id}
        BY <4>1
      <4> QED BY <4>2 DEF Accepted
    <3>2. p.id \notin Accepted /\ p.id \in 1..ids
      BY <2>3 DEF Accepted, Known, CommandTypeOK
    <3>3. Cardinality(Accepted') = Cardinality(Accepted) + 1
      BY <1>0, <3>1, <3>2, FS_AddElement
    <3>4. Revision' = Revision + 1
      BY <2>3, <1>0 DEF Revision
    <3>5. Accepted' \subseteq 1..ids'
      BY <2>1, <3>1, <3>2 DEF CeilingInv
    <3>6. Revision' <= MaxRevision + Cardinality(Accepted')
      BY <3>3, <3>4, <1>0 DEF CeilingInv
    <3> QED BY <3>5, <3>6 DEF CeilingInv
  <2> QED BY <1>c, <2>2, <2>3 DEF Apply, Emit
<1>d. CASE \/ LoadRead \/ LoadArrives \/ Connect \/ Poll \/ Receive \/ Drop \/ Crash \/ Restart
           \/ Click \/ ActRead \/ Post \/ Reply \/ LoseReply
  <2>1. UNCHANGED <<log, receipts>> /\ ids' \in {ids, ids + 1}
    BY <1>d DEF LoadRead, LoadArrives, Connect, Poll, Receive, Drop, Crash, Restart, Click,
       ActRead, Post, Reply, LoseReply, run, command
  <2> QED BY <2>1, <1>a
<1>e. CASE UNCHANGED vars
  BY <1>e, <1>a DEF vars, run, command
<1> QED BY <1>b, <1>c, <1>d, <1>e DEF Next

-----------------------------------------------------------------------------
(* One click, one change. *)

Refused(id) == [id |-> id, ok |-> FALSE] \in answered

(* What was answered stays so: an id that has a receipt is never refused, and *)
(* a request that was refused can never be accepted.                          *)
AnswersInv ==
    /\ \A p, q \in posts : p.id = q.id => p = q
    /\ \A a \in applied : \E r \in receipts : r.id = a.id
    /\ \A r \in receipts : ~Refused(r.id)
    /\ \A a \in answered : a.ok => \E r \in receipts : r.id = a.id
    /\ \A p \in posts : Refused(p.id) => p.exp < Revision \/ (p.what = "gate" /\ ~GateMatches(p))

SentAs(i, c) == \E p \in posts \cup applied : p.id = i /\ p.click = c

(* Of the requests of one click all but one were refused. *)
ClickInv ==
    /\ \A c \in 1..clicks : \A i, j \in 1..ids :
         SentAs(i, c) /\ SentAs(j, c) /\ i # j => Refused(i) \/ Refused(j)
    /\ act.at \in {"get", "got"} =>
         \A i \in 1..ids : SentAs(i, clicks) => act.tries = 1 /\ Refused(i)
    /\ act.at = "post" => \A i \in 1..ids : SentAs(i, clicks) => i = act.id \/ Refused(i)
    /\ OncePerClick

(* applyCommand refuses for good: revisions only grow.                         *)
LEMMA RefusedIsFinal ==
  ASSUME AnswersInv, CommandTypeOK, Revision \in Nat, NEW p \in posts, Refused(p.id)
  PROVE  ~Accepts(p)
<1>1. p.exp \in Nat
  BY DEF CommandTypeOK
<1>2. p.exp # Revision \/ (p.what = "gate" /\ ~GateMatches(p))
  BY <1>1 DEF AnswersInv
<1>3. ~Known(p)
  BY DEF Known, AnswersInv
<1> QED BY <1>2, <1>3 DEF Accepts

LEMMA AnswersStep ==
  ASSUME RunTypeOK(log, gateOf), CommandTypeOK, AnswersInv, ids \in Nat, [Next]_vars
  PROVE  AnswersInv'
<1>0. Revision \in Nat /\ Revision' \in Nat /\ \A p \in posts : p.exp \in Nat /\ p.exp <= Revision /\ p.id \in 1..ids
  BY Grown DEF CommandTypeOK
<1>a. CASE UNCHANGED <<log, gateOf, receipts, applied, answered>> /\ posts' \subseteq posts
  <2>1. \A p : GateMatches(p)' <=> GateMatches(p)
    BY <1>a DEF GateMatches, Open
  <2> QED BY <1>a, <2>1 DEF AnswersInv, Refused, Revision
<1>b. CASE RunStep \/ Reopen
  <2>1. UNCHANGED <<receipts, applied, answered, posts>> /\ \E q : log' = Append(log, q)
    BY <1>b DEF RunStep, Reopen, Emit, command
  <2>2. Revision' = Revision + 1
    BY <2>1 DEF RunTypeOK, Revision
  <2>3. \A p \in posts' : p.exp < Revision'
    BY <1>0, <2>1, <2>2
  <2> QED BY <2>1, <2>3 DEF AnswersInv, Refused
<1>c. CASE Post
  <2>1. /\ UNCHANGED <<log, gateOf, receipts, applied, answered>>
        /\ \/ posts' = posts
           \/ \E p : p.id = ids + 1 /\ posts' = posts \cup {p}
    BY <1>c DEF Post, run
  <2>2. ASSUME NEW p, p.id = ids + 1, posts' = posts \cup {p} PROVE AnswersInv'
    <3>1. \A q \in posts : q.id # p.id
      BY <2>2, <1>0
    <3>2. ~Refused(p.id)
      BY <2>2 DEF CommandTypeOK, Refused
    <3>3. \A q : GateMatches(q)' <=> GateMatches(q)
      BY <2>1 DEF GateMatches, Open
    <3> QED BY <2>1, <2>2, <3>1, <3>2, <3>3 DEF AnswersInv, Refused, Revision
  <2> QED BY <2>1, <2>2, <1>a
<1>d. ASSUME NEW p \in posts, Apply(p) PROVE AnswersInv'
  <2> DEFINE n == [id |-> p.id, ok |-> Accepts(p)]
  <2>1. UNCHANGED gateOf /\ posts' \subseteq posts /\ answered' = answered \cup {n}
    BY <1>d DEF Apply
  <2>2. n.id = p.id /\ n.ok = Accepts(p) /\ (n.ok => \A i : n # [id |-> i, ok |-> FALSE])
    BY DEF Accepts, Known, GateMatches
  <2>2a. \A i : [id |-> i, ok |-> FALSE] = n <=> i = p.id /\ ~Accepts(p)
    BY DEF Accepts, Known, GateMatches
  <2> HIDE DEF n
  <2>3. \A i : Refused(i)' <=> Refused(i) \/ (i = p.id /\ ~Accepts(p))
    BY <2>1, <2>2a DEF Refused
  <2>4. CASE Accepts(p) /\ ~Known(p)
    <3> DEFINE r == [id |-> p.id, rev |-> Revision + 1]
               a == [id |-> p.id, click |-> p.click, what |-> p.what, shown |-> p.shown, met |-> Open]
    <3>1. /\ receipts' = receipts \cup {r} /\ applied' = applied \cup {a}
          /\ \E q : log' = Append(log, q)
      BY <1>d, <2>4 DEF Apply, Emit
    <3>2. r.id = p.id /\ a.id = p.id
      OBVIOUS
    <3> HIDE DEF r, a
    <3>3. Revision' = Revision + 1
      BY <3>1 DEF RunTypeOK, Revision
    <3>4. ~Refused(p.id)
      BY <2>4, <1>0, RefusedIsFinal
    <3>5. \A q \in posts' : q.exp < Revision'
      BY <1>0, <2>1, <3>3
    <3>6. \A i : Refused(i)' <=> Refused(i)
      BY <2>3, <2>4
    <3>7. \A b \in answered' : b.ok => \E s \in receipts' : s.id = b.id
      BY <2>1, <2>2, <3>1, <3>2 DEF AnswersInv
    <3>8. \A b \in applied' : \E s \in receipts' : s.id = b.id
      BY <3>1, <3>2 DEF AnswersInv
    <3>9. \A s \in receipts' : ~Refused(s.id)'
      BY <3>1, <3>2, <3>4, <3>6 DEF AnswersInv
    <3>10. \A q, t \in posts' : q.id = t.id => q = t
      BY <2>1 DEF AnswersInv
    <3> QED BY <3>5, <3>7, <3>8, <3>9, <3>10 DEF AnswersInv
  <2>5. CASE ~(Accepts(p) /\ ~Known(p))
    <3>1. UNCHANGED <<log, receipts, applied>>
      BY <1>d, <2>5 DEF Apply
    <3>2. \A q : GateMatches(q)' <=> GateMatches(q)
      BY <2>1, <3>1 DEF GateMatches, Open
    <3>3. \A s \in receipts : ~Refused(s.id)'
      BY <2>3 DEF AnswersInv, Accepts, Known
    <3>4. \A b \in answered' : b.ok => \E s \in receipts : s.id = b.id
      BY <2>1, <2>2, <2>5 DEF AnswersInv, Known
    <3>5. \A q \in posts : Refused(q.id)' => q.exp < Revision \/ (q.what = "gate" /\ ~GateMatches(q))
      <4> SUFFICES ASSUME NEW q \in posts, Refused(q.id)'
                   PROVE  q.exp < Revision \/ (q.what = "gate" /\ ~GateMatches(q))
        OBVIOUS
      <4>1. CASE Refused(q.id)
        BY <4>1 DEF AnswersInv
      <4>2. CASE q.id = p.id /\ ~Accepts(p)
        <5>1. q = p
          BY <4>2 DEF AnswersInv
        <5> QED BY <4>2, <5>1, <1>0 DEF Accepts
      <4> QED BY <2>3, <4>1, <4>2
    <3>6. Revision' = Revision
      BY <3>1 DEF Revision
    <3>7. \A q \in posts' : Refused(q.id)' => q.exp < Revision' \/ (q.what = "gate" /\ ~GateMatches(q)')
      BY <2>1, <3>2, <3>5, <3>6
    <3>8. \A q, t \in posts' : q.id = t.id => q = t
      BY <2>1 DEF AnswersInv
    <3>9. \A b \in applied : \E s \in receipts : s.id = b.id
      BY DEF AnswersInv
    <3> QED BY <3>1, <3>3, <3>4, <3>7, <3>8, <3>9 DEF AnswersInv
  <2> QED BY <2>4, <2>5
<1>e. CASE \/ LoadRead \/ LoadArrives \/ Connect \/ Poll \/ Receive \/ Drop \/ Crash \/ Restart
           \/ Click \/ ActRead \/ Reply \/ LoseReply
  <2>1. UNCHANGED <<log, gateOf, receipts, applied, answered>> /\ posts' \subseteq posts
    BY <1>e DEF LoadRead, LoadArrives, Connect, Poll, Receive, Drop, Crash, Restart, Click,
       ActRead, Reply, LoseReply, run, command
  <2> QED BY <2>1, <1>a
<1>f. CASE UNCHANGED vars
  BY <1>f, <1>a DEF vars, run, command
<1> QED BY <1>b, <1>c, <1>d, <1>e, <1>f DEF Next

(* A request sent or accepted, with a number that was given to a click.       *)
LEMMA SentFits ==
  ASSUME CommandTypeOK, ids \in Nat, clicks \in Nat, NEW i, NEW c, SentAs(i, c)
  PROVE  i \in 1..ids /\ c \in 1..clicks
BY DEF CommandTypeOK, SentAs

LEMMA ClickStep ==
  ASSUME RunTypeOK(log, gateOf), CommandTypeOK, AnswersInv, CountInv, ClickInv,
         ids \in Nat, clicks \in Nat, [Next]_vars
  PROVE  ClickInv'
<1>0. /\ act \in ActRow(ids, Len(gateOf), Revision) /\ act.tries \in {0, 1}
      /\ Revision \in Nat
  BY Grown DEF CommandTypeOK, ActRow
<1>a. ASSUME UNCHANGED <<act, ids, clicks>>, answered \subseteq answered',
             \A i, c : SentAs(i, c)' => SentAs(i, c), OncePerClick'
      PROVE  ClickInv'
  <2>1. \A i : Refused(i) => Refused(i)'
    BY <1>a DEF Refused
  <2>2. \A c \in 1..clicks' : \A i, j \in 1..ids' :
         SentAs(i, c)' /\ SentAs(j, c)' /\ i # j => Refused(i)' \/ Refused(j)'
    BY <1>a, <2>1 DEF ClickInv
  <2>3. act'.at \in {"get", "got"} =>
         \A i \in 1..ids' : SentAs(i, clicks)' => act'.tries = 1 /\ Refused(i)'
    BY <1>a, <2>1 DEF ClickInv, SentAs
  <2>4. act'.at = "post" => \A i \in 1..ids' : SentAs(i, clicks)' => i = act'.id \/ Refused(i)'
    BY <1>a, <2>1 DEF ClickInv, SentAs
  <2> QED BY <1>a, <2>2, <2>3, <2>4 DEF ClickInv
<1>b. ASSUME UNCHANGED <<applied, answered, ids, clicks>>, posts' \subseteq posts,
             \/ act' = Idle
             \/ act'.at \in {"get", "got"} /\
                \A i \in 1..ids : SentAs(i, clicks) => act'.tries = 1 /\ Refused(i)
      PROVE  ClickInv'
  <2>1. \A i, c : SentAs(i, c)' => SentAs(i, c)
    BY <1>b DEF SentAs
  <2>2. \A i : Refused(i)' <=> Refused(i)
    BY <1>b DEF Refused
  <2>3. OncePerClick'
    BY <1>b DEF ClickInv, OncePerClick
  <2>4. \A c \in 1..clicks' : \A i, j \in 1..ids' :
         SentAs(i, c)' /\ SentAs(j, c)' /\ i # j => Refused(i)' \/ Refused(j)'
    BY <1>b, <2>1, <2>2 DEF ClickInv
  <2>5. \A i : SentAs(i, clicks)' => SentAs(i, clicks)
    BY <1>b DEF SentAs
  <2>6. CASE act' = Idle
    BY <2>3, <2>4, <2>6 DEF ClickInv, Idle
  <2>7. CASE act'.at \in {"get", "got"} /\
             \A i \in 1..ids : SentAs(i, clicks) => act'.tries = 1 /\ Refused(i)
    BY <1>b, <2>2, <2>3, <2>4, <2>5, <2>7 DEF ClickInv
  <2> QED BY <1>b, <2>6, <2>7
<1>c. CASE Crash
  <2>1. /\ UNCHANGED <<applied, answered, ids, clicks>> /\ posts' = {}
        /\ act' = act \/ act' = Idle
    BY <1>c DEF Crash, run
  <2>2. CASE act' = act
    <3>1. \A i, c : SentAs(i, c)' => SentAs(i, c)
      BY <2>1 DEF SentAs
    <3>2. OncePerClick'
      BY <2>1 DEF ClickInv, OncePerClick
    <3> QED BY <2>1, <2>2, <3>1, <3>2, <1>a
  <2> QED BY <2>1, <2>2, <1>b
<1>d. CASE Click
  <2>1. /\ UNCHANGED <<applied, answered, ids, posts>> /\ clicks' = clicks + 1
        /\ act'.at = "get"
    BY <1>d DEF Click, run, Idle
  <2>2. \A i, c : SentAs(i, c)' <=> SentAs(i, c)
    BY <2>1 DEF SentAs
  <2>3. \A i : Refused(i)' <=> Refused(i)
    BY <2>1 DEF Refused
  <2>4. \A i, c : SentAs(i, c) => c \in 1..clicks
    BY SentFits
  <2>5. \A i : ~SentAs(i, clicks)'
    <3>1. \A i : SentAs(i, clicks)' => SentAs(i, clicks + 1)
      BY <2>1 DEF SentAs
    <3> QED BY <3>1, <2>4
  <2>6. OncePerClick'
    BY <2>1 DEF ClickInv, OncePerClick
  <2>7. \A c \in 1..clicks' : \A i, j \in 1..ids' :
         SentAs(i, c)' /\ SentAs(j, c)' /\ i # j => Refused(i)' \/ Refused(j)'
    BY <2>1, <2>2, <2>3, <2>4 DEF ClickInv
  <2> QED BY <2>1, <2>5, <2>6, <2>7 DEF ClickInv
<1>e. CASE ActRead
  <2>1. /\ UNCHANGED <<applied, answered, ids, posts, clicks>> /\ act.at = "get"
        /\ act' = [act EXCEPT !.at = "got", !.rev = Revision] \/ act' = Idle
    BY <1>e DEF ActRead, run
  <2>2. CASE act' = [act EXCEPT !.at = "got", !.rev = Revision]
    <3>1. act'.at = "got" /\ act'.tries = act.tries
      BY <2>2, <1>0 DEF ActRow
    <3>2. \A i \in 1..ids : SentAs(i, clicks) => act.tries = 1 /\ Refused(i)
      BY <2>1 DEF ClickInv
    <3> QED BY <2>1, <3>1, <3>2, <1>b
  <2> QED BY <2>1, <2>2, <1>b
<1>f. CASE Post
  <2>1. /\ UNCHANGED <<applied, answered, clicks>> /\ act.at = "got"
        /\ \/ /\ ids' = ids + 1 /\ act' = [act EXCEPT !.at = "post", !.id = ids']
              /\ \E p : p.id = ids' /\ p.click = clicks /\ posts' = posts \cup {p}
           \/ ids' = ids /\ act' = Idle /\ posts' = posts
    BY <1>f DEF Post, run
  <2>2. CASE ids' = ids /\ act' = Idle /\ posts' = posts
    BY <2>1, <2>2, <1>b
  <2>3. CASE /\ ids' = ids + 1 /\ act' = [act EXCEPT !.at = "post", !.id = ids']
             /\ \E p : p.id = ids' /\ p.click = clicks /\ posts' = posts \cup {p}
    <3>1. act'.at = "post" /\ act'.id = ids'
      BY <2>3, <1>0 DEF ActRow
    <3>2. \A i, c : SentAs(i, c)' <=> SentAs(i, c) \/ (i = ids' /\ c = clicks)
      BY <2>1, <2>3 DEF SentAs
    <3>3. \A i : Refused(i)' <=> Refused(i)
      BY <2>1 DEF Refused
    <3>4. \A i : SentAs(i, clicks)' => SentAs(i, clicks) \/ i = ids'
      <4>1. \A i : SentAs(i, clicks)' <=> \E p \in posts' \cup applied' : p.id = i /\ p.click = clicks
        BY <2>1 DEF SentAs
      <4> QED BY <4>1, <2>1, <2>3 DEF SentAs
    <3>5. \A i \in 1..ids : SentAs(i, clicks) => Refused(i)
      BY <2>1 DEF ClickInv
    <3>6. \A i, c : SentAs(i, c) => i \in 1..ids /\ c \in 1..clicks
      BY SentFits
    <3>7. OncePerClick'
      BY <2>1 DEF ClickInv, OncePerClick
    <3>8. \A c \in 1..clicks' : \A i, j \in 1..ids' :
           SentAs(i, c)' /\ SentAs(j, c)' /\ i # j => Refused(i)' \/ Refused(j)'
      <4> SUFFICES ASSUME NEW c \in 1..clicks, NEW i \in 1..ids', NEW j \in 1..ids',
                          SentAs(i, c)', SentAs(j, c)', i # j
                   PROVE  Refused(i) \/ Refused(j)
        BY <2>1, <3>3
      <4>1. CASE SentAs(i, c) /\ SentAs(j, c)
        BY <4>1, <3>6 DEF ClickInv
      <4>2. CASE i = ids' /\ c = clicks
        <5>1. SentAs(j, clicks)
          BY <3>2, <4>2
        <5> QED BY <5>1, <3>5, <3>6
      <4>3. CASE j = ids' /\ c = clicks
        <5>1. SentAs(i, clicks)
          BY <3>2, <4>3
        <5> QED BY <5>1, <3>5, <3>6
      <4> QED BY <3>2, <4>1, <4>2, <4>3
    <3>9. \A i \in 1..ids' : SentAs(i, clicks)' => i = act'.id \/ Refused(i)'
      BY <3>1, <3>3, <3>4, <3>5, <3>6
    <3> QED BY <3>1, <3>7, <3>8, <3>9 DEF ClickInv
  <2> QED BY <2>1, <2>2, <2>3
<1>g. ASSUME NEW p \in posts, Apply(p) PROVE ClickInv'
  <2>1. UNCHANGED <<act, ids, clicks>> /\ answered \subseteq answered' /\ posts' \subseteq posts
    BY <1>g DEF Apply
  <2>2. CASE UNCHANGED applied
    <3>1. \A i, c : SentAs(i, c)' => SentAs(i, c)
      BY <2>1, <2>2 DEF SentAs
    <3>2. OncePerClick'
      BY <2>2 DEF ClickInv, OncePerClick
    <3> QED BY <2>1, <3>1, <3>2, <1>a
  <2>3. CASE Accepts(p) /\ ~Known(p)
    <3> DEFINE a == [id |-> p.id, click |-> p.click, what |-> p.what, shown |-> p.shown, met |-> Open]
    <3>1. applied' = applied \cup {a} /\ a.id = p.id /\ a.click = p.click
      BY <1>g, <2>3 DEF Apply
    <3> HIDE DEF a
    <3>2. \A i, c : SentAs(i, c)' => SentAs(i, c)
      BY <2>1, <3>1 DEF SentAs
    <3>3. \A b \in applied : b.click # p.click
      <4> SUFFICES ASSUME NEW b \in applied, b.click = p.click PROVE FALSE
        OBVIOUS
      <4>1. b.id # p.id /\ ~Refused(b.id)
        BY <2>3 DEF AnswersInv, Known
      <4>2. ~Refused(p.id)
        BY <2>3, <1>0, RefusedIsFinal
      <4>3. SentAs(p.id, p.click) /\ SentAs(b.id, p.click)
        BY DEF SentAs
      <4>4. p.id \in 1..ids /\ b.id \in 1..ids /\ p.click \in 1..clicks
        BY <4>3, SentFits
      <4> QED BY <4>1, <4>2, <4>3, <4>4 DEF ClickInv
    <3>4. OncePerClick'
      BY <3>1, <3>3 DEF ClickInv, OncePerClick
    <3> QED BY <2>1, <3>2, <3>4, <1>a
  <2> QED BY <1>g, <2>2, <2>3 DEF Apply
<1>h. CASE Reply
  <2>1. PICK n \in answered : n.id = act.id /\ IF n.ok THEN act' = Idle ELSE Failed(TRUE)
    BY <1>h DEF Reply
  <2>2. UNCHANGED <<applied, answered, ids, clicks, posts>> /\ act.at = "post"
    BY <1>h DEF Reply, run
  <2>3. CASE act' = Idle
    BY <2>2, <2>3, <1>b
  <2>4. CASE ~n.ok /\ act' = [act EXCEPT !.at = "get", !.tries = 1]
    <3>1. act'.at = "get" /\ act'.tries = 1
      BY <2>4, <1>0 DEF ActRow
    <3>2. n = [id |-> act.id, ok |-> FALSE]
      BY <2>1, <2>4 DEF CommandTypeOK
    <3>3. Refused(act.id)
      BY <3>2 DEF Refused
    <3>4. \A i \in 1..ids : SentAs(i, clicks) => Refused(i)
      BY <2>2, <3>3 DEF ClickInv
    <3> QED BY <2>2, <3>1, <3>4, <1>b
  <2> QED BY <2>1, <2>3, <2>4 DEF Failed
<1>i. CASE LoseReply
  <2>1. UNCHANGED <<applied, answered, ids, clicks, posts>> /\ act' = Idle
    BY <1>i DEF LoseReply, run, Failed, Retries
  <2> QED BY <2>1, <1>b
<1>j. CASE \/ RunStep \/ Reopen \/ LoadRead \/ LoadArrives \/ Connect \/ Poll \/ Receive
           \/ Drop \/ Restart
  <2>1. UNCHANGED <<applied, answered, ids, clicks, posts, act>>
    BY <1>j DEF RunStep, Reopen, LoadRead, LoadArrives, Connect, Poll, Receive, Drop, Restart,
       run, command
  <2>2. \A i, c : SentAs(i, c)' => SentAs(i, c)
    BY <2>1 DEF SentAs
  <2>3. OncePerClick'
    BY <2>1 DEF ClickInv, OncePerClick
  <2> QED BY <2>1, <2>2, <2>3, <1>a
<1>k. CASE UNCHANGED vars
  <2>1. UNCHANGED <<applied, answered, ids, clicks, posts, act>>
    BY <1>k DEF vars, run, command
  <2>2. \A i, c : SentAs(i, c)' => SentAs(i, c)
    BY <2>1 DEF SentAs
  <2>3. OncePerClick'
    BY <2>1 DEF ClickInv, OncePerClick
  <2> QED BY <2>1, <2>2, <2>3, <1>a
<1> QED BY <1>c, <1>d, <1>e, <1>f, <1>g, <1>h, <1>i, <1>j, <1>k DEF Next

-----------------------------------------------------------------------------
(* A decision settles what was shown. *)

(* Without a conflict that opens a gate again every question has a gate of its *)
(* own, so that the gate's id and digest tell the question; the review page    *)
(* decides no gate.                                                            *)
GatesInv ==
    /\ ~Reopens => \A q \in 1..Len(gateOf) : gateOf[q] = q
    /\ Kind = "review" => act.what # "gate" /\ \A p \in posts \cup applied : p.what # "gate"
    /\ act.what = "gate" => act.shown > 0
    /\ \A p \in posts : p.what = "gate" => p.shown > 0
    /\ DecidedWasShown

LEMMA GatesStep ==
  ASSUME Reopens => Kind = "review",
         RunTypeOK(log, gateOf), PageTypeOK, CommandTypeOK, GatesInv, [Next]_vars
  PROVE  GatesInv'
<1>0. /\ act \in ActRow(ids, Len(gateOf), Revision) /\ Len(gateOf) \in Nat
      /\ gateOf \in Seq(Nat) /\ log \in Seq(Nat)
  BY Grown DEF CommandTypeOK, ActRow, RunTypeOK
<1>1. act.what # "gate" \/ Kind # "review"
  BY DEF GatesInv
<1>a. ASSUME UNCHANGED <<gateOf, applied>>, posts' \subseteq posts,
             \/ act' = Idle
             \/ act'.what = act.what /\ act'.shown = act.shown
      PROVE  GatesInv'
  BY <1>a DEF GatesInv, DecidedWasShown, Idle
<1>b. CASE RunStep \/ Reopen
  <2>1. /\ UNCHANGED <<applied, posts, act>>
        /\ \/ UNCHANGED gateOf
           \/ gateOf' = Append(gateOf, Len(gateOf) + 1)
           \/ Reopens
    BY <1>b DEF RunStep, Reopen, command
  <2>2. ~Reopens => \A q \in 1..Len(gateOf') : gateOf'[q] = q
    <3>1. CASE UNCHANGED gateOf
      BY <3>1 DEF GatesInv
    <3>2. CASE ~Reopens /\ gateOf' = Append(gateOf, Len(gateOf) + 1)
      BY <3>2, <1>0 DEF GatesInv
    <3> QED BY <2>1, <3>1, <3>2
  <2> QED BY <2>1, <2>2 DEF GatesInv, DecidedWasShown
<1>c. CASE Click
  <2>1. /\ UNCHANGED <<gateOf, applied, posts>> /\ view > 0
        /\ \/ Kind # "review" /\ log[view] # 0 /\ act'.what = "gate" /\ act'.shown = log[view]
           \/ act'.what = "scope"
    BY <1>c DEF Click, run, Idle
  <2>2. log[view] \in Nat
    BY <1>0, <2>1 DEF PageTypeOK, RunTypeOK, Revision
  <2> QED BY <2>1, <2>2 DEF GatesInv, DecidedWasShown
<1>d. CASE ActRead
  <2>1. /\ UNCHANGED <<gateOf, applied, posts>>
        /\ act' = [act EXCEPT !.at = "got", !.rev = Revision] \/ act' = Idle
    BY <1>d DEF ActRead, run
  <2>2. act' = [act EXCEPT !.at = "got", !.rev = Revision] =>
          act'.what = act.what /\ act'.shown = act.shown
    BY <1>0 DEF ActRow
  <2> QED BY <2>1, <2>2, <1>a
<1>e. CASE Post
  <2>1. /\ UNCHANGED <<gateOf, applied>>
        /\ \/ /\ act' = [act EXCEPT !.at = "post", !.id = ids']
              /\ \E p : p.what = act.what /\ p.shown = act.shown /\ posts' = posts \cup {p}
           \/ act' = Idle /\ posts' = posts
    BY <1>e DEF Post, run
  <2>2. CASE act' = Idle /\ posts' = posts
    BY <2>1, <2>2, <1>a
  <2>3. CASE /\ act' = [act EXCEPT !.at = "post", !.id = ids']
             /\ \E p : p.what = act.what /\ p.shown = act.shown /\ posts' = posts \cup {p}
    <3>1. act'.what = act.what /\ act'.shown = act.shown
      BY <2>3, <1>0 DEF ActRow
    <3> QED BY <2>1, <2>3, <3>1 DEF GatesInv, DecidedWasShown
  <2> QED BY <2>1, <2>2, <2>3
<1>f. ASSUME NEW p \in posts, Apply(p) PROVE GatesInv'
  <2>1. UNCHANGED <<act, gateOf>> /\ posts' \subseteq posts
    BY <1>f DEF Apply
  <2>2. CASE UNCHANGED applied
    BY <2>1, <2>2, <1>a
  <2>3. CASE Accepts(p) /\ ~Known(p)
    <3> DEFINE a == [id |-> p.id, click |-> p.click, what |-> p.what, shown |-> p.shown, met |-> Open]
    <3>1. /\ applied' = applied \cup {a}
          /\ a.what = p.what /\ a.shown = p.shown /\ a.met = Open
      BY <1>f, <2>3 DEF Apply
    <3> HIDE DEF a
    <3>2. p.what = "gate" => Open = p.shown
      <4> SUFFICES ASSUME p.what = "gate" PROVE Open = p.shown
        OBVIOUS
      <4>1. Open # 0 /\ gateOf[Open] = gateOf[p.shown]
        BY <2>3 DEF Accepts, GateMatches
      <4>2. Open \in 1..Len(gateOf) /\ p.shown \in 1..Len(gateOf)
        BY <4>1, <1>0, OpenIs DEF GatesInv, CommandTypeOK
      <4>3. ~Reopens
        BY DEF GatesInv
      <4> QED BY <4>1, <4>2, <4>3 DEF GatesInv
    <3>3. DecidedWasShown'
      BY <3>1, <3>2 DEF GatesInv, DecidedWasShown
    <3>4. \A q \in posts' \cup applied' : q.what = p.what \/ q \in posts \cup applied
      BY <2>1, <3>1
    <3> QED BY <2>1, <3>3, <3>4 DEF GatesInv
  <2> QED BY <1>f, <2>2, <2>3 DEF Apply
<1>g. CASE Reply \/ LoseReply
  <2>1. /\ UNCHANGED <<gateOf, applied, posts>>
        /\ act' = [act EXCEPT !.at = "get", !.tries = 1] \/ act' = Idle
    BY <1>g DEF Reply, LoseReply, Failed, run
  <2>2. act' = [act EXCEPT !.at = "get", !.tries = 1] =>
          act'.what = act.what /\ act'.shown = act.shown
    BY <1>0 DEF ActRow
  <2> QED BY <2>1, <2>2, <1>a
<1>h. CASE LoadRead \/ LoadArrives \/ Connect \/ Poll \/ Receive \/ Drop \/ Crash \/ Restart
  <2>1. /\ UNCHANGED <<gateOf, applied>> /\ posts' \subseteq posts
        /\ act' = Idle \/ act' = act
    BY <1>h DEF LoadRead, LoadArrives, Connect, Poll, Receive, Drop, Crash, Restart, run, command
  <2> QED BY <2>1, <1>a
<1>i. CASE UNCHANGED vars
  BY <1>i, <1>a DEF vars, run, command
<1> QED BY <1>b, <1>c, <1>d, <1>e, <1>f, <1>g, <1>h, <1>i DEF Next

-----------------------------------------------------------------------------
(* The theorems. *)

IInv == TypeOK /\ CountInv /\ CeilingInv /\ AnswersInv /\ ClickInv

LEMMA InitHolds ==
  ASSUME Init
  PROVE  IInv /\ GatesInv
<1>1. RunTypeOK(log, gateOf) /\ Revision = 1
  BY DEF Init, RunTypeOK, Revision
<1>2. PageTypeOK
  BY <1>1 DEF Init, PageTypeOK
<1>3. CommandTypeOK /\ act = Idle /\ posts = {} /\ applied = {} /\ gateOf = <<>>
  BY <1>1 DEF Init, CommandTypeOK, Idle
<1>4. CountInv
  BY DEF Init, CountInv, Idle
<1>5. Accepted = {} /\ Cardinality(Accepted) = 0
  BY FS_EmptySet DEF Init, Accepted
<1>6. CeilingInv /\ CountersTypeOK
  BY <1>1, <1>5, BoundAssumption DEF Init, CeilingInv, CountersTypeOK
<1>7. AnswersInv
  BY DEF Init, AnswersInv
<1>8. ClickInv
  BY DEF Init, ClickInv, SentAs, OncePerClick, Idle
<1>9. GatesInv
  BY <1>3 DEF GatesInv, DecidedWasShown, Idle
<1> QED BY <1>1, <1>2, <1>3, <1>4, <1>6, <1>7, <1>8, <1>9 DEF IInv, TypeOK

LEMMA TwoPerClick ==
  ASSUME NEW i \in Nat, NEW c \in Nat, NEW t \in {0, 1},
         \/ i <= 2 * c
         \/ c > 0 /\ i <= 2 * (c - 1) + t
         \/ c > 0 /\ i <= 2 * (c - 1) + t + 1
  PROVE  i <= 2 * c
OBVIOUS

LEMMA Ceiling ==
  ASSUME NEW r \in Nat, NEW k \in Nat, NEW i \in Nat, NEW c \in Nat, NEW m \in Nat, NEW n \in Nat,
         r <= m + k, k <= i, i <= 2 * c, c <= n
  PROVE  r <= m + 2 * n /\ i \in 0..(2 * n)
OBVIOUS

LEMMA Inductive ==
  ASSUME IInv, [Next]_vars
  PROVE  IInv'
<1>1. /\ RunTypeOK(log, gateOf) /\ PageTypeOK /\ CommandTypeOK /\ CountersTypeOK
      /\ CountInv /\ CeilingInv /\ AnswersInv /\ ClickInv
      /\ ids \in Nat /\ clicks \in Nat /\ MaxClicks \in Nat /\ MaxRevision \in Nat
  BY BoundAssumption DEF IInv, TypeOK, CountersTypeOK
<1>2. /\ PageTypeOK' /\ CommandTypeOK' /\ ids' \in Nat /\ clicks' \in Nat
      /\ RunTypeOK(log', gateOf') /\ Revision' \in Nat
  BY <1>1, PageTypeStep, CommandTypeStep, Grown
<1>3. CountInv' /\ CeilingInv' /\ AnswersInv' /\ ClickInv'
  BY <1>1, CountStep, CeilingStep, AnswersStep, ClickStep
<1>4. CountersTypeOK'
  <2>1. clicks' <= MaxClicks
    <3>1. clicks' = clicks \/ (clicks < MaxClicks /\ clicks' = clicks + 1)
      BY DEF Next, vars, command, RunStep, Reopen, LoadRead, LoadArrives, Connect, Poll, Receive,
         Drop, Crash, Restart, Click, ActRead, Post, Apply, Reply, LoseReply
    <3> QED BY <1>1, <3>1 DEF CountersTypeOK
  <2>2. drops' \in 0..MaxDrops
    <3>1. drops' = drops \/ (drops < MaxDrops /\ drops' = drops + 1)
      BY DEF Next, vars, RunStep, Reopen, LoadRead, LoadArrives, Connect, Poll, Receive,
         Drop, Crash, Restart, Click, ActRead, Post, Apply, Reply, LoseReply
    <3> QED BY <1>1, <3>1, BoundAssumption DEF CountersTypeOK
  <2>3. crashes' \in 0..MaxCrashes
    <3>1. crashes' = crashes \/ (crashes < MaxCrashes /\ crashes' = crashes + 1)
      BY DEF Next, vars, RunStep, Reopen, LoadRead, LoadArrives, Connect, Poll, Receive,
         Drop, Crash, Restart, Click, ActRead, Post, Apply, Reply, LoseReply
    <3> QED BY <1>1, <3>1, BoundAssumption DEF CountersTypeOK
  <2>4. ids' <= 2 * clicks'
    <3>1. act'.at \in {"idle", "get", "got", "post"} /\ act'.tries \in {0, 1}
      BY <1>2 DEF CommandTypeOK
    <3>2. \/ ids' <= 2 * clicks'
          \/ clicks' > 0 /\ ids' <= 2 * (clicks' - 1) + act'.tries
          \/ clicks' > 0 /\ ids' <= 2 * (clicks' - 1) + act'.tries + 1
      BY <1>3, <3>1 DEF CountInv
    <3> QED BY <1>2, <3>1, <3>2, TwoPerClick
  <2>5. Cardinality(Accepted') \in Nat /\ Cardinality(Accepted') <= ids'
    <3>1. IsFiniteSet(1..ids') /\ Cardinality(1..ids') = ids'
      BY <1>2, FS_Interval
    <3>2. Accepted' \subseteq 1..ids'
      BY <1>3 DEF CeilingInv
    <3> QED BY <3>1, <3>2, FS_Subset, FS_CardinalityType
  <2>6. Revision' <= MaxRevision + Cardinality(Accepted')
    BY <1>3 DEF CeilingInv
  <2>7. Revision' <= MaxRevision + 2 * MaxClicks /\ ids' \in 0..(2 * MaxClicks)
    BY <1>1, <1>2, <2>1, <2>4, <2>5, <2>6, Ceiling
  <2> QED BY <1>2, <2>1, <2>2, <2>3, <2>7 DEF CountersTypeOK
<1> QED BY <1>2, <1>3, <1>4 DEF IInv, TypeOK

(* Every variable keeps its type and its bound: the run has no more revisions  *)
(* than its own steps and the two requests a click may make (dispatch).        *)
THEOREM TypeCorrect == Spec => []TypeOK
<1>1. Init => IInv
  BY InitHolds
<1>2. IInv /\ [Next]_vars => IInv'
  BY Inductive
<1>3. IInv => TypeOK
  BY DEF IInv
<1> QED BY <1>1, <1>2, <1>3, PTL DEF Spec

LEMMA OneAnswerFollows ==
  ASSUME IInv
  PROVE  OneAnswer
<1> SUFFICES ASSUME NEW a \in answered, NEW b \in answered, a.id = b.id
             PROVE  a = b
  BY DEF OneAnswer
<1>1. a \in [id : 1..ids, ok : BOOLEAN] /\ b \in [id : 1..ids, ok : BOOLEAN]
  BY DEF IInv, TypeOK, CommandTypeOK
<1>2. ASSUME NEW c \in answered, NEW d \in answered, c.id = d.id, c.ok, ~d.ok,
             c \in [id : 1..ids, ok : BOOLEAN], d \in [id : 1..ids, ok : BOOLEAN]
      PROVE  FALSE
  <2>1. PICK r \in receipts : r.id = c.id
    BY <1>2 DEF IInv, AnswersInv
  <2>2. d = [id |-> r.id, ok |-> FALSE]
    BY <1>2, <2>1
  <2> QED BY <2>1, <2>2 DEF IInv, AnswersInv, Refused
<1>3. a.ok = b.ok
  BY <1>1, <1>2
<1> QED BY <1>1, <1>3

(* One click changes the run at most once and a command id has one answer, on  *)
(* every page, whatever is lost, repeated, retried or restarted (dispatch in   *)
(* RunDetailPage.tsx and RunReviewPage.tsx, applyCommand).                     *)
THEOREM ChangesOnce == Spec => [](OncePerClick /\ OneAnswer)
<1>1. Init => IInv
  BY InitHolds
<1>2. IInv /\ [Next]_vars => IInv'
  BY Inductive
<1>3. IInv => OncePerClick /\ OneAnswer
  BY OneAnswerFollows DEF IInv, ClickInv
<1> QED BY <1>1, <1>2, <1>3, PTL DEF Spec

(* And a decision settles the question that the operator saw, when no          *)
(* publication conflict opens a decided gate again (resolveGate's id and       *)
(* digest); with one it need not (publication-control.ts).                     *)
THEOREM ClicksCount ==
  ASSUME Reopens => Kind = "review"
  PROVE  Spec => []ClicksCountOnce
<1>1. Init => IInv /\ GatesInv
  BY InitHolds
<1>2. IInv /\ GatesInv /\ [Next]_vars => (IInv /\ GatesInv)'
  BY Inductive, GatesStep DEF IInv, TypeOK
<1>3. IInv /\ GatesInv => ClicksCountOnce
  BY OneAnswerFollows DEF IInv, ClickInv, GatesInv, ClicksCountOnce
<1> QED BY <1>1, <1>2, <1>3, PTL DEF Spec

(* The pages that merge by revision never show an older one after a newer one, *)
(* however late a GET is answered (setObservationSnapshot,                     *)
(* useWorkspaceActivity.ts).                                                   *)
THEOREM NeverBack ==
  ASSUME Kind \notin {"detail", "review"}
  PROVE  Spec => NeverBackwards
<1>1. Init => IInv
  BY InitHolds
<1>2. IInv /\ [Next]_vars => IInv'
  BY Inductive
<1>3. IInv /\ [Next]_vars => [view' >= view]_view
  <2> SUFFICES ASSUME IInv, [Next]_vars PROVE view' >= view \/ view' = view
    OBVIOUS
  <2>1. view \in Nat /\ load.rev \in Nat
    BY Grown DEF IInv, TypeOK, PageTypeOK
  <2>2. CASE LoadArrives
    BY <2>1, <2>2 DEF LoadArrives, Newer, Plain
  <2>3. CASE Receive
    <3>1. Head(wire) \in Nat
      BY <2>3 DEF Receive, IInv, TypeOK, PageTypeOK
    <3> QED BY <2>1, <2>3, <3>1 DEF Receive, Newer, Plain
  <2>4. CASE Post
    BY <2>1, <2>4 DEF Post, Plain
  <2> QED
    BY <2>1, <2>2, <2>3, <2>4 DEF Next, vars, RunStep, Reopen, LoadRead, Connect, Poll, Drop, Crash,
       Restart, Click, ActRead, Apply, Reply, LoseReply
<1> QED BY <1>1, <1>2, <1>3, PTL DEF Spec, NeverBackwards
==================================================================================
