--------------------------- MODULE Accounts_proofs ---------------------------
(***************************************************************************)
(* Theorems about Pairing, SignIn, Billing and SkillRegistry for any number *)
(* of connect runs, pages, accounts, requests, tabs, identities, checkouts  *)
(* and skills: a code binds its machine, its session and what its run saves *)
(* to one page's claim; a sign-in opens a session of the account its        *)
(* identity has; an account shows the state of the subscription it is on;   *)
(* and a service has one active skill, which only an operator or a request  *)
(* judged without it replaces by one with another entry point.              *)
(***************************************************************************)
EXTENDS Pairing, SignIn, Billing, SkillRegistry, FiniteSetTheorems, SequenceTheorems,
        WellFoundedInduction, TLAPS

Won == {"claimed", "delivered"}

(* A row that was claimed is bound to the page that won it, for good. *)
RowOK(c) ==
    /\ row[c].st \in Won =>
          /\ row[c].raw \in Pages
          /\ page[row[c].raw].at \in {"won", "told"} /\ page[row[c].raw].code = c
          /\ page[row[c].raw].acct = row[c].acct
    /\ row[c].st \notin Won => row[c].acct = None
    /\ machine[c] \in Accounts => row[c].acct = machine[c]

PageOK(g) ==
    /\ page[g].at # "idle" =>
          /\ page[g].code \in Codes /\ page[g].acct \in Accounts /\ row[page[g].code].st # "none"
    /\ page[g].at \in {"won", "told"} =>
          /\ row[page[g].code].st \in Won /\ row[page[g].code].raw = g
          /\ row[page[g].code].acct = page[g].acct

(* What a request carries is what its row holds. *)
RequestOK(p) ==
    /\ req[p].at # "idle" => req[p].code \in Codes /\ row[req[p].code].st # "none"
    /\ req[p].at \in {"deliver", "mark"} =>
          row[req[p].code].st \in Won /\ req[p].acct = row[req[p].code].acct
    /\ req[p].at = "mark" => req[p].raw = row[req[p].code].raw
    /\ req[p].at = "answer" => req[p].answer # "none"
    /\ req[p].at = "answer" /\ req[p].answer = "claimed" =>
          /\ row[req[p].code].st = "delivered" /\ req[p].acct = row[req[p].code].acct
          /\ req[p].raw = row[req[p].code].raw

RunOK(c) ==
    /\ cli[c].at = "new" <=> row[c].st = "none"
    /\ cli[c].at \in {"new", "wait", "expired", "unclaimed"} => cli[c].token = None
    /\ cli[c].at \in {"held", "done", "saved"} =>
          /\ row[c].st \in Won /\ cli[c].token = row[c].raw /\ cli[c].acct = row[c].acct

(* A code with one request at a time is marked once. *)
Marking(c) == {p \in Polls : req[p].at = "mark" /\ req[p].code = c}
GivenOK(c) ==
    /\ row[c].st # "delivered" => given[c] = 0
    /\ row[c].st = "delivered" => given[c] + Cardinality(Marking(c)) <= Cardinality(Polls)
    /\ ~Overlap => /\ given[c] <= 1
                   /\ \A p, q \in InFlight(c) : p = q
                   /\ Marking(c) # {} => row[c].st = "claimed"

IInv ==
    /\ TypeOK
    /\ \A c \in Codes : RowOK(c) /\ RunOK(c) /\ GivenOK(c)
    /\ \A g \in Pages : PageOK(g)
    /\ \A p \in Polls : RequestOK(p)

-----------------------------------------------------------------------------
(* Types. *)

RowStates == [st : {"none", "pending", "claimed", "delivered"}, acct : Accounts \cup {None},
              raw : Pages \cup {None}]
ReqStates == [at : {"idle", "sent", "deliver", "mark", "answer"}, code : Codes \cup {None},
              acct : Accounts \cup {None}, raw : Pages \cup {None},
              answer : {"none", "pending", "expired", "claimed"}]
CliStates == [at : {"new", "wait", "held", "done"} \cup Ended, skip : BOOLEAN,
              token : Pages \cup {None}, acct : Accounts \cup {None}]
PageStates == [at : {"idle", "found", "minted", "won", "told", "refused", "installed", "expired",
                     "failed"}, code : Codes \cup {None}, acct : Accounts \cup {None}]

LEMMA Types ==
    ASSUME TypeOK
    PROVE  /\ row \in [Codes -> RowStates] /\ req \in [Polls -> ReqStates]
           /\ cli \in [Codes -> CliStates] /\ page \in [Pages -> PageStates]
BY DEF TypeOK, RowStates, ReqStates, CliStates, PageStates

LEMMA NoRequestType ==
    NoRequest \in ReqStates /\ NoRequest.at = "idle"
BY DEF NoRequest, ReqStates

-----------------------------------------------------------------------------
(* What no step undoes. *)

(* A claim stays with its page and account; a page stays with its code. *)
RowKept(c) ==
    /\ row[c].st # "none" => row'[c].st # "none"
    /\ row[c].st \in Won => /\ row'[c].st \in Won /\ row'[c].raw = row[c].raw
                            /\ row'[c].acct = row[c].acct
    /\ row[c].st = "delivered" => row'[c].st = "delivered"

PageKept(g) ==
    /\ page[g].at # "idle" => /\ page'[g].at # "idle" /\ page'[g].code = page[g].code
                              /\ page'[g].acct = page[g].acct
    /\ page[g].at \in {"won", "told"} => page'[g].at \in {"won", "told"}

LEMMA RequestKept ==
    ASSUME NEW p \in Polls, RequestOK(p), req'[p] = req[p], \A c \in Codes : RowKept(c)
    PROVE  RequestOK(p)'
BY DEF RequestOK, RowKept, Won

LEMMA RunKept ==
    ASSUME NEW c \in Codes, RunOK(c), cli'[c] = cli[c], RowKept(c),
           cli[c].at = "new" => row'[c] = row[c]
    PROVE  RunOK(c)'
BY DEF RunOK, RowKept

LEMMA PageOKKept ==
    ASSUME NEW g \in Pages, PageOK(g), \A c \in Codes : RowKept(c), page'[g].code = page[g].code,
           page'[g].acct = page[g].acct, page[g].at # "idle",
           page'[g].at \in {"won", "told"} => page[g].at \in {"won", "told"}
    PROVE  PageOK(g)'
BY DEF PageOK, RowKept

LEMMA RowOKKept ==
    ASSUME NEW c \in Codes, RowOK(c), row'[c].st \in Won <=> row[c].st \in Won,
           row'[c].acct = row[c].acct, row'[c].raw = row[c].raw,
           \A g \in Pages : PageKept(g), machine'[c] \in Accounts => machine'[c] = machine[c]
    PROVE  RowOK(c)'
<1>1. CASE row[c].st \in Won
 <2>1. /\ row[c].raw \in Pages /\ page[row[c].raw].at \in {"won", "told"}
       /\ page[row[c].raw].code = c /\ page[row[c].raw].acct = row[c].acct
       /\ machine[c] \in Accounts => row[c].acct = machine[c]
   BY <1>1 DEF RowOK
 <2>2. PageKept(row[c].raw)
   BY <2>1
 <2>3. row'[c].st \in Won
   BY <1>1
 <2>4. QED
   BY <2>1, <2>2, <2>3 DEF RowOK, PageKept
<1>2. CASE row[c].st \notin Won
  BY <1>2 DEF RowOK
<1>3. QED
  BY <1>1, <1>2

LEMMA GivenKept ==
    ASSUME NEW c \in Codes, GivenOK(c), row'[c].st = row[c].st, given'[c] = given[c],
           \A p \in Polls : req'[p].at = "mark" /\ req'[p].code = c
                                <=> req[p].at = "mark" /\ req[p].code = c,
           \A p \in Polls : req'[p].at # "idle" /\ req'[p].code = c
                                => req[p].at # "idle" /\ req[p].code = c
    PROVE  GivenOK(c)'
<1>1. Marking(c)' = Marking(c) /\ InFlight(c)' \subseteq InFlight(c)
  BY DEF Marking, InFlight
<1>2. QED
  BY <1>1 DEF GivenOK

-----------------------------------------------------------------------------
(* Every step keeps the invariant: the connect run. *)

Rest == <<row, dead, machine, sess, alive, page, given>>

LEMMA CliAfter ==
    ASSUME TypeOK, NEW c \in Codes, NEW x \in CliStates, cli' = [cli EXCEPT ![c] = x]
    PROVE  /\ cli' \in [Codes -> CliStates] /\ cli'[c] = x
           /\ \A d \in Codes : d # c => cli'[d] = cli[d]
BY Types

(* A step of a run alone, or of a run and a request that ends. *)
LEMMA RunStep ==
    ASSUME IInv, NEW c \in Codes, NEW x \in CliStates, cli' = [cli EXCEPT ![c] = x],
           req' = req \/ (\E p \in Polls : req[p].at = "answer" /\ req' = [req EXCEPT ![p] = NoRequest]),
           UNCHANGED Rest, RunOK(c)'
    PROVE  IInv'
<1>1. TypeOK /\ UNCHANGED <<row, dead, machine, sess, alive, page, given>>
  BY DEF IInv, Rest
<1>2. /\ cli' \in [Codes -> CliStates] /\ \A d \in Codes : d # c => cli'[d] = cli[d]
  BY <1>1, CliAfter
<1>3. /\ req' \in [Polls -> ReqStates]
      /\ \A p \in Polls : \/ req'[p] = req[p]
                          \/ req[p].at = "answer" /\ req'[p].at = "idle"
  BY <1>1, Types, NoRequestType
<1>4. TypeOK'
  BY <1>1, <1>2, <1>3 DEF TypeOK, ReqStates, CliStates
<1>5. \A d \in Codes : RowKept(d)
  BY <1>1 DEF RowKept
<1>6. ASSUME NEW d \in Codes
      PROVE  RowOK(d)' /\ RunOK(d)'
 <2>1. RowOK(d)'
   BY <1>1 DEF IInv, RowOK
 <2>2. RunOK(d)'
   BY <1>1, <1>2 DEF IInv, RunOK
 <2>3. QED
   BY <2>1, <2>2
<1>7. \A d \in Codes : GivenOK(d)'
  BY <1>1, <1>3, GivenKept DEF IInv
<1>8. \A g \in Pages : PageOK(g)'
  BY <1>1 DEF IInv, PageOK
<1>9. \A p \in Polls : RequestOK(p)'
 <2> SUFFICES ASSUME NEW p \in Polls
              PROVE  RequestOK(p)'
   OBVIOUS
 <2>1. CASE req'[p] = req[p]
   BY <1>5, <2>1, RequestKept DEF IInv
 <2>2. CASE req'[p].at = "idle"
   BY <2>2 DEF RequestOK
 <2>3. QED
   BY <1>3, <2>1, <2>2
<1>10. QED
  BY <1>4, <1>6, <1>7, <1>8, <1>9 DEF IInv

LEMMA InitiateStep ==
    ASSUME IInv, NEW c \in Codes, NEW skip \in BOOLEAN, Initiate(c, skip)
    PROVE  IInv'
<1> DEFINE x == [cli[c] EXCEPT !.at = "wait", !.skip = skip]
           r == [row[c] EXCEPT !.st = "pending"]
<1>1. /\ TypeOK /\ cli[c].at = "new" /\ row' = [row EXCEPT ![c].st = "pending"]
      /\ cli' = [cli EXCEPT ![c].at = "wait", ![c].skip = skip]
      /\ UNCHANGED <<dead, machine, sess, alive, req, page, given>>
  BY DEF IInv, Initiate
<1>2. cli \in [Codes -> CliStates] /\ row \in [Codes -> RowStates]
  BY <1>1, Types
<1>3. row[c].st = "none" /\ cli[c].token = None
  BY <1>1 DEF IInv, RunOK
<1>4. x \in CliStates /\ x.at = "wait" /\ x.token = None
  BY <1>2, <1>3 DEF CliStates
<1>5. r \in RowStates /\ r.st = "pending" /\ r.acct = row[c].acct /\ r.raw = row[c].raw
  BY <1>2 DEF RowStates
<1>6. cli' = [cli EXCEPT ![c] = x] /\ row' = [row EXCEPT ![c] = r]
  BY <1>1, <1>2
<1> HIDE DEF x, r
<1>7. /\ cli' \in [Codes -> CliStates] /\ cli'[c] = x
      /\ \A d \in Codes : d # c => cli'[d] = cli[d]
      /\ row' \in [Codes -> RowStates] /\ row'[c] = r
      /\ \A d \in Codes : d # c => row'[d] = row[d]
  BY <1>2, <1>4, <1>5, <1>6
<1>8. TypeOK'
  BY <1>1, <1>7 DEF TypeOK, CliStates, RowStates
<1>9. \A d \in Codes : RowKept(d)
  BY <1>3, <1>5, <1>7 DEF RowKept, Won
<1>10. \A g \in Pages : PageKept(g)
  BY <1>1 DEF PageKept
<1>11. ASSUME NEW d \in Codes
       PROVE  RowOK(d)' /\ RunOK(d)' /\ GivenOK(d)'
 <2>1. RowOK(d)'
  <3>1. /\ row'[d].st \in Won <=> row[d].st \in Won
        /\ row'[d].acct = row[d].acct /\ row'[d].raw = row[d].raw
    BY <1>3, <1>5, <1>7 DEF Won
  <3>2. QED
    BY <1>1, <1>10, <3>1, RowOKKept DEF IInv
 <2>2. RunOK(d)'
  <3>1. CASE d = c
    BY <1>4, <1>5, <1>7, <3>1 DEF RunOK
  <3>2. CASE d # c
    BY <1>7, <1>9, <3>2, RunKept DEF IInv
  <3>3. QED
    BY <3>1, <3>2
 <2>3. GivenOK(d)'
  <3>1. CASE d = c
   <4>1. GivenOK(d) /\ row[d].st = "none"
     BY <1>3, <3>1 DEF IInv
   <4>2. Marking(d)' = Marking(d) /\ InFlight(d)' = InFlight(d)
     BY <1>1 DEF Marking, InFlight
   <4>3. Marking(d) # {} => FALSE
     BY <4>1 DEF IInv, RequestOK, Marking, Won
   <4>4. row'[d].st = "pending" /\ given'[d] = given[d]
     BY <1>1, <1>5, <1>7, <3>1
   <4>5. QED
     BY <4>1, <4>2, <4>3, <4>4 DEF GivenOK
  <3>2. CASE d # c
    BY <1>1, <1>7, <3>2, GivenKept DEF IInv
  <3>3. QED
    BY <3>1, <3>2
 <2>4. QED
   BY <2>1, <2>2, <2>3
<1>12. \A g \in Pages : PageOK(g)'
 <2> SUFFICES ASSUME NEW g \in Pages
              PROVE  PageOK(g)'
   OBVIOUS
 <2>1. CASE page[g].at = "idle"
   BY <1>1, <2>1 DEF PageOK
 <2>2. CASE page[g].at # "idle"
   BY <1>1, <1>9, <2>2, PageOKKept DEF IInv
 <2>3. QED
   BY <2>1, <2>2
<1>13. \A p \in Polls : RequestOK(p)'
  BY <1>1, <1>9, RequestKept DEF IInv
<1>14. QED
  BY <1>8, <1>11, <1>12, <1>13 DEF IInv

LEMMA OwnRunStep ==
    ASSUME IInv, NEW c \in Codes, Finish(c) \/ Deadline(c) \/ BrowserCloses(c) \/ Save(c)
    PROVE  IInv'
<1>1. TypeOK /\ cli[c] \in CliStates /\ RunOK(c)
  BY Types DEF IInv
<1>2. UNCHANGED Rest /\ UNCHANGED req
  BY DEF Finish, Deadline, BrowserCloses, Save, Rest
<1>3. PICK at \in {"done", "saved", "failed", "unclaimed", "expired"} :
          /\ cli' = [cli EXCEPT ![c].at = at]
          /\ cli[c].at # "new" /\ (at \in {"done", "saved"} => cli[c].at \in {"held", "done"})
          /\ at \in {"unclaimed", "expired"} => cli[c].at = "wait"
 <2>1. CASE Finish(c)
   BY <2>1 DEF Finish
 <2>2. CASE Deadline(c)
   BY <1>1, <2>2 DEF Deadline
 <2>3. CASE BrowserCloses(c)
   BY <2>3 DEF BrowserCloses
 <2>4. CASE Save(c)
   BY <2>4 DEF Save
 <2>5. QED
   BY <2>1, <2>2, <2>3, <2>4
<1> DEFINE x == [cli[c] EXCEPT !.at = at]
<1>4. x \in CliStates /\ x.at = at /\ x.token = cli[c].token /\ x.acct = cli[c].acct
  BY <1>1 DEF CliStates, Ended
<1>5. cli' = [cli EXCEPT ![c] = x]
  BY <1>3
<1> HIDE DEF x
<1>6. cli'[c] = x
  BY <1>1, <1>4, <1>5, CliAfter
<1>7. RunOK(c)'
  BY <1>1, <1>2, <1>3, <1>4, <1>6 DEF RunOK, Rest
<1>8. QED
  BY <1>2, <1>4, <1>5, <1>7, RunStep

(* An answer carries the claim its row still holds. *)
LEMMA AnswerStep ==
    ASSUME IInv, NEW p \in Polls, Answer(p) \/ Lose(p)
    PROVE  IInv'
<1>0. PICK c \in Codes : c = req[p].code
  BY DEF IInv, Answer, Lose, RequestOK
<1>1. /\ TypeOK /\ req[p].at = "answer" /\ c = req[p].code /\ RequestOK(p) /\ RunOK(c)
      /\ cli \in [Codes -> CliStates] /\ cli[c] \in CliStates /\ req[p] \in ReqStates
  BY <1>0, Types DEF IInv, Answer, Lose
<1>2. UNCHANGED Rest /\ req' = [req EXCEPT ![p] = NoRequest]
  BY DEF Answer, Lose, Rest
<1>3. PICK x \in {Heard(c, req[p]), cli[c], [cli[c] EXCEPT !.at = "failed"]} :
          /\ cli' = [cli EXCEPT ![c] = x]
          /\ x = cli[c] \/ cli[c].at = "wait"
 <2>1. CASE Answer(p)
  <3>1. cli' = [cli EXCEPT ![c] = Heard(c, req[p])]
    BY <1>1, <2>1 DEF Answer
  <3>2. cli[c].at # "wait" => Heard(c, req[p]) = cli[c]
    BY DEF Heard
  <3>3. QED
    BY <3>1, <3>2
 <2>2. CASE Lose(p)
  <3>1. CASE cli' = cli
   <4>1. cli' = [cli EXCEPT ![c] = cli[c]]
     BY <1>1, <3>1
   <4>2. QED
     BY <4>1
  <3>2. CASE cli[c].at = "wait" /\ cli' = [cli EXCEPT ![c].at = "failed"]
    BY <3>2
  <3>3. QED
    BY <1>1, <2>2, <3>1, <3>2 DEF Lose
 <2>3. QED
   BY <2>1, <2>2
<1>4. CASE x = cli[c]
 <2>1. cli'[c] = x /\ x \in CliStates
   BY <1>1, <1>3, <1>4, CliAfter
 <2>2. RunOK(c)'
   BY <1>1, <1>2, <1>4, <2>1 DEF RunOK, Rest
 <2>3. QED
   BY <1>1, <1>2, <1>3, <2>1, <2>2, RunStep
<1>5. CASE cli[c].at = "wait" /\ x = [cli[c] EXCEPT !.at = "failed"]
 <2>1. x \in CliStates /\ x.at = "failed"
   BY <1>1, <1>5 DEF CliStates, Ended
 <2>2. cli'[c] = x
   BY <1>1, <1>3, <2>1, CliAfter
 <2>3. RunOK(c)'
   BY <1>1, <1>2, <1>5, <2>1, <2>2 DEF RunOK, Rest
 <2>4. QED
   BY <1>1, <1>2, <1>3, <2>1, <2>3, RunStep
<1>6. CASE cli[c].at = "wait" /\ x = Heard(c, req[p]) /\ x # cli[c]
 <2>1. CASE req[p].answer = "expired"
  <3>1. x = [cli[c] EXCEPT !.at = "expired"]
    BY <1>6, <2>1 DEF Heard
  <3>2. x \in CliStates /\ x.at = "expired" /\ x.token = None
    BY <1>1, <1>6, <3>1 DEF CliStates, Ended, RunOK
  <3>3. cli'[c] = x
    BY <1>1, <1>3, <3>2, CliAfter
  <3>4. RunOK(c)'
    BY <1>1, <1>2, <1>6, <3>2, <3>3 DEF RunOK, Rest
  <3>5. QED
    BY <1>1, <1>2, <1>3, <3>2, <3>4, RunStep
 <2>2. CASE req[p].answer = "claimed"
  <3>1. PICK at \in {"done", "held"} :
            x = [cli[c] EXCEPT !.at = at, !.token = req[p].raw, !.acct = req[p].acct]
    BY <1>6, <2>2 DEF Heard
  <3>2. /\ x \in CliStates /\ x.at = at /\ x.token = req[p].raw /\ x.acct = req[p].acct
    BY <1>1, <3>1 DEF CliStates, ReqStates
  <3>3. cli'[c] = x
    BY <1>1, <1>3, <3>2, CliAfter
  <3>4. /\ row[c].st = "delivered" /\ req[p].acct = row[c].acct /\ req[p].raw = row[c].raw
    BY <1>1, <2>2 DEF RequestOK
  <3>5. RunOK(c)'
    BY <1>2, <3>2, <3>3, <3>4 DEF RunOK, Rest, Won
  <3>6. QED
    BY <1>1, <1>2, <1>3, <3>2, <3>5, RunStep
 <2>3. req[p].answer \in {"expired", "claimed"}
   BY <1>1, <1>6 DEF ReqStates, RequestOK, Heard
 <2>4. QED
   BY <2>1, <2>2, <2>3
<1>7. QED
  BY <1>3, <1>4, <1>5, <1>6

-----------------------------------------------------------------------------
(* The status requests. *)

(* A step of one request, in place or at its start. *)
LEMMA RequestStep ==
    ASSUME IInv, NEW p \in Polls, NEW x \in ReqStates, req' = [req EXCEPT ![p] = x],
           UNCHANGED <<row, dead, machine, sess, alive, cli, page, given>>,
           RequestOK(p)', \A c \in Codes : GivenOK(c)'
    PROVE  IInv'
<1>1. TypeOK /\ req \in [Polls -> ReqStates]
  BY Types DEF IInv
<1>2. req' \in [Polls -> ReqStates] /\ \A q \in Polls : q # p => req'[q] = req[q]
  BY <1>1
<1>3. TypeOK'
  BY <1>1, <1>2 DEF TypeOK, ReqStates
<1>4. \A c \in Codes : RowKept(c)
  BY DEF RowKept
<1>5. \A c \in Codes : RowOK(c)' /\ RunOK(c)'
  BY DEF IInv, RowOK, RunOK
<1>6. \A g \in Pages : PageOK(g)'
  BY DEF IInv, PageOK
<1>7. \A q \in Polls : RequestOK(q)'
  BY <1>2, <1>4, RequestKept DEF IInv
<1>8. QED
  BY <1>3, <1>5, <1>6, <1>7 DEF IInv

(* A request that keeps its code and marks nothing leaves every count. *)
LEMMA SameCounts ==
    ASSUME IInv, NEW p \in Polls, NEW x \in ReqStates, req' = [req EXCEPT ![p] = x],
           UNCHANGED <<row, given>>, x.code = req[p].code, req[p].at # "idle",
           x.at # "mark", req[p].at # "mark", NEW c \in Codes
    PROVE  GivenOK(c)'
<1>1. TypeOK /\ req \in [Polls -> ReqStates]
  BY Types DEF IInv
<1>2. \A q \in Polls : req'[q] = IF q = p THEN x ELSE req[q]
  BY <1>1
<1>3. QED
  BY <1>2, GivenKept DEF IInv

LEMMA SendStep ==
    ASSUME IInv, NEW p \in Polls, NEW c \in Codes, Send(p, c)
    PROVE  IInv'
<1> DEFINE x == [NoRequest EXCEPT !.at = "sent", !.code = c]
<1>1. /\ TypeOK /\ req \in [Polls -> ReqStates] /\ req[p].at = "idle" /\ cli[c].at = "wait"
      /\ Overlap \/ InFlight(c) = {}
  BY Types DEF IInv, Send
<1>2. x \in ReqStates /\ x.at = "sent" /\ x.code = c
  BY DEF NoRequest, ReqStates
<1>3. /\ req' = [req EXCEPT ![p] = x]
      /\ UNCHANGED <<row, dead, machine, sess, alive, cli, page, given>>
  BY DEF Send
<1> HIDE DEF x
<1>4. \A q \in Polls : req'[q] = IF q = p THEN x ELSE req[q]
  BY <1>1, <1>3
<1>5. row[c].st # "none"
  BY <1>1 DEF IInv, RunOK
<1>6. RequestOK(p)'
  BY <1>2, <1>3, <1>4, <1>5 DEF RequestOK
<1>7. ASSUME NEW d \in Codes
      PROVE  GivenOK(d)'
 <2>1. Marking(d)' = Marking(d) /\ GivenOK(d)
   BY <1>1, <1>2, <1>4 DEF Marking, IInv
 <2>2. ~Overlap => \A q, r \in InFlight(d)' : q = r
  <3>1. CASE d = c
    BY <1>1, <1>4, <3>1 DEF InFlight
  <3>2. CASE d # c
   <4>1. InFlight(d)' \subseteq InFlight(d)
     BY <1>2, <1>4, <3>2 DEF InFlight
   <4>2. QED
     BY <2>1, <4>1 DEF GivenOK
  <3>3. QED
    BY <3>1, <3>2
 <2>3. QED
   BY <1>3, <2>1, <2>2 DEF GivenOK
<1>8. QED
  BY <1>2, <1>3, <1>6, <1>7, RequestStep

LEMMA StatusStep ==
    ASSUME IInv, NEW p \in Polls, Status(p)
    PROVE  IInv'
<1>0. PICK c \in Codes : c = req[p].code
  BY DEF IInv, Status, RequestOK
<1>1. /\ TypeOK /\ req \in [Polls -> ReqStates] /\ req[p].at = "sent" /\ row[c] \in RowStates
      /\ row[c].st # "none" /\ RowOK(c)
  BY <1>0, Types DEF IInv, Status, RequestOK
<1>2. PICK x \in {[req[p] EXCEPT !.at = "answer", !.answer = "expired"],
                  [req[p] EXCEPT !.at = "answer", !.answer = "pending"],
                  [req[p] EXCEPT !.at = "deliver", !.acct = row[c].acct]} :
          /\ req' = [req EXCEPT ![p] = x]
          /\ x.at = "deliver" => row[c].st \in Won
 <2> DEFINE e == [req[p] EXCEPT !.at = "answer", !.answer = "expired"]
            f == [req[p] EXCEPT !.at = "answer", !.answer = "pending"]
            g == [req[p] EXCEPT !.at = "deliver", !.acct = row[c].acct]
 <2>1. e.at = "answer" /\ f.at = "answer" /\ req[p] \in ReqStates
   BY <1>1 DEF ReqStates
 <2>2. req' = [req EXCEPT ![p] = IF row[c].st = "delivered" \/ dead[c] THEN e
                                 ELSE IF row[c].st = "pending" THEN f ELSE g]
   BY <1>0 DEF Status
 <2>3. row[c].st \notin {"delivered", "pending"} => row[c].st \in Won
   BY <1>1 DEF RowStates, Won
 <2> HIDE DEF e, f, g
 <2>4. CASE row[c].st = "delivered" \/ dead[c]
   BY <2>1, <2>2, <2>4 DEF e
 <2>5. CASE ~(row[c].st = "delivered" \/ dead[c]) /\ row[c].st = "pending"
   BY <2>1, <2>2, <2>5 DEF f
 <2>6. CASE ~(row[c].st = "delivered" \/ dead[c]) /\ row[c].st # "pending"
   BY <2>1, <2>2, <2>3, <2>6 DEF g
 <2>7. QED
   BY <2>4, <2>5, <2>6
<1>3. UNCHANGED <<row, dead, machine, sess, alive, cli, page, given>>
  BY DEF Status
<1>4. /\ x \in ReqStates /\ x.code = c /\ x.at \in {"answer", "deliver"}
      /\ x.at = "answer" => x.answer \in {"expired", "pending"}
      /\ x.at = "deliver" => x.acct = row[c].acct
 <2>1. req[p] \in ReqStates /\ row[c].acct \in Accounts \cup {None}
   BY <1>1 DEF RowStates
 <2>2. QED
   BY <1>0, <1>2, <2>1 DEF ReqStates
<1>5. req'[p] = x
  BY <1>1, <1>2
<1>6. RequestOK(p)'
  BY <1>1, <1>2, <1>3, <1>4, <1>5 DEF RequestOK
<1>7. \A d \in Codes : GivenOK(d)'
  BY <1>0, <1>1, <1>2, <1>3, <1>4, SameCounts
<1>8. QED
  BY <1>2, <1>3, <1>4, <1>6, <1>7, RequestStep

LEMMA DeliverReadStep ==
    ASSUME IInv, NEW p \in Polls, DeliverRead(p)
    PROVE  IInv'
<1>0. PICK c \in Codes : c = req[p].code
  BY DEF IInv, DeliverRead, RequestOK
<1>1. /\ TypeOK /\ req \in [Polls -> ReqStates] /\ req[p].at = "deliver" /\ row[c] \in RowStates
      /\ row[c].st \in Won /\ req[p].acct = row[c].acct /\ req[p] \in ReqStates
  BY <1>0, Types DEF IInv, DeliverRead, RequestOK
<1>2. UNCHANGED <<row, dead, machine, sess, alive, cli, page, given>>
  BY DEF DeliverRead
<1>3. CASE row[c].st = "claimed"
 <2> DEFINE x == [req[p] EXCEPT !.at = "mark", !.raw = row[c].raw]
 <2>1. req' = [req EXCEPT ![p] = x]
   BY <1>0, <1>3 DEF DeliverRead
 <2>2. /\ x \in ReqStates /\ x.at = "mark" /\ x.code = c /\ x.raw = row[c].raw
       /\ x.acct = row[c].acct
   BY <1>0, <1>1 DEF ReqStates, RowStates
 <2> HIDE DEF x
 <2>3. \A q \in Polls : req'[q] = IF q = p THEN x ELSE req[q]
   BY <1>1, <2>1
 <2>4. RequestOK(p)'
   BY <1>1, <1>2, <2>2, <2>3 DEF RequestOK, Won
 <2>5. ASSUME NEW d \in Codes
       PROVE  GivenOK(d)'
  <3>1. CASE d = c
   <4>1. InFlight(d)' = InFlight(d)
     BY <1>0, <1>1, <2>2, <2>3 DEF InFlight
   <4>2. QED
     BY <1>2, <1>3, <3>1, <4>1 DEF GivenOK, IInv
  <3>2. CASE d # c
    BY <1>0, <1>1, <1>2, <2>2, <2>3, <3>2, GivenKept DEF IInv
  <3>3. QED
    BY <3>1, <3>2
 <2>6. QED
   BY <1>2, <2>1, <2>2, <2>4, <2>5, RequestStep
<1>4. CASE row[c].st # "claimed"
 <2> DEFINE x == [req[p] EXCEPT !.at = "answer", !.answer = "expired"]
 <2>1. req' = [req EXCEPT ![p] = x]
   BY <1>0, <1>4 DEF DeliverRead
 <2>2. x \in ReqStates /\ x.at = "answer" /\ x.code = c /\ x.answer = "expired"
   BY <1>0, <1>1 DEF ReqStates
 <2> HIDE DEF x
 <2>3. req'[p] = x
   BY <1>1, <2>1
 <2>4. RequestOK(p)'
   BY <1>1, <1>2, <2>2, <2>3 DEF RequestOK, Won
 <2>5. \A d \in Codes : GivenOK(d)'
   BY <1>0, <1>1, <1>2, <2>1, <2>2, SameCounts
 <2>6. QED
   BY <1>2, <2>1, <2>2, <2>4, <2>5, RequestStep
<1>5. QED
  BY <1>3, <1>4

LEMMA DeliverMarkStep ==
    ASSUME IInv, PairingAssumption, NEW p \in Polls, DeliverMark(p)
    PROVE  IInv'
<1>0. PICK c \in Codes : c = req[p].code
  BY DEF IInv, DeliverMark, RequestOK
<1> DEFINE x == [req[p] EXCEPT !.at = "answer", !.answer = "claimed"]
           r == [row[c] EXCEPT !.st = "delivered"]
           n == Cardinality(Polls)
<1>1. /\ TypeOK /\ req \in [Polls -> ReqStates] /\ row \in [Codes -> RowStates]
      /\ req[p].at = "mark" /\ row[c].st \in Won /\ req[p].acct = row[c].acct
      /\ req[p].raw = row[c].raw /\ req[p] \in ReqStates /\ row[c] \in RowStates
      /\ given \in [Codes -> 0 .. n] /\ GivenOK(c)
  BY <1>0, Types DEF IInv, DeliverMark, RequestOK, TypeOK
<1>2. /\ UNCHANGED <<dead, machine, sess, alive, cli, page>>
      /\ req' = [req EXCEPT ![p] = x] /\ row' = [row EXCEPT ![c] = r]
      /\ given' = [given EXCEPT ![c] = @ + 1]
 <2>1. req' = [req EXCEPT ![p].at = "answer", ![p].answer = "claimed"]
   BY DEF DeliverMark
 <2>2. req' = [req EXCEPT ![p] = x]
   BY <1>1, <2>1
 <2>3. QED
   BY <1>0, <2>2 DEF DeliverMark, Marked
<1>3. /\ x \in ReqStates /\ x.at = "answer" /\ x.answer = "claimed" /\ x.code = c
      /\ x.acct = row[c].acct /\ x.raw = row[c].raw
  BY <1>0, <1>1 DEF ReqStates
<1>4. r \in RowStates /\ r.st = "delivered" /\ r.acct = row[c].acct /\ r.raw = row[c].raw
  BY <1>1 DEF RowStates
<1> HIDE DEF x, r
<1>5. /\ req' \in [Polls -> ReqStates] /\ row' \in [Codes -> RowStates]
      /\ \A q \in Polls : req'[q] = IF q = p THEN x ELSE req[q]
      /\ \A d \in Codes : row'[d] = IF d = c THEN r ELSE row[d]
      /\ given'[c] = given[c] + 1 /\ \A d \in Codes : d # c => given'[d] = given[d]
      /\ given[c] \in 0 .. n
  BY <1>1, <1>2, <1>3, <1>4
<1>6. \A d \in Codes : RowKept(d)
  BY <1>1, <1>4, <1>5 DEF RowKept, Won
(* The request leaves the marking ones, one answer is given. *)
<1>7. /\ Marking(c)' = Marking(c) \ {p} /\ p \in Marking(c)
      /\ IsFiniteSet(Marking(c)) /\ Cardinality(Marking(c)) \in Nat /\ n \in Nat
      /\ Cardinality(Marking(c)') = Cardinality(Marking(c)) - 1
      /\ Cardinality(Marking(c)) <= n /\ Cardinality(Marking(c)') \in Nat
 <2>1. Marking(c)' = Marking(c) \ {p} /\ p \in Marking(c)
   BY <1>0, <1>1, <1>3, <1>5 DEF Marking
 <2>2. IsFiniteSet(Polls) /\ Marking(c) \subseteq Polls
   BY DEF PairingAssumption, Marking
 <2>3. IsFiniteSet(Marking(c)) /\ Cardinality(Marking(c)) <= n
   BY <2>2, FS_Subset
 <2>4. Cardinality(Marking(c)) \in Nat /\ n \in Nat
   BY <2>2, <2>3, FS_CardinalityType
 <2>5. /\ IsFiniteSet(Marking(c) \ {p})
       /\ Cardinality(Marking(c) \ {p}) = Cardinality(Marking(c)) - 1
   BY <2>1, <2>3, FS_RemoveElement
 <2>6. Cardinality(Marking(c) \ {p}) \in Nat
   BY <2>5, FS_CardinalityType
 <2>7. QED
   BY <2>1, <2>3, <2>4, <2>5, <2>6
<1>8. given'[c] + Cardinality(Marking(c)') <= n
 <2>1. CASE row[c].st = "delivered"
  <3>1. given[c] + Cardinality(Marking(c)) <= n
    BY <1>1, <2>1 DEF GivenOK
  <3>2. QED
    BY <1>5, <1>7, <3>1
 <2>2. CASE row[c].st # "delivered"
  <3>1. given[c] = 0
    BY <1>1, <2>2 DEF GivenOK
  <3>2. QED
    BY <1>5, <1>7, <3>1
 <2>3. QED
   BY <2>1, <2>2
<1>9. given' \in [Codes -> 0 .. n]
 <2>1. given'[c] \in 0 .. n
   BY <1>5, <1>7, <1>8
 <2>2. QED
   BY <1>1, <1>2, <1>5, <2>1
<1>10. TypeOK'
  BY <1>1, <1>2, <1>5, <1>9 DEF TypeOK, ReqStates, RowStates
<1>11. \A g \in Pages : PageKept(g)
  BY <1>2 DEF PageKept
<1>12. ASSUME NEW d \in Codes
       PROVE  RowOK(d)' /\ RunOK(d)' /\ GivenOK(d)'
 <2>1. RowOK(d)'
  <3>1. /\ row'[d].st \in Won <=> row[d].st \in Won
        /\ row'[d].acct = row[d].acct /\ row'[d].raw = row[d].raw
    BY <1>1, <1>4, <1>5 DEF Won
  <3>2. QED
    BY <1>2, <1>11, <3>1, RowOKKept DEF IInv
 <2>2. RunOK(d)'
  <3>1. row[d].st = "none" => d # c
    BY <1>1 DEF Won
  <3>2. cli[d].at = "new" => row'[d] = row[d]
    BY <1>5, <3>1 DEF IInv, RunOK
  <3>3. QED
    BY <1>2, <1>6, <3>2, RunKept DEF IInv
 <2>3. GivenOK(d)'
  <3>1. CASE d = c
   <4>1. row'[c].st = "delivered"
     BY <1>4, <1>5
   <4>2. ASSUME ~Overlap
         PROVE  /\ given'[c] <= 1 /\ Marking(c)' = {}
                /\ \A q, s \in InFlight(c)' : q = s
    <5>1. /\ row[c].st = "claimed" /\ \A q, s \in InFlight(c) : q = s
      BY <1>1, <1>7, <4>2 DEF GivenOK
    <5>2. given'[c] <= 1
      BY <1>1, <1>5, <5>1 DEF GivenOK
    <5>3. Marking(c) \subseteq InFlight(c) /\ InFlight(c)' = InFlight(c)
      BY <1>0, <1>1, <1>3, <1>5 DEF InFlight, Marking
    <5>4. QED
      BY <1>7, <5>1, <5>2, <5>3
   <4>3. QED
     BY <1>8, <3>1, <4>1, <4>2 DEF GivenOK
  <3>2. CASE d # c
    BY <1>0, <1>1, <1>3, <1>5, <3>2, GivenKept DEF IInv
  <3>3. QED
    BY <3>1, <3>2
 <2>4. QED
   BY <2>1, <2>2, <2>3
<1>13. \A g \in Pages : PageOK(g)'
 <2> SUFFICES ASSUME NEW g \in Pages
              PROVE  PageOK(g)'
   OBVIOUS
 <2>1. CASE page[g].at = "idle"
   BY <1>2, <2>1 DEF PageOK
 <2>2. CASE page[g].at # "idle"
   BY <1>2, <1>6, <2>2, PageOKKept DEF IInv
 <2>3. QED
   BY <2>1, <2>2
<1>14. ASSUME NEW q \in Polls
       PROVE  RequestOK(q)'
 <2>1. CASE q = p
   BY <1>3, <1>4, <1>5, <2>1 DEF RequestOK
 <2>2. CASE q # p
   BY <1>5, <1>6, <2>2, RequestKept DEF IInv
 <2>3. QED
   BY <2>1, <2>2
<1>15. QED
  BY <1>10, <1>12, <1>13, <1>14 DEF IInv

-----------------------------------------------------------------------------
(* The pages, the account's side, and time. *)

(* Rows, requests, runs and pages stay. *)
LEMMA OtherStep ==
    ASSUME IInv, TypeOK', UNCHANGED <<row, req, cli, page, given>>,
           \A c \in Codes : machine'[c] \in Accounts => row[c].acct = machine'[c]
    PROVE  IInv'
<1>1. \A c \in Codes : RowOK(c)' /\ RunOK(c)'
  BY DEF IInv, RowOK, RunOK
<1>2. \A c \in Codes : GivenOK(c)'
  BY GivenKept DEF IInv
<1>3. (\A g \in Pages : PageOK(g)') /\ (\A p \in Polls : RequestOK(p)')
  BY DEF IInv, PageOK, RequestOK
<1>4. QED
  BY <1>1, <1>2, <1>3 DEF IInv

(* A page moves; it may mint its session or bind the machine of its code. *)
LEMMA PageStep ==
    ASSUME IInv, NEW g \in Pages, NEW x \in PageStates, page' = [page EXCEPT ![g] = x],
           UNCHANGED <<row, req, cli, given>>, TypeOK', PageOK(g)', PageKept(g),
           \A c \in Codes : machine'[c] \in Accounts => row[c].acct = machine'[c]
    PROVE  IInv'
<1>1. TypeOK /\ page \in [Pages -> PageStates]
  BY Types DEF IInv
<1>2. \A h \in Pages : h # g => page'[h] = page[h]
  BY <1>1
<1>3. \A h \in Pages : PageKept(h)
  BY <1>2 DEF PageKept
<1>4. ASSUME NEW c \in Codes
      PROVE  RowOK(c)' /\ RunOK(c)' /\ GivenOK(c)'
 <2>1. CASE row[c].st \in Won
  <3>1. /\ row[c].raw \in Pages /\ page[row[c].raw].at \in {"won", "told"}
        /\ page[row[c].raw].code = c /\ page[row[c].raw].acct = row[c].acct
    BY <2>1 DEF IInv, RowOK
  <3>2. PageKept(row[c].raw)
    BY <1>3, <3>1
  <3>3. RowOK(c)'
    BY <2>1, <3>1, <3>2 DEF RowOK, PageKept
  <3>4. QED
    BY <3>3, GivenKept DEF IInv, RunOK
 <2>2. CASE row[c].st \notin Won
   BY <2>2, GivenKept DEF IInv, RunOK, RowOK
 <2>3. QED
   BY <2>1, <2>2
<1>5. \A h \in Pages : PageOK(h)'
  BY <1>2 DEF IInv, PageOK
<1>6. \A p \in Polls : RequestOK(p)'
  BY DEF IInv, RequestOK
<1>7. QED
  BY <1>4, <1>5, <1>6 DEF IInv

LEMMA FindStep ==
    ASSUME IInv, NEW g \in Pages, NEW c \in Codes, NEW a \in Accounts, Find(g, c, a)
    PROVE  IInv'
<1>1. TypeOK /\ page \in [Pages -> PageStates] /\ page[g].at = "idle" /\ row[c].st # "none"
  BY Types DEF IInv, Find
<1>2. PICK at \in {"found", "refused"} :
          page' = [page EXCEPT ![g] = [at |-> at, code |-> c, acct |-> a]]
  BY DEF Find
<1> DEFINE x == [at |-> at, code |-> c, acct |-> a]
<1>3. x \in PageStates /\ x.at = at /\ x.code = c /\ x.acct = a
  BY DEF PageStates
<1>4. page' = [page EXCEPT ![g] = x]
      /\ UNCHANGED <<row, dead, machine, sess, alive, req, cli, given>>
  BY <1>2 DEF Find
<1> HIDE DEF x
<1>5. page' \in [Pages -> PageStates] /\ page'[g] = x
  BY <1>1, <1>3, <1>4
<1>6. TypeOK'
  BY <1>1, <1>4, <1>5 DEF TypeOK, PageStates
<1>7. PageOK(g)'
  BY <1>1, <1>3, <1>4, <1>5 DEF PageOK
<1>8. PageKept(g)
  BY <1>1 DEF PageKept
<1>9. \A d \in Codes : machine'[d] \in Accounts => row[d].acct = machine'[d]
  BY <1>4 DEF IInv, RowOK
<1>10. QED
  BY <1>3, <1>4, <1>6, <1>7, <1>8, <1>9, PageStep

(* A page that moves on, not to a claim, knows its code still. *)
LEMMA MovedPage ==
    ASSUME IInv, NEW g \in Pages, page[g].at \notin {"idle", "won", "told"},
           NEW at \in {"minted", "refused", "installed", "expired", "failed"},
           page' = [page EXCEPT ![g].at = at],
           UNCHANGED <<row, dead, machine, alive, req, cli, given>>,
           sess' \in [Pages -> {"none", "active", "revoked", "erased"}]
    PROVE  IInv'
<1> DEFINE x == [page[g] EXCEPT !.at = at]
<1>1. TypeOK /\ page \in [Pages -> PageStates] /\ page[g] \in PageStates
  BY Types DEF IInv
<1>2. x \in PageStates /\ x.at = at /\ x.code = page[g].code /\ x.acct = page[g].acct
  BY <1>1 DEF PageStates
<1>3. page' = [page EXCEPT ![g] = x]
  OBVIOUS
<1> HIDE DEF x
<1>4. page' \in [Pages -> PageStates] /\ page'[g] = x
  BY <1>1, <1>2, <1>3
<1>5. TypeOK'
  BY <1>1, <1>4 DEF TypeOK, PageStates
<1>6. PageOK(g)'
  BY <1>2, <1>4 DEF IInv, PageOK
<1>7. PageKept(g)
  BY <1>2, <1>4 DEF PageKept
<1>8. \A d \in Codes : machine'[d] \in Accounts => row[d].acct = machine'[d]
  BY DEF IInv, RowOK
<1>9. QED
  BY <1>2, <1>3, <1>5, <1>6, <1>7, <1>8, PageStep

LEMMA MintLookStep ==
    ASSUME IInv, NEW g \in Pages, Mint(g) \/ Look(g)
    PROVE  IInv'
<1>1. TypeOK
  BY DEF IInv
<1>2. CASE Mint(g)
 <2>1. /\ page[g].at = "found" /\ UNCHANGED <<row, dead, machine, alive, req, cli, given>>
       /\ sess' \in [Pages -> {"none", "active", "revoked", "erased"}]
       /\ \E at \in {"minted", "failed"} : page' = [page EXCEPT ![g].at = at]
   BY <1>1, <1>2 DEF Mint, TypeOK
 <2>2. QED
   BY <2>1, MovedPage
<1>3. CASE Look(g)
 <2>1. /\ page[g].at = "refused" /\ UNCHANGED <<row, dead, machine, sess, alive, req, cli, given>>
       /\ \E at \in {"installed", "expired", "failed"} : page' = [page EXCEPT ![g].at = at]
   BY <1>3 DEF Look
 <2>2. sess' \in [Pages -> {"none", "active", "revoked", "erased"}]
   BY <1>1, <2>1 DEF TypeOK
 <2>3. QED
   BY <2>1, <2>2, MovedPage
<1>4. QED
  BY <1>2, <1>3

(* Binding puts the account that won the code on its machine token. *)
LEMMA BindStep ==
    ASSUME IInv, NEW g \in Pages, NEW fails \in BOOLEAN, Bind(g, fails)
    PROVE  IInv'
<1> DEFINE x == [page[g] EXCEPT !.at = "told"]
<1>0. PICK c \in Codes : c = page[g].code
  BY DEF IInv, Bind, BoundBy, PageOK
<1>1. /\ TypeOK /\ page \in [Pages -> PageStates] /\ page[g] \in PageStates
      /\ page[g].at = "won" /\ page[g].acct \in Accounts /\ row[c].acct = page[g].acct
  BY <1>0, Types DEF IInv, Bind, BoundBy, PageOK
<1>2. x \in PageStates /\ x.at = "told" /\ x.code = page[g].code /\ x.acct = page[g].acct
  BY <1>1 DEF PageStates
<1>3. /\ page' = [page EXCEPT ![g] = x] /\ UNCHANGED <<row, dead, sess, alive, req, cli, given>>
      /\ machine' = machine \/ machine' = [machine EXCEPT ![c] = page[g].acct]
  BY <1>0, <1>1 DEF Bind
<1> HIDE DEF x
<1>4. page' \in [Pages -> PageStates] /\ page'[g] = x
  BY <1>1, <1>2, <1>3
<1>5. /\ machine' \in [Codes -> Accounts \cup {None, "deleted"}]
      /\ \A d \in Codes : machine'[d] = machine[d] \/ (d = c /\ machine'[d] = row[d].acct)
  BY <1>1, <1>3 DEF TypeOK
<1>6. TypeOK'
  BY <1>1, <1>3, <1>4, <1>5 DEF TypeOK, PageStates
<1>7. PageOK(g)'
  BY <1>1, <1>2, <1>3, <1>4 DEF IInv, PageOK
<1>8. PageKept(g)
  BY <1>2, <1>4 DEF PageKept
<1>9. \A d \in Codes : machine'[d] \in Accounts => row[d].acct = machine'[d]
  BY <1>5 DEF IInv, RowOK
<1>10. QED
  BY <1>2, <1>3, <1>6, <1>7, <1>8, <1>9, PageStep

(* The conditional update: of the pages that found the code pending, one. *)
LEMMA ClaimStep ==
    ASSUME IInv, PairingAssumption, NEW g \in Pages, Claim(g)
    PROVE  IInv'
<1>0. PICK c \in Codes : c = page[g].code
  BY DEF IInv, Claim, PageOK
<1>1. /\ TypeOK /\ page \in [Pages -> PageStates] /\ page[g] \in PageStates
      /\ page[g].at = "minted" /\ page[g].acct \in Accounts /\ row \in [Codes -> RowStates]
  BY <1>0, Types DEF IInv, Claim, PageOK
<1>2. CASE ~Claimable(row[c])
 <2>1. /\ page' = [page EXCEPT ![g].at = "refused"]
       /\ UNCHANGED <<row, dead, machine, sess, alive, req, cli, given>>
   BY <1>0, <1>2 DEF Claim
 <2>2. sess' \in [Pages -> {"none", "active", "revoked", "erased"}]
   BY <1>1, <2>1 DEF TypeOK
 <2>3. QED
   BY <1>1, <2>1, <2>2, MovedPage
<1>3. CASE Claimable(row[c])
 <2> DEFINE x == [page[g] EXCEPT !.at = "won"]
            r == [st |-> "claimed", acct |-> page[g].acct, raw |-> g]
 <2>1. /\ page' = [page EXCEPT ![g] = x] /\ row' = [row EXCEPT ![c] = r]
       /\ UNCHANGED <<dead, machine, sess, alive, req, cli, given>> /\ row[c].st = "pending"
   BY <1>0, <1>3 DEF Claim, Claimable
 <2>2. x \in PageStates /\ x.at = "won" /\ x.code = c /\ x.acct = page[g].acct
   BY <1>0, <1>1 DEF PageStates
 <2>3. r \in RowStates /\ r.st = "claimed" /\ r.acct = page[g].acct /\ r.raw = g
   BY <1>1 DEF RowStates
 <2> HIDE DEF x, r
 <2>4. /\ page' \in [Pages -> PageStates] /\ row' \in [Codes -> RowStates]
       /\ page'[g] = x /\ \A h \in Pages : h # g => page'[h] = page[h]
       /\ row'[c] = r /\ \A d \in Codes : d # c => row'[d] = row[d]
   BY <1>1, <2>1, <2>2, <2>3
 <2>5. TypeOK'
   BY <1>1, <2>1, <2>4 DEF TypeOK, RowStates, PageStates
 <2>6. \A d \in Codes : RowKept(d)
   BY <2>1, <2>3, <2>4 DEF RowKept, Won
 <2>7. \A h \in Pages : PageKept(h)
   BY <1>0, <1>1, <2>2, <2>4 DEF PageKept
 <2>8. machine[c] \notin Accounts
   BY <2>1 DEF IInv, RowOK, Won, PairingAssumption
 <2>9. ASSUME NEW d \in Codes
       PROVE  RowOK(d)' /\ RunOK(d)' /\ GivenOK(d)'
  <3>1. CASE d = c
   <4>1. RowOK(c)'
     BY <2>1, <2>2, <2>3, <2>4, <2>8 DEF RowOK, Won
   <4>2. RunOK(c)'
    <5>1. RunOK(c)
      BY DEF IInv
    <5>2. cli[c].at \notin {"new", "held", "done", "saved"}
      BY <2>1, <5>1 DEF RunOK, Won
    <5>3. QED
      BY <2>1, <2>3, <2>4, <5>1, <5>2 DEF RunOK
   <4>3. GivenOK(c)'
    <5>1. GivenOK(c) /\ given[c] = 0
      BY <2>1 DEF IInv, GivenOK
    <5>2. Marking(c)' = Marking(c) /\ InFlight(c)' = InFlight(c)
      BY <2>1 DEF Marking, InFlight
    <5>3. row'[c].st = "claimed" /\ given'[c] = given[c]
      BY <2>1, <2>3, <2>4
    <5>4. QED
      BY <5>1, <5>2, <5>3 DEF GivenOK
   <4>4. QED
     BY <3>1, <4>1, <4>2, <4>3
  <3>2. CASE d # c
   <4>1. row'[d] = row[d]
     BY <2>4, <3>2
   <4>2. RowOK(d)'
     BY <2>1, <2>7, <4>1, RowOKKept DEF IInv
   <4>3. RunOK(d)'
     BY <2>1, <2>6, <4>1, RunKept DEF IInv
   <4>4. GivenOK(d)'
     BY <2>1, <4>1, GivenKept DEF IInv
   <4>5. QED
     BY <4>2, <4>3, <4>4
  <3>3. QED
    BY <3>1, <3>2
 <2>10. ASSUME NEW h \in Pages
        PROVE  PageOK(h)'
  <3>1. CASE h = g
    BY <1>1, <2>2, <2>3, <2>4, <3>1 DEF PageOK, Won
  <3>2. CASE h # g /\ page[h].at = "idle"
    BY <2>4, <3>2 DEF PageOK
  <3>3. CASE h # g /\ page[h].at # "idle"
    BY <2>4, <2>6, <3>3, PageOKKept DEF IInv
  <3>4. QED
    BY <3>1, <3>2, <3>3
 <2>11. \A p \in Polls : RequestOK(p)'
   BY <2>1, <2>6, RequestKept DEF IInv
 <2>12. QED
   BY <2>5, <2>9, <2>10, <2>11 DEF IInv
<1>4. QED
  BY <1>2, <1>3

LEMMA AccountStep ==
    ASSUME IInv, PairingAssumption,
           \/ \E g \in Pages : Revoke(g)
           \/ \E a \in Accounts : EraseMachines(a) \/ EraseAccount(a)
           \/ \E c \in Codes : Expire(c)
    PROVE  IInv'
<1>1. TypeOK /\ \A c \in Codes : machine[c] \in Accounts => row[c].acct = machine[c]
  BY DEF IInv, RowOK
<1>2. ASSUME NEW g \in Pages, Revoke(g)
      PROVE  IInv'
  BY <1>1, <1>2, OtherStep DEF Revoke, TypeOK
<1>3. ASSUME NEW a \in Accounts, EraseMachines(a)
      PROVE  IInv'
 <2>1. /\ machine' \in [Codes -> Accounts \cup {None, "deleted"}]
       /\ \A c \in Codes : machine'[c] \in Accounts => machine'[c] = machine[c]
       /\ alive' \in [Accounts -> {"alive", "erasing", "erased"}]
       /\ UNCHANGED <<row, dead, sess, req, cli, page, given>>
   BY <1>1, <1>3 DEF EraseMachines, TypeOK, PairingAssumption
 <2>2. TypeOK'
   BY <1>1, <2>1 DEF TypeOK
 <2>3. QED
   BY <1>1, <2>1, <2>2, OtherStep
<1>4. ASSUME NEW a \in Accounts, EraseAccount(a)
      PROVE  IInv'
 <2>1. /\ sess' \in [Pages -> {"none", "active", "revoked", "erased"}]
       /\ alive' \in [Accounts -> {"alive", "erasing", "erased"}]
       /\ UNCHANGED <<row, dead, machine, req, cli, page, given>>
   BY <1>1, <1>4 DEF EraseAccount, TypeOK
 <2>2. TypeOK'
   BY <1>1, <2>1 DEF TypeOK
 <2>3. QED
   BY <1>1, <2>1, <2>2, OtherStep
<1>5. ASSUME NEW c \in Codes, Expire(c)
      PROVE  IInv'
  BY <1>1, <1>5, OtherStep DEF Expire, TypeOK
<1>6. QED
  BY <1>2, <1>3, <1>4, <1>5

-----------------------------------------------------------------------------
LEMMA StepKeeps ==
    ASSUME IInv, PairingAssumption, [Next]_vars
    PROVE  IInv'
<1>1. CASE UNCHANGED vars
 <2>1. UNCHANGED <<row, dead, machine, sess, alive, req, cli, page, given>>
   BY <1>1 DEF vars
 <2>2. TypeOK'
   BY <2>1 DEF IInv, TypeOK
 <2>3. QED
   BY <2>1, <2>2, OtherStep DEF IInv, RowOK
<1>2. ASSUME NEW c \in Codes,
             \/ \E skip \in BOOLEAN : Initiate(c, skip)
             \/ \E p \in Polls : Send(p, c)
             \/ Finish(c) \/ Deadline(c) \/ BrowserCloses(c) \/ Save(c)
             \/ Expire(c)
      PROVE  IInv'
  BY <1>2, InitiateStep, SendStep, OwnRunStep, AccountStep
<1>3. ASSUME NEW p \in Polls, Serve(p) \/ Lose(p)
      PROVE  IInv'
  BY <1>3, StatusStep, DeliverReadStep, DeliverMarkStep, AnswerStep DEF Serve
<1>4. ASSUME NEW g \in Pages,
             \/ \E c \in Codes, a \in Accounts : Find(g, c, a)
             \/ Mint(g) \/ Claim(g) \/ Look(g) \/ Revoke(g)
             \/ \E fails \in BOOLEAN : Bind(g, fails)
      PROVE  IInv'
  BY <1>4, FindStep, MintLookStep, ClaimStep, BindStep, AccountStep
<1>5. ASSUME NEW a \in Accounts, EraseMachines(a) \/ EraseAccount(a)
      PROVE  IInv'
  BY <1>5, AccountStep
<1>6. QED
  BY <1>1, <1>2, <1>3, <1>4, <1>5 DEF Next

LEMMA InitKeeps ==
    ASSUME Init, PairingAssumption
    PROVE  IInv
<1>1. IsFiniteSet(Polls) /\ Cardinality(Polls) \in Nat
  BY FS_CardinalityType DEF PairingAssumption
<1>2. TypeOK
  BY <1>1 DEF Init, TypeOK, NoRequest, Ended
<1>3. ASSUME NEW c \in Codes
      PROVE  RowOK(c) /\ RunOK(c) /\ GivenOK(c)
 <2>1. RowOK(c) /\ RunOK(c)
   BY DEF Init, RowOK, RunOK, Won, PairingAssumption
 <2>2. Marking(c) = {} /\ InFlight(c) = {} /\ given[c] = 0 /\ row[c].st = "none"
   BY DEF Init, Marking, InFlight, NoRequest
 <2>3. QED
   BY <2>1, <2>2 DEF GivenOK
<1>4. (\A g \in Pages : PageOK(g)) /\ (\A p \in Polls : RequestOK(p))
  BY DEF Init, PageOK, RequestOK, NoRequest
<1>5. QED
  BY <1>2, <1>3, <1>4 DEF IInv

(* Every reachable state satisfies the inductive invariant: a code that was *)
(* claimed stays with the page that won it, requests and runs carry what    *)
(* its row holds, and a lone caller marks it once.                          *)
THEOREM PairingIsSound == PairingAssumption => (Spec => []IInv)
<1> SUFFICES ASSUME PairingAssumption
             PROVE  Spec => []IInv
  OBVIOUS
<1>1. Init => IInv
  BY InitKeeps
<1>2. IInv /\ [Next]_vars => IInv'
  BY StepKeeps
<1>3. QED
  BY <1>1, <1>2, PTL DEF Spec

(* The promises of the handshake: the page told of its success is the one   *)
(* bound, a run saves one page's claim of its code, a machine is paired to  *)
(* that account, a token taken in time is saved, and handed out once.       *)
THEOREM PairingIsSafe == PairingAssumption => (Spec => []PairingSafe)
<1> SUFFICES ASSUME PairingAssumption
             PROVE  Spec => []PairingSafe
  OBVIOUS
<1>1. IInv => PairingSafe
 <2> SUFFICES ASSUME IInv
              PROVE  PairingSafe
   OBVIOUS
 <2>1. TypeOK /\ ToldIsBound
   BY DEF IInv, PageOK, ToldIsBound
 <2>2. SavedMatches
  <3> SUFFICES ASSUME NEW c \in Codes, cli[c].at = "saved"
               PROVE  page[cli[c].token].code = c /\ page[cli[c].token].acct = cli[c].acct
    BY DEF SavedMatches
  <3>1. row[c].st \in Won /\ cli[c].token = row[c].raw /\ cli[c].acct = row[c].acct
    BY DEF IInv, RunOK
  <3>2. QED
    BY <3>1 DEF IInv, RowOK
 <2>3. MachineFollowsClaim /\ TakenIsSaved
   BY DEF IInv, RowOK, RunOK, MachineFollowsClaim, TakenIsSaved
 <2>4. ~Overlap => DeliveredOnce
   BY DEF IInv, GivenOK, DeliveredOnce
 <2>5. QED
   BY <2>1, <2>2, <2>3, <2>4 DEF PairingSafe
<1>2. QED
  BY <1>1, PairingIsSound, PTL

-----------------------------------------------------------------------------
(* The sign-in of the web application. *)

(* An account keeps the number it was made with, and an email's next one is *)
(* new.                                                                     *)
Numbered == \A a \in accounts : a[2] <= gen[a[1]]

(* A sign-in knows its identity once it has left, and one about to open a   *)
(* session has the account the identity is bound to, or one that is gone.   *)
Traced ==
    \A t \in Tabs :
        /\ tab[t].at # "idle" => tab[t].i \in Identities
        /\ tab[t].at = "issue" =>
              /\ tab[t].acct \in Ids /\ tab[t].acct[2] <= gen[tab[t].acct[1]]
              /\ tab[t].acct \in accounts => ident[tab[t].i] = tab[t].acct

SignInInv == SignInTypeOK /\ Numbered /\ Traced /\ SessionsOfLiveAccounts

-----------------------------------------------------------------------------
Places == {"idle", "away", "lookup", "session", "email", "create", "bind", "issue", "in",
           "denied", "mismatch", "refused", "failed"}
TabStates == [at : Places, i : Identities \cup {Nobody}, auth : Ids \cup {Nobody},
              acct : Ids \cup {Nobody}]

LEMMA TabType == SignInTypeOK => tab \in [Tabs -> TabStates]
BY DEF SignInTypeOK, TabStates, Places

(* What a step makes of its sign-in. *)
LEMMA TabAfter ==
    ASSUME SignInTypeOK, NEW t \in Tabs, NEW x \in TabStates, tab' = [tab EXCEPT ![t] = x]
    PROVE  tab' \in [Tabs -> TabStates] /\ tab'[t] = x /\ \A u \in Tabs : u # t => tab'[u] = tab[u]
BY TabType

LEMMA GotoAfter ==
    ASSUME SignInTypeOK, NEW t \in Tabs, NEW at \in Places, Goto(t, at)
    PROVE  /\ tab' \in [Tabs -> TabStates] /\ \A u \in Tabs : u # t => tab'[u] = tab[u]
           /\ tab'[t].at = at /\ tab'[t].i = tab[t].i /\ tab'[t].acct = tab[t].acct
<1> DEFINE x == [tab[t] EXCEPT !.at = at]
<1>1. tab[t] \in TabStates
  BY TabType
<1>2. x \in TabStates /\ x.at = at /\ x.i = tab[t].i /\ x.acct = tab[t].acct
  BY <1>1 DEF TabStates
<1>3. tab' = [tab EXCEPT ![t] = x]
  BY TabType DEF Goto
<1> HIDE DEF x
<1>4. QED
  BY <1>2, <1>3, TabAfter

LEMMA GoWithAfter ==
    ASSUME SignInTypeOK, NEW t \in Tabs, NEW at \in Places, NEW a \in Ids \cup {Nobody},
           GoWith(t, at, a)
    PROVE  /\ tab' \in [Tabs -> TabStates] /\ \A u \in Tabs : u # t => tab'[u] = tab[u]
           /\ tab'[t].at = at /\ tab'[t].i = tab[t].i /\ tab'[t].acct = a
<1> DEFINE x == [tab[t] EXCEPT !.at = at, !.acct = a]
<1>1. tab[t] \in TabStates
  BY TabType
<1>2. x \in TabStates /\ x.at = at /\ x.i = tab[t].i /\ x.acct = a
  BY <1>1 DEF TabStates
<1>3. tab' = [tab EXCEPT ![t] = x]
  BY TabType DEF GoWith
<1> HIDE DEF x
<1>4. QED
  BY <1>2, <1>3, TabAfter

(* A step that moves one sign-in, and not to the opening of its session,    *)
(* keeps what is known of the others.                                       *)
LEMMA TabMoves ==
    ASSUME SignInInv, NEW t \in Tabs, UNCHANGED <<accounts, gen, ident, session>>,
           tab' \in [Tabs -> TabStates], \A u \in Tabs : u # t => tab'[u] = tab[u],
           tab'[t].i \in Identities, jar' \in Tabs \cup {Nobody}, cookie' \in Tabs \cup {Nobody},
           tab'[t].at = "issue" =>
              /\ tab'[t].acct \in Ids /\ tab'[t].acct[2] <= gen[tab'[t].acct[1]]
              /\ tab'[t].acct \in accounts => ident[tab'[t].i] = tab'[t].acct
    PROVE  SignInInv'
<1>1. SignInTypeOK'
  BY DEF SignInInv, SignInTypeOK, TabStates, Places, Ids
<1>2. Traced'
  BY DEF SignInInv, Traced, Ids
<1>3. QED
  BY <1>1, <1>2 DEF SignInInv, Numbered, SessionsOfLiveAccounts

-----------------------------------------------------------------------------
(* One lemma per stage of a sign-in, then the session and the account. *)

LEMMA KnowsTab ==
    ASSUME SignInInv, NEW t \in Tabs
    PROVE  /\ tab[t] \in TabStates
           /\ tab[t].at # "idle" => tab[t].i \in Identities
           /\ Caller \in Ids \cup {Nobody}
BY TabType DEF SignInInv, SignInTypeOK, Traced, Caller

LEMMA AwayStep ==
    ASSUME SignInInv, NEW t \in Tabs,
           (\E i \in Identities : Start(t, i)) \/ Declined(t) \/ \E ok \in BOOLEAN : Return(t, ok)
    PROVE  SignInInv'
<1>0. SignInTypeOK /\ jar \in Tabs \cup {Nobody} /\ cookie \in Tabs \cup {Nobody}
  BY DEF SignInInv, SignInTypeOK
<1>1. CASE \E i \in Identities : Start(t, i)
 <2>1. PICK i \in Identities : Start(t, i)
   BY <1>1
 <2> DEFINE x == [tab[t] EXCEPT !.at = "away", !.i = i]
 <2>2. x \in TabStates /\ x.at = "away" /\ x.i = i
   BY KnowsTab DEF TabStates, Places
 <2>3. tab' = [tab EXCEPT ![t] = x]
   BY <1>0, <2>1, TabType DEF Start
 <2> HIDE DEF x
 <2>4. QED
   BY <1>0, <2>1, <2>2, <2>3, TabAfter, TabMoves DEF Start
<1>2. CASE Declined(t)
  BY <1>0, <1>2, KnowsTab, GotoAfter, TabMoves DEF Declined, Places
<1>3. CASE \E ok \in BOOLEAN : Return(t, ok)
 <2>1. PICK ok \in BOOLEAN : Return(t, ok)
   BY <1>3
 <2> DEFINE at == IF jar # t THEN "mismatch" ELSE IF ok THEN "lookup" ELSE "failed"
            x == [tab[t] EXCEPT !.at = at, !.auth = Caller]
 <2>2. x \in TabStates /\ x.at \in {"mismatch", "lookup", "failed"} /\ x.i = tab[t].i
   BY KnowsTab DEF TabStates, Places
 <2>3. tab' = [tab EXCEPT ![t] = x]
   BY <1>0, <2>1, TabType DEF Return
 <2>4. tab[t].i \in Identities
   BY <2>1, KnowsTab DEF Return
 <2> HIDE DEF x, at
 <2>5. /\ tab' \in [Tabs -> TabStates] /\ \A u \in Tabs : u # t => tab'[u] = tab[u]
       /\ tab'[t].i \in Identities /\ tab'[t].at # "issue"
   BY <1>0, <2>2, <2>3, <2>4, TabAfter
 <2>6. UNCHANGED <<accounts, gen, ident, cookie, session>> /\ jar' = Nobody
   BY <2>1 DEF Return
 <2>7. QED
   BY <1>0, <2>5, <2>6, TabMoves
<1>4. QED
  BY <1>1, <1>2, <1>3

LEMMA ResolveStep ==
    ASSUME SignInAssumption, SignInInv, NEW t \in Tabs, Lookup(t) \/ BySession(t) \/ ByEmail(t)
    PROVE  SignInInv'
<1>0. /\ SignInTypeOK /\ jar \in Tabs \cup {Nobody} /\ cookie \in Tabs \cup {Nobody}
      /\ accounts \subseteq Ids /\ tab[t].i \in Identities
      /\ \A i \in Identities : ident[i] \in accounts \cup {Nobody}
  BY KnowsTab DEF SignInInv, SignInTypeOK, Lookup, BySession, ByEmail
<1>1. CASE Lookup(t)
 <2>1. CASE ident[tab[t].i] = Nobody
   BY <1>0, <1>1, <2>1, GotoAfter, TabMoves DEF Lookup, Places
 <2>2. CASE ident[tab[t].i] # Nobody
  <3>1. ident[tab[t].i] \in accounts /\ ident[tab[t].i] \in Ids
    BY <1>0, <2>2
  <3>2. ident[tab[t].i][2] <= gen[ident[tab[t].i][1]]
    BY <3>1 DEF SignInInv, Numbered
  <3>3. GoWith(t, "issue", ident[tab[t].i])
    BY <1>1, <2>2 DEF Lookup
  <3>4. UNCHANGED <<accounts, gen, ident, jar, cookie, session>>
    BY <1>1 DEF Lookup
  <3>5. QED
    BY <1>0, <3>1, <3>2, <3>3, <3>4, GoWithAfter, TabMoves DEF Places
 <2>3. QED
   BY <2>1, <2>2
<1>2. CASE BySession(t)
 <2>1. CASE tab[t].auth \in accounts
  <3>1. GoWith(t, "bind", tab[t].auth) /\ tab[t].auth \in Ids \cup {Nobody}
    BY <1>0, <1>2, <2>1 DEF BySession
  <3>2. UNCHANGED <<accounts, gen, ident, jar, cookie, session>>
    BY <1>2 DEF BySession
  <3>3. QED
    BY <1>0, <3>1, <3>2, GoWithAfter, TabMoves DEF Places
 <2>2. CASE tab[t].auth \notin accounts
   BY <1>0, <1>2, <2>2, GotoAfter, TabMoves DEF BySession, Places
 <2>3. QED
   BY <2>1, <2>2
<1>3. CASE ByEmail(t)
 <2>1. UNCHANGED <<accounts, gen, ident, jar, cookie, session>>
   BY <1>3 DEF ByEmail
 <2>2. \/ \E a \in Ids \cup {Nobody} : GoWith(t, "bind", a)
       \/ Goto(t, "refused") \/ Goto(t, "create")
   BY <1>0, <1>3 DEF ByEmail, OfEmail
 <2>3. QED
   BY <1>0, <2>1, <2>2, GotoAfter, GoWithAfter, TabMoves DEF Places
<1>4. QED
  BY <1>1, <1>2, <1>3

LEMMA CreateStep ==
    ASSUME SignInAssumption, SignInInv, NEW t \in Tabs, Create(t)
    PROVE  SignInInv'
<1> DEFINE e == EmailOf[tab[t].i]
           n == gen[e] + 1
<1>0. /\ SignInTypeOK /\ jar \in Tabs \cup {Nobody} /\ cookie \in Tabs \cup {Nobody}
      /\ accounts \subseteq Ids /\ tab[t].i \in Identities
      /\ gen \in [Emails -> 0 .. MaxGen] /\ MaxGen \in Nat
  BY KnowsTab DEF SignInInv, SignInTypeOK, Create, SignInAssumption
<1>1. e \in Emails
  BY <1>0 DEF SignInAssumption
<1>2. CASE OfEmail(e) = {} /\ gen[e] < MaxGen /\ accounts' = accounts \cup {<<e, n>>}
           /\ gen' = [gen EXCEPT ![e] = @ + 1] /\ GoWith(t, "bind", <<e, n>>)
 <2>1. <<e, n>> \in Ids /\ <<e, n>>[1] = e /\ <<e, n>>[2] = n /\ n > gen[e]
   BY <1>0, <1>1, <1>2 DEF Ids
 <2>2. /\ tab' \in [Tabs -> TabStates] /\ \A u \in Tabs : u # t => tab'[u] = tab[u]
       /\ tab'[t].at = "bind" /\ tab'[t].i = tab[t].i
   BY <1>0, <1>2, <2>1, GoWithAfter DEF Places
 <2>3. /\ gen' \in [Emails -> 0 .. MaxGen] /\ gen'[e] = n
       /\ \A f \in Emails : gen[f] <= gen'[f]
   BY <1>0, <1>1, <1>2
 <2>4. UNCHANGED <<ident, jar, cookie, session>>
   BY DEF Create
 <2>5. SignInTypeOK'
  <3>1. accounts' \subseteq Ids
    BY <1>0, <1>2, <2>1
  <3>2. \A a, b \in accounts' : a[1] = b[1] => a = b
    BY <1>2, <2>1 DEF OfEmail, SignInInv, SignInTypeOK
  <3>3. ident' \in [Identities -> accounts' \cup {Nobody}]
    BY <1>2, <2>4 DEF SignInInv, SignInTypeOK
  <3>4. QED
    BY <1>0, <2>2, <2>3, <2>4, <3>1, <3>2, <3>3 DEF SignInTypeOK, TabStates, Places
 <2>6. Numbered'
  <3>1. ASSUME NEW a \in accounts'
        PROVE  a[2] <= gen'[a[1]]
   <4>1. CASE a = <<e, n>>
     BY <1>0, <1>1, <2>1, <2>3, <4>1
   <4>2. CASE a \in accounts
    <5>1. a \in Ids /\ a[1] \in Emails /\ a[2] \in Nat /\ a[2] <= gen[a[1]]
      BY <1>0, <4>2 DEF Ids, SignInInv, Numbered
    <5>2. gen[a[1]] \in Nat /\ gen'[a[1]] \in Nat /\ gen[a[1]] <= gen'[a[1]]
      BY <1>0, <2>3, <5>1
    <5>3. QED
      BY <5>1, <5>2
   <4>3. QED
     BY <1>2, <4>1, <4>2
  <3>2. QED
    BY <3>1 DEF Numbered
 <2>7. Traced'
  <3>1. tab'[t].at # "idle" => tab'[t].i \in Identities
    BY <1>0, <2>2
  <3>2. ASSUME NEW u \in Tabs, u # t, tab[u].at = "issue"
        PROVE  /\ tab[u].acct \in Ids /\ tab[u].acct[2] <= gen'[tab[u].acct[1]]
               /\ tab[u].acct \in accounts' => ident[tab[u].i] = tab[u].acct
   <4>1. /\ tab[u].acct \in Ids /\ tab[u].acct[2] <= gen[tab[u].acct[1]]
         /\ tab[u].acct \in accounts => ident[tab[u].i] = tab[u].acct
     BY <3>2 DEF SignInInv, Traced
   <4>2. tab[u].acct[1] \in Emails /\ tab[u].acct[2] \in Nat
     BY <1>0, <4>1 DEF Ids
   <4>3. gen[tab[u].acct[1]] \in Nat /\ gen'[tab[u].acct[1]] \in Nat
         /\ gen[tab[u].acct[1]] <= gen'[tab[u].acct[1]]
     BY <1>0, <2>3, <4>2
   <4>4. tab[u].acct # <<e, n>>
     BY <1>0, <2>1, <4>1, <4>2, <4>3
   <4>5. QED
     BY <1>2, <4>1, <4>2, <4>3, <4>4
  <3>3. QED
    BY <2>2, <2>4, <3>1, <3>2 DEF SignInInv, Traced
 <2>8. QED
   BY <1>2, <2>4, <2>5, <2>6, <2>7 DEF SignInInv, SessionsOfLiveAccounts
<1>3. CASE UNCHANGED <<accounts, gen>> /\ ((\E b \in OfEmail(e) : GoWith(t, "bind", b)) \/ Goto(t, "failed"))
 <2>1. UNCHANGED <<accounts, gen, ident, jar, cookie, session>>
   BY <1>3 DEF Create
 <2>2. (\E a \in Ids \cup {Nobody} : GoWith(t, "bind", a)) \/ Goto(t, "failed")
   BY <1>0, <1>3 DEF OfEmail
 <2>3. QED
   BY <1>0, <2>1, <2>2, GotoAfter, GoWithAfter, TabMoves DEF Places
<1>4. QED
  BY <1>2, <1>3 DEF Create

LEMMA BindIdentityStep ==
    ASSUME SignInAssumption, SignInInv, NEW t \in Tabs, BindIdentity(t)
    PROVE  SignInInv'
<1>0. /\ SignInTypeOK /\ jar \in Tabs \cup {Nobody} /\ cookie \in Tabs \cup {Nobody}
      /\ accounts \subseteq Ids /\ tab[t].i \in Identities
      /\ ident \in [Identities -> accounts \cup {Nobody}]
  BY KnowsTab DEF SignInInv, SignInTypeOK, BindIdentity
<1>1. CASE Bindable(tab[t].i, tab[t].acct)
 <2>1. /\ ident' = [ident EXCEPT ![tab[t].i] = tab[t].acct] /\ Goto(t, "issue")
       /\ UNCHANGED <<accounts, gen, jar, cookie, session>>
   BY <1>1 DEF BindIdentity
 <2>2. tab[t].acct \in accounts /\ ident[tab[t].i] = Nobody
   BY <1>1 DEF Bindable
 <2>3. /\ tab' \in [Tabs -> TabStates] /\ \A u \in Tabs : u # t => tab'[u] = tab[u]
       /\ tab'[t].at = "issue" /\ tab'[t].i = tab[t].i /\ tab'[t].acct = tab[t].acct
   BY <1>0, <2>1, GotoAfter DEF Places
 <2>4. /\ ident' \in [Identities -> accounts \cup {Nobody}] /\ ident'[tab[t].i] = tab[t].acct
       /\ \A i \in Identities : i # tab[t].i => ident'[i] = ident[i]
   BY <1>0, <2>1, <2>2
 <2>5. Nobody \notin accounts
   BY <1>0 DEF SignInAssumption, Ids
 <2>6. Traced'
  <3>1. tab[t].acct \in Ids /\ tab[t].acct[2] <= gen[tab[t].acct[1]]
    BY <1>0, <2>2 DEF SignInInv, Numbered
  <3>2. ASSUME NEW u \in Tabs, u # t, tab[u].at = "issue", tab[u].acct \in accounts
        PROVE  ident'[tab[u].i] = tab[u].acct
    BY <2>2, <2>4, <2>5, <3>2 DEF SignInInv, Traced
  <3>3. QED
    BY <1>0, <2>1, <2>3, <2>4, <3>1, <3>2 DEF SignInInv, Traced
 <2>7. SignInTypeOK'
   BY <1>0, <2>1, <2>3, <2>4 DEF SignInTypeOK, TabStates, Places
 <2>8. QED
   BY <2>1, <2>6, <2>7 DEF SignInInv, Numbered, SessionsOfLiveAccounts
<1>2. CASE ~Bindable(tab[t].i, tab[t].acct)
  BY <1>0, <1>2, GotoAfter, TabMoves DEF BindIdentity, Places
<1>3. QED
  BY <1>1, <1>2

LEMMA IssueStep ==
    ASSUME SignInAssumption, SignInInv, NEW t \in Tabs, Issue(t)
    PROVE  /\ SignInInv'
           /\ tab'[t].at = "in" => ident[tab[t].i] = session'[t].acct
           /\ \A u \in Tabs : u # t => tab'[u] = tab[u]
<1>0. /\ SignInTypeOK /\ jar \in Tabs \cup {Nobody} /\ cookie \in Tabs \cup {Nobody}
      /\ accounts \subseteq Ids /\ tab[t].i \in Identities
  BY KnowsTab DEF SignInInv, SignInTypeOK, Issue
<1>1. CASE Insertable(tab[t].acct)
 <2>1. /\ session' = [session EXCEPT ![t] = [st |-> "active", acct |-> tab[t].acct]]
       /\ cookie' = t /\ Goto(t, "in") /\ UNCHANGED <<accounts, gen, ident, jar>>
   BY <1>1 DEF Issue
 <2>2. tab[t].acct \in accounts
   BY <1>1 DEF Insertable
 <2>3. ident[tab[t].i] = tab[t].acct
   BY <2>2 DEF SignInInv, Traced, Issue
 <2>4. /\ tab' \in [Tabs -> TabStates] /\ \A u \in Tabs : u # t => tab'[u] = tab[u]
       /\ tab'[t].at = "in" /\ tab'[t].i = tab[t].i
   BY <1>0, <2>1, GotoAfter DEF Places
 <2>5. /\ session'[t] = [st |-> "active", acct |-> tab[t].acct]
       /\ \A u \in Tabs : u # t => session'[u] = session[u]
       /\ session' \in [Tabs -> [st: {"none", "active", "revoked", "lapsed", "gone"},
                                acct: Ids \cup {Nobody}]]
   BY <1>0, <2>1, <2>2 DEF SignInTypeOK
 <2>6. SignInTypeOK'
   BY <1>0, <2>1, <2>4, <2>5 DEF SignInTypeOK, TabStates, Places, Ids
 <2>7. Traced' /\ SessionsOfLiveAccounts'
   BY <1>0, <2>1, <2>2, <2>4, <2>5 DEF SignInInv, Traced, SessionsOfLiveAccounts, Ids
 <2>8. QED
   BY <2>1, <2>3, <2>4, <2>5, <2>6, <2>7 DEF SignInInv, Numbered
<1>2. CASE ~Insertable(tab[t].acct)
 <2>1. Goto(t, "failed") /\ UNCHANGED <<accounts, gen, ident, jar, cookie, session>>
   BY <1>2 DEF Issue
 <2>2. /\ tab' \in [Tabs -> TabStates] /\ \A u \in Tabs : u # t => tab'[u] = tab[u]
       /\ tab'[t].at = "failed" /\ tab'[t].i = tab[t].i
   BY <1>0, <2>1, GotoAfter DEF Places
 <2>3. QED
   BY <1>0, <2>1, <2>2, TabMoves
<1>3. QED
  BY <1>1, <1>2

LEMMA SessionStep ==
    ASSUME SignInInv, Logout \/ (\E t \in Tabs : Lapse(t))
    PROVE  SignInInv'
<1>1. PICK t \in Tabs, st \in {"revoked", "lapsed"} : session' = [session EXCEPT ![t].st = st]
 <2>1. CASE Logout
   BY <2>1 DEF Logout, Caller, SignInInv, SignInTypeOK
 <2>2. CASE \E t \in Tabs : Lapse(t)
   BY <2>2 DEF Lapse
 <2>3. QED
   BY <2>1, <2>2
<1>2. UNCHANGED <<accounts, gen, ident, jar, tab>> /\ cookie' \in Tabs \cup {Nobody}
  BY DEF Logout, Lapse, SignInInv, SignInTypeOK
<1>3. /\ session' \in [Tabs -> [st: {"none", "active", "revoked", "lapsed", "gone"},
                               acct: Ids \cup {Nobody}]]
      /\ \A u \in Tabs : session'[u].st = "active" => session'[u] = session[u]
  BY <1>1 DEF SignInInv, SignInTypeOK
<1>4. SignInTypeOK'
  BY <1>2, <1>3 DEF SignInInv, SignInTypeOK, Ids
<1>5. QED
  BY <1>2, <1>3, <1>4 DEF SignInInv, Numbered, Traced, SessionsOfLiveAccounts, Ids

LEMMA EraseStep ==
    ASSUME SignInAssumption, SignInInv, Erase
    PROVE  SignInInv'
<1> DEFINE a == Caller
<1>1. /\ accounts' = accounts \ {a} /\ UNCHANGED <<gen, jar, tab>> /\ cookie' = Nobody
      /\ ident' = [i \in Identities |-> IF ident[i] = a THEN Nobody ELSE ident[i]]
      /\ session' = [t \in Tabs |-> IF session[t].acct = a THEN [session[t] EXCEPT !.st = "gone"]
                                    ELSE session[t]]
  BY DEF Erase
<1> HIDE DEF a
<1>2. SignInTypeOK'
 <2>1. ident' \in [Identities -> accounts' \cup {Nobody}]
   BY <1>1 DEF SignInInv, SignInTypeOK
 <2>2. session' \in [Tabs -> [st: {"none", "active", "revoked", "lapsed", "gone"},
                             acct: Ids \cup {Nobody}]]
   BY <1>1 DEF SignInInv, SignInTypeOK
 <2>3. QED
   BY <1>1, <2>1, <2>2 DEF SignInInv, SignInTypeOK, Ids
<1>3. \A i \in Identities : ident[i] \in accounts' => ident'[i] = ident[i]
  BY <1>1
<1>4. Traced'
  BY <1>1, <1>3 DEF SignInInv, Traced, Ids
<1>5. SessionsOfLiveAccounts'
 <2>1. ASSUME NEW t \in Tabs, session'[t].st = "active"
       PROVE  session'[t].acct \in accounts'
  <3>1. session[t] \in [st: {"none", "active", "revoked", "lapsed", "gone"},
                       acct: Ids \cup {Nobody}]
    BY DEF SignInInv, SignInTypeOK
  <3>2. CASE session[t].acct = a
    BY <1>1, <2>1, <3>1, <3>2
  <3>3. CASE session[t].acct # a
    BY <1>1, <2>1, <3>1, <3>3 DEF SignInInv, SessionsOfLiveAccounts
  <3>4. QED
    BY <3>2, <3>3
 <2>2. QED
   BY <2>1 DEF SessionsOfLiveAccounts
<1>6. QED
  BY <1>1, <1>2, <1>4, <1>5 DEF SignInInv, Numbered

LEMMA SignInKeeps ==
    ASSUME SignInAssumption, SignInInv, [SignInNext]_signInVars
    PROVE  SignInInv'
<1>1. CASE UNCHANGED signInVars
  BY <1>1 DEF signInVars, SignInInv, SignInTypeOK, Numbered, Traced, SessionsOfLiveAccounts, Ids
<1>2. CASE SignInNext
  BY <1>2, AwayStep, ResolveStep, CreateStep, BindIdentityStep, IssueStep, SessionStep, EraseStep
     DEF SignInNext
<1>3. QED
  BY <1>1, <1>2

LEMMA SignInStarts == SignInAssumption /\ SignInInit => SignInInv
<1> SUFFICES ASSUME SignInAssumption, SignInInit PROVE SignInInv
  OBVIOUS
<1>1. /\ accounts = {<<e, 1>> : e \in Existing} /\ Existing \subseteq Emails
      /\ EmailOf \in [Identities -> Emails] /\ MaxGen \in Nat /\ 1 \in 1 .. MaxGen
  BY DEF SignInAssumption, SignInInit
<1>2. accounts \subseteq Ids
  BY <1>1 DEF Ids
<1>3. gen \in [Emails -> 0 .. MaxGen] /\ \A e \in Existing : gen[e] = 1
  BY <1>1 DEF SignInInit
<1>4. ident \in [Identities -> accounts \cup {Nobody}]
  BY <1>1 DEF SignInInit
<1>5. SignInTypeOK
  BY <1>1, <1>2, <1>3, <1>4 DEF SignInTypeOK, SignInInit
<1>6. QED
  BY <1>1, <1>3, <1>5 DEF SignInInv, Numbered, Traced, SessionsOfLiveAccounts, SignInInit

(* The browser's sign-ins: what each knows of its identity stays true       *)
(* whatever other tabs bind, erase and create again.                        *)
THEOREM SignInIsSound == SignInAssumption => (SignInSpec => []SignInInv)
<1> SUFFICES ASSUME SignInAssumption
             PROVE  SignInSpec => []SignInInv
  OBVIOUS
<1>1. SignInInit => SignInInv
  BY SignInStarts
<1>2. SignInInv /\ [SignInNext]_signInVars => SignInInv'
  BY SignInKeeps
<1>3. QED
  BY <1>1, <1>2, PTL DEF SignInSpec

(* Only the opening of a session puts a sign-in at its end. *)
LEMMA OpensAsIdentity ==
    ASSUME SignInAssumption, SignInInv, [SignInNext]_signInVars, NEW t \in Tabs,
           tab[t].at = "issue", tab'[t].at = "in"
    PROVE  ident[tab[t].i] = session'[t].acct
<1>1. PICK u \in Tabs : Issue(u)
 <2>1. ASSUME NEW u \in Tabs, (\E i \in Identities : Start(u, i)) \/ Declined(u)
                              \/ (\E ok \in BOOLEAN : Return(u, ok)) \/ Lookup(u) \/ BySession(u)
                              \/ ByEmail(u) \/ Create(u) \/ BindIdentity(u)
       PROVE  tab'[t] = tab[t]
  <3>1. u # t
    BY <2>1 DEF Start, Declined, Return, Lookup, BySession, ByEmail, Create, BindIdentity
  <3>2. QED
    BY <2>1, <3>1, TabType
       DEF Start, Declined, Return, Lookup, BySession, ByEmail, Create, BindIdentity, Goto,
           GoWith, SignInInv, TabStates
 <2>2. QED
   BY <2>1 DEF SignInNext, signInVars, Lapse, Logout, Erase
<1>2. u = t
  BY <1>1, IssueStep
<1>3. QED
  BY <1>1, <1>2, IssueStep

(* A binding replaces none, and an erasure takes the account along. *)
LEMMA BindingsStay ==
    ASSUME SignInAssumption, SignInInv, [SignInNext]_signInVars, NEW i \in Identities,
           ident[i] # Nobody, ident'[i] # ident[i]
    PROVE  ident[i] \notin accounts'
<1>1. CASE Erase
  BY <1>1 DEF Erase
<1>2. CASE \E t \in Tabs : BindIdentity(t)
 <2>1. PICK t \in Tabs : BindIdentity(t)
   BY <1>2
 <2>2. tab[t].i \in Identities /\ ident \in [Identities -> accounts \cup {Nobody}]
   BY <2>1, KnowsTab DEF BindIdentity, SignInInv, SignInTypeOK
 <2>3. QED
   BY <2>1, <2>2 DEF BindIdentity, Bindable
<1>3. QED
  BY <1>1, <1>2 DEF SignInNext, signInVars, Start, Declined, Return, Lookup, BySession, ByEmail,
                    Create, Issue, Lapse, Logout

(* oauth.ts and the session and identity stores: sessions are of accounts   *)
(* that exist and of the identity that signed in, and an identity moves to  *)
(* no other account.                                                        *)
THEOREM SignInsAreSafe == SignInAssumption => (SignInSpec => AccountsSafe)
<1> SUFFICES ASSUME SignInAssumption
             PROVE  SignInSpec => AccountsSafe
  OBVIOUS
<1>0. SignInSpec => []SignInInv
  BY SignInIsSound
<1>1. SignInInv => SignInTypeOK /\ SessionsOfLiveAccounts
  BY DEF SignInInv
<1>2. SignInInv /\ [SignInNext]_signInVars =>
          [\A t \in Tabs : (tab[t].at = "issue" /\ tab'[t].at = "in")
              => ident[tab[t].i] = session'[t].acct]_signInVars
  BY OpensAsIdentity
<1>3. SignInInv /\ [SignInNext]_signInVars =>
          [\A i \in Identities : (ident[i] # Nobody /\ ident'[i] # ident[i])
              => ident[i] \notin accounts']_signInVars
  BY BindingsStay
<1>4. QED
  BY <1>0, <1>1, <1>2, <1>3, PTL
     DEF SignInSpec, AccountsSafe, SignedInAsIdentity, IdentityStable

(* ---- sequences ----------------------------------------------------------- *)

(* What a queue is once the element at i is gone. *)
LEMMA RemovedAt ==
    ASSUME NEW S, NEW s \in Seq(S), NEW i \in 1 .. Len(s)
    PROVE  /\ RemoveAt(s, i) \in Seq(S) /\ Len(RemoveAt(s, i)) = Len(s) - 1
           /\ \A k \in 1 .. Len(s) - 1 : RemoveAt(s, i)[k] = IF k < i THEN s[k] ELSE s[k + 1]
<1> DEFINE p == SubSeq(s, 1, i - 1)
           q == SubSeq(s, i + 1, Len(s))
<1>1. Len(s) \in Nat
  BY LenProperties
<1>2. /\ p \in Seq(S) /\ Len(p) = i - 1 /\ \A k \in 1 .. i - 1 : p[k] = s[k]
  BY <1>1
<1>3. /\ q \in Seq(S) /\ Len(q) = Len(s) - i /\ \A k \in 1 .. Len(s) - i : q[k] = s[i + k]
  BY <1>1
<1> HIDE DEF p, q
<1>4. /\ p \o q \in Seq(S) /\ Len(p \o q) = Len(s) - 1
      /\ \A k \in 1 .. Len(s) - 1 : (p \o q)[k] = IF k <= i - 1 THEN p[k] ELSE q[k - (i - 1)]
 <2>1. Len(p) + Len(q) = Len(s) - 1 /\ Len(p) = i - 1
   BY <1>1, <1>2, <1>3
 <2>2. /\ p \o q \in Seq(S) /\ Len(p \o q) = Len(p) + Len(q)
       /\ \A k \in 1 .. Len(p) + Len(q) : (p \o q)[k] = IF k <= Len(p) THEN p[k]
                                                        ELSE q[k - Len(p)]
   BY <1>2, <1>3, ConcatProperties
 <2>3. QED
   BY <2>1, <2>2
<1>5. \A k \in 1 .. Len(s) - 1 : (p \o q)[k] = IF k < i THEN s[k] ELSE s[k + 1]
 <2> TAKE k \in 1 .. Len(s) - 1
 <2>1. CASE k < i
   BY <1>1, <1>2, <1>4, <2>1
 <2>2. CASE ~(k < i)
  <3>1. k - (i - 1) \in 1 .. Len(s) - i /\ i + (k - (i - 1)) = k + 1
    BY <1>1, <2>2
  <3>2. (p \o q)[k] = q[k - (i - 1)]
    BY <1>1, <1>4, <2>2
  <3>3. q[k - (i - 1)] = s[k + 1]
    BY <1>3, <3>1
  <3>4. QED
    BY <2>2, <3>2, <3>3
 <2>3. QED
   BY <2>1, <2>2
<1>6. RemoveAt(s, i) = p \o q
  BY DEF RemoveAt, p, q
<1>7. QED
  BY <1>4, <1>5, <1>6

LEMMA LeastNatural ==
    ASSUME NEW T, T \subseteq Nat, T # {}
    PROVE  Min(T) \in T /\ \A m \in T : Min(T) <= m
<1>1. PICK n \in T : \A m \in T : ~(<<m, n>> \in OpToRel(<, Nat))
  BY WFMin, NatLessThanWellFounded
<1>2. \A m \in T : ~(m < n)
  BY <1>1 DEF OpToRel
<1>3. \E x \in T : \A m \in T : x <= m
  BY <1>2
<1>4. QED
  BY <1>3 DEF Min

(* The first copy of an element is one of its copies, the head if it is one. *)
LEMMA RemovedFirst ==
    ASSUME NEW S, NEW s \in Seq(S), NEW e, Contains(s, e)
    PROVE  \E i \in 1 .. Len(s) : /\ s[i] = e /\ RemoveFirst(s, e) = RemoveAt(s, i)
                                  /\ \A j \in 1 .. Len(s) : s[j] = e => i <= j
<1> DEFINE at == {i \in 1 .. Len(s) : s[i] = e}
<1>1. Len(s) \in Nat /\ at \subseteq Nat /\ at # {}
  BY LenProperties DEF Contains
<1>2. Min(at) \in at /\ \A m \in at : Min(at) <= m
  BY <1>1, LeastNatural
<1>3. \A j \in 1 .. Len(s) : s[j] = e => Min(at) <= j
  BY <1>2
<1>4. RemoveFirst(s, e) = RemoveAt(s, Min(at))
  BY <1>1 DEF RemoveFirst, SelectInSeq
<1>5. QED
  BY <1>2, <1>3, <1>4

(* ---- billing: types ------------------------------------------------------ *)

(* A subscription has a customer once it was paid, and only a checkout that
   is done was paid.                                                          *)
CheckoutsOK ==
    \A c \in Checkouts :
        /\ stripe[c].st # "free" => stripe[c].cust \in Checkouts
        /\ checkout[c].at # "done" => stripe[c].st = "free"

Subscriptions == [st: Statuses, cust: Checkouts \cup {NoCheckout}, sched: BOOLEAN]

LEMMA HookType ==
    ASSUME BillingTypeOK, NEW h \in Hooks, hook[h] # <<"idle">>
    PROVE  hook[h][2] \in Events /\ hook[h] = <<"write", hook[h][2]>>
BY DEF BillingTypeOK

LEMMA EmitTypes ==
    ASSUME BillingTypeOK, CheckoutsOK, NEW c \in Checkouts, NEW s \in Subscriptions,
           NEW t \in Subscriptions, s.cust \in Checkouts, t.cust \in Checkouts,
           NEW kind \in {"completed", "updated", "deleted"},
           BillingAssumption, emitted < MaxEvents, emitted' = emitted + 1,
           stripe' = [stripe EXCEPT ![c] = t], queue' = Append(queue, Event(kind, c, s)),
           UNCHANGED <<acct, hook, unsure, careful>>,
           checkout' = [checkout EXCEPT ![c].at = "done"]
    PROVE  BillingTypeOK' /\ CheckoutsOK'
<1>1. Event(kind, c, s) \in Events
  BY DEF Event, Events, Subscriptions
<1>2. queue' \in Seq(Events)
  BY <1>1, AppendProperties DEF BillingTypeOK
<1>3. stripe' \in [Checkouts -> Subscriptions]
  BY DEF BillingTypeOK, Subscriptions
<1>4. checkout' \in [Checkouts -> [at: {"idle", "read", "open", "done", "refused"},
                                   cust: Checkouts \cup {NoCheckout}]]
  BY DEF BillingTypeOK
<1>5. emitted' \in 0 .. MaxEvents
  BY DEF BillingTypeOK, BillingAssumption
<1>6. CheckoutsOK'
  BY <1>3 DEF CheckoutsOK, BillingTypeOK
<1>7. QED
  BY <1>2, <1>3, <1>4, <1>5, <1>6 DEF BillingTypeOK, Subscriptions

LEMMA PatchedType ==
    ASSUME BillingTypeOK, NEW e \in Events
    PROVE  Patched(acct, e) \in [st: Statuses, cust: Checkouts \cup {NoCheckout},
                                 sub: Checkouts \cup {NoCheckout}, sched: BOOLEAN]
BY DEF BillingTypeOK, Patched, Events, Statuses

LEMMA TypeKept ==
    ASSUME BillingAssumption, BillingTypeOK, CheckoutsOK, [BillingNext]_billingVars
    PROVE  BillingTypeOK' /\ CheckoutsOK'
<1>1. CASE \E c \in Checkouts : Checkout(c) \/ Opens(c)
 <2>1. PICK c \in Checkouts : Checkout(c) \/ Opens(c)
   BY <1>1
 <2>2. checkout' \in [Checkouts -> [at: {"idle", "read", "open", "done", "refused"},
                                    cust: Checkouts \cup {NoCheckout}]]
  <3>1. CASE Checkout(c)
   <4>1. PICK at \in {"refused", "read"} :
             checkout' = [checkout EXCEPT ![c] = [at |-> at, cust |-> acct.cust]]
     BY <3>1 DEF Checkout
   <4>2. QED
     BY <4>1 DEF BillingTypeOK
  <3>2. CASE Opens(c)
    BY <3>2 DEF Opens, BillingTypeOK
  <3>3. QED
    BY <2>1, <3>1, <3>2
 <2>3. \A d \in Checkouts : checkout'[d].at # "done" => checkout[d].at # "done"
   BY <2>1 DEF Checkout, Opens, BillingTypeOK
 <2>4. QED
   BY <2>1, <2>2, <2>3 DEF Checkout, Opens, BillingTypeOK, CheckoutsOK
<1>2. CASE \E c \in Checkouts : Pays(c)
 <2>1. PICK c \in Checkouts : Pays(c)
   BY <1>2
 <2> DEFINE s == [st |-> "active", sched |-> FALSE,
                  cust |-> IF checkout[c].cust = NoCheckout THEN c ELSE checkout[c].cust]
 <2>2. s \in Subscriptions /\ s.cust \in Checkouts
   BY DEF BillingTypeOK, Subscriptions, Statuses
 <2>3. /\ emitted < MaxEvents /\ emitted' = emitted + 1
       /\ stripe' = [stripe EXCEPT ![c] = s] /\ queue' = Append(queue, Event("completed", c, s))
       /\ UNCHANGED <<acct, hook, unsure, careful>> /\ checkout' = [checkout EXCEPT ![c].at = "done"]
   BY <2>1 DEF Pays, Emit
 <2> HIDE DEF s
 <2>4. QED
   BY <2>2, <2>3, EmitTypes
<1>3. CASE \E c \in Checkouts, st \in {"active", "past_due"}, sched \in BOOLEAN :
               Changes(c, st, sched)
 <2>1. PICK c \in Checkouts, st \in {"active", "past_due"}, sched \in BOOLEAN :
                Changes(c, st, sched)
   BY <1>3
 <2> DEFINE s == [stripe[c] EXCEPT !.st = st, !.sched = sched]
 <2>2. s \in Subscriptions /\ s.cust \in Checkouts
  <3>1. stripe[c] \in Subscriptions /\ stripe[c].cust \in Checkouts
    BY <2>1 DEF Changes, BillingTypeOK, Subscriptions, CheckoutsOK
  <3>2. st \in Statuses
    BY DEF Statuses
  <3>3. QED
    BY <3>1, <3>2 DEF Subscriptions
 <2>3. /\ emitted < MaxEvents /\ emitted' = emitted + 1
       /\ stripe' = [stripe EXCEPT ![c] = s] /\ queue' = Append(queue, Event("updated", c, s))
       /\ UNCHANGED <<acct, hook, unsure, careful>>
   BY <2>1 DEF Changes, Emit
 <2>4. checkout' = [checkout EXCEPT ![c].at = "done"]
   BY <2>1 DEF Changes, BillingTypeOK, CheckoutsOK
 <2> HIDE DEF s
 <2>5. QED
   BY <2>2, <2>3, <2>4, EmitTypes
<1>4. CASE \E c \in Checkouts : Ends(c)
 <2>1. PICK c \in Checkouts : Ends(c)
   BY <1>4
 <2> DEFINE t == [stripe[c] EXCEPT !.st = "canceled"]
 <2>2. /\ stripe[c] \in Subscriptions /\ stripe[c].cust \in Checkouts
       /\ t \in Subscriptions /\ t.cust \in Checkouts
   BY <2>1 DEF Ends, BillingTypeOK, Subscriptions, Statuses, CheckoutsOK
 <2>3. /\ emitted < MaxEvents /\ emitted' = emitted + 1
       /\ stripe' = [stripe EXCEPT ![c] = t]
       /\ queue' = Append(queue, Event("deleted", c, stripe[c]))
       /\ UNCHANGED <<acct, hook, unsure, careful>>
   BY <2>1 DEF Ends, BillingTypeOK
 <2>4. checkout' = [checkout EXCEPT ![c].at = "done"]
   BY <2>1 DEF Ends, BillingTypeOK, CheckoutsOK
 <2> HIDE DEF t
 <2>5. QED
   BY <2>2, <2>3, <2>4, EmitTypes
<1>5. CASE \E h \in Hooks : \E k \in DOMAIN queue : Receive(h, k)
 <2>1. PICK h \in Hooks, k \in DOMAIN queue : Receive(h, k)
   BY <1>5
 <2>2. k \in 1 .. Len(queue) /\ queue[k] \in Events
   BY LenProperties, ElementOfSeq DEF BillingTypeOK
 <2>3. queue' \in Seq(Events)
   BY <2>1, <2>2, RemovedAt DEF Receive, BillingTypeOK
 <2>4. hook' \in [Hooks -> {<<"idle">>} \cup {<<"write", e>> : e \in Events}]
   BY <2>1, <2>2 DEF Receive, BillingTypeOK
 <2>5. unsure' \subseteq Checkouts
   BY <2>1, <2>2 DEF Receive, BillingTypeOK, Events
 <2>6. QED
   BY <2>1, <2>3, <2>4, <2>5 DEF Receive, BillingTypeOK, CheckoutsOK
<1>6. CASE \E h \in Hooks : \E again \in BOOLEAN : Write(h, again)
 <2>1. PICK h \in Hooks, again \in BOOLEAN : Write(h, again)
   BY <1>6
 <2>2. hook[h][2] \in Events
   BY <2>1, HookType DEF Write
 <2>3. queue' \in Seq(Events)
  <3>1. CASE queue' = queue
    BY <3>1 DEF BillingTypeOK
  <3>2. CASE queue' # queue
   <4>1. Contains(queue, hook[h][2]) /\ queue' = RemoveFirst(queue, hook[h][2])
     BY <2>1, <3>2 DEF Write
   <4>2. QED
     BY <4>1, RemovedFirst, RemovedAt DEF BillingTypeOK
  <3>3. QED
    BY <3>1, <3>2
 <2>4. acct' = Patched(acct, hook[h][2])
   BY <2>1 DEF Write
 <2>5. hook' \in [Hooks -> {<<"idle">>} \cup {<<"write", e>> : e \in Events}]
   BY <2>1 DEF Write, BillingTypeOK
 <2>6. unsure' \subseteq Checkouts
   BY <2>1, <2>2 DEF Write, BillingTypeOK, Events
 <2>7. QED
   BY <2>1, <2>2, <2>3, <2>4, <2>5, <2>6, PatchedType DEF Write, BillingTypeOK, CheckoutsOK
<1>7. CASE \E h \in Hooks : Fails(h)
  BY <1>7 DEF Fails, BillingTypeOK, CheckoutsOK
<1>8. CASE UNCHANGED billingVars
  BY <1>8 DEF billingVars, BillingTypeOK, CheckoutsOK
<1>9. QED
  BY <1>1, <1>2, <1>3, <1>4, <1>5, <1>6, <1>7, <1>8 DEF BillingNext

(* ---- billing: events in order, one checkout at a time -------------------- *)

Pending == {c \in Checkouts : checkout[c].at \in {"read", "open"}}

(* What the latest event of a subscription tells is its state. *)
Reported(e, s) ==
    /\ e.kind = "deleted" => s.st = "canceled"
    /\ e.kind # "deleted" => e.st = s.st /\ e.sched = s.sched
    /\ e.kind = "completed" => e.st = "active" /\ e.sched = FALSE

(* What is still to be delivered is of the one subscription that may be paid;
   the account knows its customer, or the first event names it.               *)
QueueOK ==
    /\ Paying \subseteq {queue[1].sub}
    /\ \A k \in 1 .. Len(queue) :
           /\ queue[k].sub = queue[1].sub /\ queue[k].cust = stripe[queue[1].sub].cust
           /\ k # 1 => queue[k].kind # "completed"
    /\ queue[1].kind = "completed" \/ acct.cust = queue[1].cust
    /\ Reported(queue[Len(queue)], stripe[queue[1].sub])

(* With nothing to be delivered the account is as its subscription. *)
AccountOK ==
    /\ Paying \subseteq {acct.sub}
    /\ acct.sub # NoCheckout =>
          /\ acct.st = stripe[acct.sub].st /\ acct.cust = stripe[acct.sub].cust
          /\ acct.st # "canceled" => acct.sched = stripe[acct.sub].sched

HooksOK ==
    \A h \in Hooks : hook[h] # <<"idle">> =>
        /\ queue # <<>> /\ hook[h][2] = queue[1]
        /\ \A g \in Hooks : hook[g] # <<"idle">> => g = h

InOrderOK ==
    /\ \A c, d \in Pending : queue = <<>> /\ Paying = {} /\ c = d
    /\ queue = <<>> => AccountOK
    /\ queue # <<>> => QueueOK
    /\ HooksOK

LEMMA CheckoutStep ==
    ASSUME BillingAssumption, BillingTypeOK, CheckoutsOK, InOrderOK, careful',
           NEW c \in Checkouts, Checkout(c)
    PROVE  InOrderOK'
<1>0. CASE Subscribed(acct)
 <2>1. Pending' = Pending /\ UNCHANGED <<acct, stripe, queue, hook>>
   BY <1>0 DEF Checkout, Pending, BillingTypeOK
 <2>2. Paying' = Paying /\ AccountOK' = AccountOK /\ HooksOK' = HooksOK /\ QueueOK' = QueueOK
   BY <2>1 DEF Paying, AccountOK, HooksOK, QueueOK
 <2>3. QED
   BY <2>1, <2>2 DEF InOrderOK
<1> SUFFICES ASSUME ~Subscribed(acct) PROVE InOrderOK'
  BY <1>0
<1>1. Pending = {} /\ queue = <<>> /\ \A d \in Checkouts : stripe[d].st # "past_due"
  BY DEF Checkout, Pending, Unhurried, Quiet
<1>2. Pending' \subseteq {c}
  BY <1>1 DEF Checkout, Pending, BillingTypeOK
<1>3. Pending' # {} => Paying = {}
 <2>1. ASSUME Pending' # {}, Paying # {}
       PROVE  FALSE
  <3>1. acct.st # "active"
    BY <2>1, <1>1, <1>2 DEF Checkout, Subscribed, Pending, BillingTypeOK
  <3>2. PICK d \in Paying : d = acct.sub
    BY <2>1, <1>1 DEF InOrderOK, AccountOK
  <3>3. stripe[d].st = "active" /\ d \in Checkouts
    BY <1>1 DEF Paying
  <3>4. acct.sub # NoCheckout => acct.st = stripe[acct.sub].st
    BY <1>1 DEF InOrderOK, AccountOK
  <3>5. QED
    BY <3>1, <3>2, <3>3, <3>4 DEF BillingAssumption
 <2>2. QED
   BY <2>1
<1>4. UNCHANGED <<acct, stripe, queue, hook>>
  BY DEF Checkout
<1>5. Paying' = Paying /\ AccountOK' = AccountOK /\ HooksOK' = HooksOK
  BY <1>4 DEF Paying, AccountOK, HooksOK
<1>6. QED
  BY <1>1, <1>2, <1>3, <1>4, <1>5 DEF InOrderOK

LEMMA OpensStep ==
    ASSUME BillingTypeOK, InOrderOK, NEW c \in Checkouts, Opens(c)
    PROVE  InOrderOK'
<1>1. Pending' = Pending
  BY DEF Opens, Pending, BillingTypeOK
<1>2. UNCHANGED <<acct, stripe, queue, hook>>
  BY DEF Opens
<1>3. Paying' = Paying /\ AccountOK' = AccountOK /\ HooksOK' = HooksOK /\ QueueOK' = QueueOK
  BY <1>2 DEF Paying, AccountOK, HooksOK, QueueOK
<1>4. QED
  BY <1>1, <1>2, <1>3 DEF InOrderOK

(* An event of the subscription the last ones were of, or of the only one. *)
LEMMA EmitStep ==
    ASSUME BillingTypeOK, InOrderOK, NEW c \in Checkouts, NEW e \in Events, NEW t,
           queue' = Append(queue, e), stripe' = [stripe EXCEPT ![c] = t],
           UNCHANGED <<acct, hook>>, Pending' = {},
           e.sub = c, e.cust = t.cust, Reported(e, t), Paying \subseteq {c},
           queue = <<>> => e.kind = "completed" \/ acct.cust = e.cust,
           queue # <<>> => /\ queue[1].sub = c /\ e.kind # "completed"
                           /\ t.cust = stripe[c].cust
    PROVE  InOrderOK'
<1>1. /\ queue' # <<>> /\ Len(queue') = Len(queue) + 1 /\ Len(queue) \in Nat
      /\ \A k \in 1 .. Len(queue) : queue'[k] = queue[k]
      /\ queue'[Len(queue) + 1] = e
  BY AppendProperties, LenProperties DEF BillingTypeOK
<1>2. stripe'[c] = t /\ Paying' \subseteq {c}
  BY DEF Paying, BillingTypeOK
<1>3. CASE queue = <<>>
 <2>1. Len(queue) = 0 /\ Len(queue') = 1 /\ queue'[1] = e
   BY <1>1, <1>3
 <2>2. QueueOK'
   BY <1>2, <2>1 DEF QueueOK
 <2>3. HooksOK'
   BY <1>3 DEF InOrderOK, HooksOK
 <2>4. QED
   BY <1>1, <2>2, <2>3 DEF InOrderOK
<1>4. CASE queue # <<>>
 <2>1. Len(queue) >= 1 /\ QueueOK
   BY <1>1, <1>4, EmptySeq DEF InOrderOK, BillingTypeOK
 <2>2. queue'[1] = queue[1] /\ queue[1].sub = c /\ t.cust = stripe[c].cust
   BY <1>1, <1>4, <2>1
 <2>3. \A k \in 1 .. Len(queue') : /\ queue'[k].sub = c /\ queue'[k].cust = t.cust
                                   /\ k # 1 => queue'[k].kind # "completed"
  <3> TAKE k \in 1 .. Len(queue')
  <3>1. CASE k \in 1 .. Len(queue)
    BY <1>1, <2>1, <2>2, <3>1 DEF QueueOK
  <3>2. CASE k = Len(queue) + 1
    BY <1>1, <1>4, <3>2
  <3>3. QED
    BY <1>1, <3>1, <3>2
 <2>4. QueueOK'
   BY <1>1, <1>2, <2>1, <2>2, <2>3 DEF QueueOK
 <2>5. HooksOK'
   BY <1>1, <2>2 DEF InOrderOK, HooksOK
 <2>6. QED
   BY <1>1, <2>4, <2>5 DEF InOrderOK
<1>5. QED
  BY <1>3, <1>4

LEMMA PaysStep ==
    ASSUME BillingAssumption, BillingTypeOK, CheckoutsOK, InOrderOK, NEW c \in Checkouts, Pays(c)
    PROVE  InOrderOK'
<1> DEFINE s == [st |-> "active", sched |-> FALSE,
                 cust |-> IF checkout[c].cust = NoCheckout THEN c ELSE checkout[c].cust]
           e == Event("completed", c, s)
<1>1. c \in Pending /\ queue = <<>> /\ Paying = {} /\ \A d \in Pending : d = c
  BY DEF Pays, Pending, InOrderOK
<1>2. Pending' = {}
  BY <1>1 DEF Pays, Pending, BillingTypeOK
<1>3. e \in Events /\ e.sub = c /\ e.cust = s.cust /\ Reported(e, s) /\ e.kind = "completed"
  BY DEF Event, Events, Reported, Statuses, BillingTypeOK
<1>4. stripe' = [stripe EXCEPT ![c] = s] /\ queue' = Append(queue, e) /\ UNCHANGED <<acct, hook>>
  BY DEF Pays, Emit
<1> HIDE DEF s, e
<1>5. QED
  BY <1>1, <1>2, <1>3, <1>4, EmitStep

(* A paid subscription is the one the queue is about, or the account's. *)
LEMMA PaidIsCurrent ==
    ASSUME BillingAssumption, BillingTypeOK, CheckoutsOK, InOrderOK, NEW c \in Paying
    PROVE  /\ c \in Checkouts /\ Paying \subseteq {c} /\ Pending = {}
           /\ stripe[c] \in Subscriptions /\ stripe[c].cust \in Checkouts
           /\ queue = <<>> => acct.cust = stripe[c].cust
           /\ queue # <<>> => queue[1].sub = c
<1>1. c \in Checkouts /\ c # NoCheckout
  BY DEF Paying, BillingAssumption
<1>2. stripe[c] \in Subscriptions /\ stripe[c].cust \in Checkouts
  BY <1>1 DEF Paying, BillingTypeOK, CheckoutsOK, Subscriptions
<1>3. queue = <<>> => Paying \subseteq {acct.sub} /\ acct.cust = stripe[c].cust
  BY <1>1 DEF InOrderOK, AccountOK
<1>4. queue # <<>> => Paying \subseteq {queue[1].sub}
  BY DEF InOrderOK, QueueOK
<1>5. Pending = {}
  BY DEF InOrderOK
<1>6. QED
  BY <1>1, <1>2, <1>3, <1>4, <1>5

LEMMA ChangesStep ==
    ASSUME BillingAssumption, BillingTypeOK, CheckoutsOK, InOrderOK, NEW c \in Checkouts,
           NEW st \in {"active", "past_due"}, NEW sched \in BOOLEAN, Changes(c, st, sched)
    PROVE  InOrderOK'
<1> DEFINE s == [stripe[c] EXCEPT !.st = st, !.sched = sched]
           e == Event("updated", c, s)
<1>1. c \in Paying
  BY DEF Changes, Paying
<1>2. Pending' = {}
  BY <1>1, PaidIsCurrent DEF Changes, Pending
<1>3. /\ s \in Subscriptions /\ s.cust = stripe[c].cust
  BY <1>1, PaidIsCurrent DEF Subscriptions, Statuses
<1>4. e \in Events /\ e.sub = c /\ e.cust = s.cust /\ Reported(e, s) /\ e.kind = "updated"
  BY <1>1, <1>3, PaidIsCurrent DEF Event, Events, Reported, Subscriptions
<1>5. stripe' = [stripe EXCEPT ![c] = s] /\ queue' = Append(queue, e) /\ UNCHANGED <<acct, hook>>
  BY DEF Changes, Emit
<1> HIDE DEF s, e
<1>6. QED
  BY <1>1, <1>2, <1>3, <1>4, <1>5, PaidIsCurrent, EmitStep

LEMMA EndsStep ==
    ASSUME BillingAssumption, BillingTypeOK, CheckoutsOK, InOrderOK, NEW c \in Checkouts, Ends(c)
    PROVE  InOrderOK'
<1> DEFINE s == [stripe[c] EXCEPT !.st = "canceled"]
           e == Event("deleted", c, stripe[c])
<1>1. c \in Paying
  BY DEF Ends, Paying
<1>2. Pending' = {}
  BY <1>1, PaidIsCurrent DEF Ends, Pending
<1>3. s.cust = stripe[c].cust /\ s.st = "canceled"
  BY <1>1, PaidIsCurrent DEF Subscriptions
<1>4. e \in Events /\ e.sub = c /\ e.cust = s.cust /\ Reported(e, s) /\ e.kind = "deleted"
  BY <1>1, <1>3, PaidIsCurrent DEF Event, Events, Reported, Subscriptions
<1>5. stripe' = [stripe EXCEPT ![c] = s] /\ queue' = Append(queue, e) /\ UNCHANGED <<acct, hook>>
  BY DEF Ends, BillingTypeOK
<1> HIDE DEF s, e
<1>6. QED
  BY <1>1, <1>2, <1>3, <1>4, <1>5, PaidIsCurrent, EmitStep

(* The oldest event is received: its account is known. *)
LEMMA ReceiveStep ==
    ASSUME BillingTypeOK, InOrderOK, NEW h \in Hooks, NEW k \in DOMAIN queue,
           Receive(h, k), InTurn(k)
    PROVE  InOrderOK'
<1>0. queue # <<>> /\ 1 \in 1 .. Len(queue) /\ DOMAIN queue = 1 .. Len(queue) /\ Len(queue) \in Nat
  BY LenProperties, EmptySeq DEF BillingTypeOK
<1>9. \A j \in 1 .. Len(queue) : queue[j].sub = queue[1].sub
  BY <1>0 DEF InOrderOK, QueueOK
<1>1. k = 1 /\ \A g \in Hooks : hook[g] = <<"idle">>
 <2>1. ~(1 < k)
   BY <1>0, <1>9 DEF InTurn
 <2>2. \A g \in Hooks : hook[g] # <<"idle">> => hook[g][2].sub = queue[k].sub
   BY <1>0, <1>9 DEF InOrderOK, HooksOK
 <2>3. QED
   BY <1>0, <2>1, <2>2 DEF InTurn, IdleHooks
<1>2. queue # <<>> /\ 1 \in 1 .. Len(queue)
  BY <1>0
<1>3. Found(acct, queue[1])
  BY <1>2 DEF InOrderOK, QueueOK, Found
<1>4. /\ hook' = [hook EXCEPT ![h] = <<"write", queue[1]>>]
      /\ UNCHANGED <<acct, checkout, stripe, queue>>
  BY <1>1, <1>3 DEF Receive
<1>5. HooksOK'
  BY <1>1, <1>2, <1>4 DEF HooksOK, BillingTypeOK
<1>6. Pending' = Pending /\ Paying' = Paying /\ AccountOK' = AccountOK /\ QueueOK' = QueueOK
  BY <1>4 DEF Pending, Paying, AccountOK, QueueOK
<1>7. QED
  BY <1>4, <1>5, <1>6 DEF InOrderOK

LEMMA WriteStep ==
    ASSUME BillingAssumption, BillingTypeOK, InOrderOK, NEW h \in Hooks, NEW again \in BOOLEAN,
           Write(h, again)
    PROVE  InOrderOK'
<1> DEFINE e == queue[1]
<1>1. queue # <<>> /\ hook[h][2] = e /\ \A g \in Hooks : hook[g] # <<"idle">> => g = h
  BY DEF Write, InOrderOK, HooksOK
<1>2. QueueOK /\ Pending = {} /\ Len(queue) \in Nat \ {0} /\ e \in Events
  BY <1>1, EmptySeq, ElementOfSeq DEF InOrderOK, BillingTypeOK
<1>3. acct' = Patched(acct, e) /\ UNCHANGED <<checkout, stripe>>
  BY <1>1 DEF Write
<1>4. Pending' = {} /\ Paying' = Paying
  BY <1>2, <1>3 DEF Pending, Paying
<1>5. HooksOK'
  BY <1>1 DEF Write, HooksOK, BillingTypeOK
<1>6. acct'.cust = e.cust /\ acct'.sub = e.sub
  BY <1>2, <1>3 DEF Patched, QueueOK, BillingTypeOK, Events
<1>7. CASE queue' = queue
  BY <1>1, <1>2, <1>3, <1>4, <1>5, <1>6, <1>7 DEF InOrderOK, QueueOK
<1>8. CASE queue' # queue
 <2>1. queue' = RemoveAt(queue, 1)
  <3>1. Contains(queue, e) /\ queue' = RemoveFirst(queue, e)
    BY <1>1, <1>8 DEF Write
  <3>2. PICK i \in 1 .. Len(queue) : queue' = RemoveAt(queue, i) /\ (queue[1] = e => i <= 1)
    BY <1>2, <3>1, RemovedFirst DEF BillingTypeOK
  <3>3. QED
    BY <1>2, <3>2
 <2>2. /\ queue' \in Seq(Events) /\ Len(queue') = Len(queue) - 1
       /\ \A k \in 1 .. Len(queue) - 1 : queue'[k] = queue[k + 1]
  <3>1. 1 \in 1 .. Len(queue) /\ queue \in Seq(Events)
    BY <1>2 DEF BillingTypeOK
  <3>2. \A k \in 1 .. Len(queue) - 1 : ~(k < 1)
    BY <1>2
  <3>3. QED
    BY <2>1, <3>1, <3>2, RemovedAt
 <2>3. CASE Len(queue) = 1
  <3>1. queue' = <<>>
    BY <2>2, <2>3, EmptySeq
  <3>2. Reported(e, stripe[e.sub]) /\ e.cust = stripe[e.sub].cust /\ Paying \subseteq {e.sub}
    BY <1>2, <2>3 DEF QueueOK
  <3>3. /\ acct'.st = stripe[e.sub].st
        /\ acct'.st # "canceled" => acct'.sched = stripe[e.sub].sched
   <4>1. CASE e.kind = "completed"
     BY <1>2, <1>3, <3>2, <4>1 DEF Patched, Reported, Events
   <4>2. CASE e.kind = "updated"
     BY <1>2, <1>3, <3>2, <4>2 DEF Patched, Reported, Events, BillingTypeOK
   <4>3. CASE e.kind = "deleted"
     BY <1>2, <1>3, <3>2, <4>3 DEF Patched, Reported, Events, BillingTypeOK
   <4>4. QED
     BY <1>2, <4>1, <4>2, <4>3 DEF Events
  <3>4. AccountOK'
    BY <1>3, <1>4, <1>6, <3>2, <3>3 DEF AccountOK
  <3>5. QED
    BY <1>4, <1>5, <3>1, <3>4 DEF InOrderOK
 <2>4. CASE Len(queue) # 1
  <3>1. queue' # <<>> /\ Len(queue) >= 2 /\ queue'[1] = queue[2]
    BY <1>2, <2>2, <2>4, EmptySeq
  <3>2. queue'[1].sub = e.sub /\ queue'[1].cust = e.cust
    BY <1>2, <3>1 DEF QueueOK
  <3>3. \A k \in 1 .. Len(queue') : /\ queue'[k].sub = e.sub
                                    /\ queue'[k].cust = stripe[e.sub].cust
                                    /\ queue'[k].kind # "completed"
    BY <1>2, <2>2, <3>1 DEF QueueOK
  <3>4. queue'[Len(queue')] = queue[Len(queue)]
    BY <1>2, <2>2, <3>1
  <3>5. QueueOK'
    BY <1>2, <1>3, <1>4, <1>6, <3>2, <3>3, <3>4 DEF QueueOK
  <3>6. QED
    BY <1>4, <1>5, <3>1, <3>5 DEF InOrderOK
 <2>5. QED
   BY <2>3, <2>4
<1>9. QED
  BY <1>7, <1>8

LEMMA FailsStep ==
    ASSUME BillingTypeOK, InOrderOK, NEW h \in Hooks, Fails(h)
    PROVE  InOrderOK'
<1>1. UNCHANGED <<acct, checkout, stripe, queue>>
  BY DEF Fails
<1>2. HooksOK'
  BY DEF Fails, InOrderOK, HooksOK, BillingTypeOK
<1>3. Pending' = Pending /\ Paying' = Paying /\ AccountOK' = AccountOK /\ QueueOK' = QueueOK
  BY <1>1 DEF Pending, Paying, AccountOK, QueueOK
<1>4. QED
  BY <1>1, <1>2, <1>3 DEF InOrderOK

(* ---- billing: any number of tabs, and events in any order ---------------- *)

(* The queue tells of a subscription its customer and, last, its state. *)
LastTells(q, s, t) ==
    \A k \in 1 .. Len(q) : q[k].sub = s =>
        /\ q[k].cust = t.cust
        /\ (\A j \in 1 .. Len(q) : j > k => q[j].sub # s) => Reported(q[k], t)

(* The event is the oldest of its subscription in the queue. *)
FirstIs(q, s, e) ==
    \E k \in 1 .. Len(q) : q[k] = e /\ \A j \in 1 .. Len(q) : j < k => q[j].sub # s

NoneOf(q, s) == \A k \in 1 .. Len(q) : q[k].sub # s

About(h, s) == hook[h] # <<"idle">> /\ hook[h][2].sub = s

(* A subscription that was taken in turn: one request at a time applies its
   oldest event, and with none left the account on it is as it is.            *)
Follows(s) ==
    /\ LastTells(queue, s, stripe[s])
    /\ \A h \in Hooks : About(h, s) => /\ FirstIs(queue, s, hook[h][2])
                                       /\ \A g \in Hooks : About(g, s) => g = h
    /\ acct.sub = s =>
          /\ acct.cust = stripe[s].cust
          /\ NoneOf(queue, s) => /\ acct.st = stripe[s].st
                                 /\ acct.st # "canceled" => acct.sched = stripe[s].sched

TurnsOK == \A s \in Checkouts \ unsure : Follows(s)

(* Only what was paid is reported, applied and shown. *)
SourceOK ==
    /\ \A k \in 1 .. Len(queue) : stripe[queue[k].sub].st # "free"
    /\ \A h \in Hooks : hook[h] # <<"idle">> => stripe[hook[h][2].sub].st # "free"
    /\ acct.sub # NoCheckout => stripe[acct.sub].st # "free"

(* The customer of a paid checkout is known or still to be delivered. *)
PaidOK ==
    \A c \in Checkouts : checkout[c].at = "done" =>
        acct.cust # NoCheckout \/ \E k \in 1 .. Len(queue) : queue[k].kind = "completed"

BillingInv ==
    /\ BillingTypeOK /\ CheckoutsOK
    /\ SourceOK /\ PaidOK /\ TurnsOK
    /\ careful /\ unsure = {} => InOrderOK

(* Where the elements of a queue are once the one at i is gone. *)
LEMMA Shifted ==
    ASSUME NEW S, NEW s \in Seq(S), NEW i \in 1 .. Len(s), NEW q, q = RemoveAt(s, i)
    PROVE  /\ Len(s) \in Nat /\ Len(q) = Len(s) - 1
           /\ \A k \in 1 .. Len(q) : \/ k < i /\ q[k] = s[k]
                                     \/ k >= i /\ k + 1 \in 1 .. Len(s) /\ q[k] = s[k + 1]
           /\ \A m \in 1 .. Len(s) : /\ m < i => m \in 1 .. Len(q) /\ q[m] = s[m]
                                     /\ m > i => m - 1 \in 1 .. Len(q) /\ q[m - 1] = s[m]
<1>1. /\ Len(s) \in Nat /\ Len(q) = Len(s) - 1
      /\ \A k \in 1 .. Len(s) - 1 : q[k] = IF k < i THEN s[k] ELSE s[k + 1]
  BY RemovedAt, LenProperties
<1>2. ASSUME NEW m \in 1 .. Len(s), m > i
      PROVE  m - 1 \in 1 .. Len(s) - 1 /\ ~(m - 1 < i) /\ (m - 1) + 1 = m
  BY <1>1, <1>2
<1>3. ASSUME NEW m \in 1 .. Len(s), m > i
      PROVE  q[m - 1] = s[m]
  BY <1>1, <1>2, <1>3
<1>4. \A k \in 1 .. Len(q) : \/ k < i /\ q[k] = s[k]
                             \/ k >= i /\ k + 1 \in 1 .. Len(s) /\ q[k] = s[k + 1]
  BY <1>1
<1>5. \A m \in 1 .. Len(s) : m < i => m \in 1 .. Len(q) /\ q[m] = s[m]
  BY <1>1
<1>6. QED
  BY <1>1, <1>2, <1>3, <1>4, <1>5

LEMMA RemovalTells ==
    ASSUME NEW q \in Seq(Events), NEW i \in 1 .. Len(q), NEW r, r = RemoveAt(q, i), NEW s, NEW t,
           LastTells(q, s, t),
           q[i].sub # s \/ \A j \in 1 .. Len(q) : j < i => q[j].sub # s
    PROVE  LastTells(r, s, t)
<1> SUFFICES ASSUME NEW k \in 1 .. Len(r), r[k].sub = s
             PROVE  /\ r[k].cust = t.cust
                    /\ (\A j \in 1 .. Len(r) : j > k => r[j].sub # s) => Reported(r[k], t)
  BY DEF LastTells
<1>0. /\ Len(q) \in Nat /\ Len(r) = Len(q) - 1
      /\ \A m \in 1 .. Len(q) : /\ m < i => m \in 1 .. Len(r) /\ r[m] = q[m]
                                /\ m > i => m - 1 \in 1 .. Len(r) /\ r[m - 1] = q[m]
      /\ \/ k < i /\ r[k] = q[k]
         \/ k >= i /\ k + 1 \in 1 .. Len(q) /\ r[k] = q[k + 1]
  BY Shifted
<1>1. PICK m \in 1 .. Len(q) : /\ r[k] = q[m]
                               /\ \/ k < i /\ m = k
                                  \/ k >= i /\ m = k + 1
  BY <1>0
<1>2. ASSUME \A j \in 1 .. Len(r) : j > k => r[j].sub # s, NEW n \in 1 .. Len(q), n > m
      PROVE  q[n].sub # s
 <2>1. CASE n < i
   BY <1>0, <1>1, <1>2, <2>1
 <2>2. CASE n > i
  <3>1. n - 1 \in 1 .. Len(r) /\ r[n - 1] = q[n] /\ n - 1 > k
    BY <1>0, <1>1, <1>2, <2>2
  <3>2. QED
    BY <1>2, <3>1
 <2>3. CASE n = i
   BY <1>1, <1>2, <2>3
 <2>4. QED
   BY <2>1, <2>2, <2>3
<1>3. QED
  BY <1>1, <1>2 DEF LastTells

LEMMA RemovalFirst ==
    ASSUME NEW q \in Seq(Events), NEW i \in 1 .. Len(q), NEW r, r = RemoveAt(q, i), NEW s, NEW e,
           FirstIs(q, s, e), e.sub = s, q[i].sub # s
    PROVE  FirstIs(r, s, e)
<1>0. /\ Len(q) \in Nat /\ Len(r) = Len(q) - 1
      /\ \A m \in 1 .. Len(q) : /\ m < i => m \in 1 .. Len(r) /\ r[m] = q[m]
                                /\ m > i => m - 1 \in 1 .. Len(r) /\ r[m - 1] = q[m]
      /\ \A k \in 1 .. Len(r) : \/ k < i /\ r[k] = q[k]
                                \/ k >= i /\ k + 1 \in 1 .. Len(q) /\ r[k] = q[k + 1]
  BY Shifted
<1>1. PICK k \in 1 .. Len(q) : q[k] = e /\ \A j \in 1 .. Len(q) : j < k => q[j].sub # s
  BY DEF FirstIs
<1>2. CASE k < i
 <2>1. k \in 1 .. Len(r) /\ r[k] = e
   BY <1>0, <1>1, <1>2
 <2>2. \A j \in 1 .. Len(r) : j < k => r[j].sub # s
   BY <1>0, <1>1, <1>2
 <2>3. QED
   BY <2>1, <2>2 DEF FirstIs
<1>3. CASE k > i
 <2>1. k - 1 \in 1 .. Len(r) /\ r[k - 1] = e
   BY <1>0, <1>1, <1>3
 <2>2. \A j \in 1 .. Len(r) : j < k - 1 => r[j].sub # s
   BY <1>0, <1>1, <1>3
 <2>3. QED
   BY <2>1, <2>2 DEF FirstIs
<1>4. QED
  BY <1>1, <1>2, <1>3

LEMMA RemovalNone ==
    ASSUME NEW q \in Seq(Events), NEW i \in 1 .. Len(q), NEW r, r = RemoveAt(q, i), NEW s,
           NoneOf(r, s)
    PROVE  /\ q[i].sub # s => NoneOf(q, s)
           /\ \A t : q[i].sub = s /\ LastTells(q, s, t) => Reported(q[i], t)
<1>1. \A m \in 1 .. Len(q) : m # i => q[m].sub # s
 <2>1. /\ Len(q) \in Nat
       /\ \A m \in 1 .. Len(q) : /\ m < i => m \in 1 .. Len(r) /\ r[m] = q[m]
                                 /\ m > i => m - 1 \in 1 .. Len(r) /\ r[m - 1] = q[m]
   BY Shifted
 <2>2. QED
   BY <2>1 DEF NoneOf
<1>2. QED
  BY <1>1 DEF NoneOf, LastTells

(* What no step touches of a subscription stays in turn. *)
LEMMA Untouched ==
    ASSUME BillingTypeOK, NEW s \in Checkouts, Follows(s), stripe' = stripe,
           queue' = queue \/ \E i \in 1 .. Len(queue) : queue' = RemoveAt(queue, i) /\ queue[i].sub # s,
           \A h \in Hooks : About(h, s)' => hook'[h] = hook[h],
           acct' = acct \/ acct'.sub # s
    PROVE  Follows(s)'
<1>1. LastTells(queue', s, stripe[s])
  BY RemovalTells DEF BillingTypeOK, Follows
<1>2. \A h \in Hooks : About(h, s)' => About(h, s) /\ hook'[h] = hook[h]
  BY DEF About
<1>3. ASSUME NEW h \in Hooks, About(h, s)
      PROVE  FirstIs(queue', s, hook[h][2])
 <2>1. FirstIs(queue, s, hook[h][2]) /\ hook[h][2].sub = s
   BY <1>3 DEF Follows, About
 <2>2. QED
   BY <2>1, RemovalFirst DEF BillingTypeOK
<1>4. NoneOf(queue', s) => NoneOf(queue, s)
  BY RemovalNone DEF BillingTypeOK
<1>5. \A h \in Hooks : About(h, s)' => /\ FirstIs(queue', s, hook'[h][2])
                                       /\ \A g \in Hooks : About(g, s)' => g = h
  BY <1>2, <1>3 DEF Follows
<1>6. QED
  BY <1>1, <1>4, <1>5 DEF Follows

(* What Stripe does to a subscription, and what it says of it. *)
LEMMA Emission ==
    ASSUME BillingAssumption, BillingTypeOK, CheckoutsOK, NEW c \in Checkouts,
           \/ Pays(c) \/ Ends(c)
           \/ \E st \in {"active", "past_due"}, sched \in BOOLEAN : Changes(c, st, sched)
    PROVE  \E e \in Events, t \in Subscriptions :
              /\ queue' = Append(queue, e) /\ stripe' = [stripe EXCEPT ![c] = t]
              /\ UNCHANGED <<acct, hook, unsure, careful>>
              /\ e.sub = c /\ e.cust = t.cust /\ Reported(e, t) /\ t.st # "free"
              /\ stripe[c].st = "free" \/ t.cust = stripe[c].cust
              /\ \A d \in Checkouts : checkout'[d].at = "done" =>
                     checkout[d].at = "done" \/ e.kind = "completed"
<1>1. CASE Pays(c)
 <2> DEFINE s == [st |-> "active", sched |-> FALSE,
                  cust |-> IF checkout[c].cust = NoCheckout THEN c ELSE checkout[c].cust]
            e == Event("completed", c, s)
 <2>1. stripe[c].st = "free"
   BY <1>1 DEF Pays, CheckoutsOK
 <2>2. /\ e \in Events /\ s \in Subscriptions /\ e.sub = c /\ e.cust = s.cust /\ Reported(e, s)
       /\ e.kind = "completed" /\ s.st # "free"
   BY DEF Event, Events, Reported, Statuses, Subscriptions, BillingTypeOK
 <2>3. queue' = Append(queue, e) /\ stripe' = [stripe EXCEPT ![c] = s]
       /\ UNCHANGED <<acct, hook, unsure, careful>>
   BY <1>1 DEF Pays, Emit
 <2> HIDE DEF s, e
 <2>4. QED
   BY <2>1, <2>2, <2>3
<1>2. CASE Ends(c)
 <2> DEFINE s == [stripe[c] EXCEPT !.st = "canceled"]
            e == Event("deleted", c, stripe[c])
 <2>1. stripe[c] \in Subscriptions /\ stripe[c].cust \in Checkouts
   BY <1>2 DEF Ends, BillingTypeOK, Subscriptions, CheckoutsOK
 <2>2. /\ e \in Events /\ s \in Subscriptions /\ e.sub = c /\ e.cust = s.cust /\ Reported(e, s)
       /\ s.st # "free" /\ s.cust = stripe[c].cust
   BY <2>1 DEF Event, Events, Reported, Statuses, Subscriptions
 <2>3. /\ queue' = Append(queue, e) /\ stripe' = [stripe EXCEPT ![c] = s]
       /\ UNCHANGED <<acct, hook, unsure, careful>> /\ checkout' = checkout
   BY <1>2 DEF Ends, BillingTypeOK
 <2> HIDE DEF s, e
 <2>4. QED
   BY <2>2, <2>3
<1>3. ASSUME NEW st \in {"active", "past_due"}, NEW sched \in BOOLEAN, Changes(c, st, sched)
      PROVE  \E e \in Events, t \in Subscriptions :
              /\ queue' = Append(queue, e) /\ stripe' = [stripe EXCEPT ![c] = t]
              /\ UNCHANGED <<acct, hook, unsure, careful>>
              /\ e.sub = c /\ e.cust = t.cust /\ Reported(e, t) /\ t.st # "free"
              /\ stripe[c].st = "free" \/ t.cust = stripe[c].cust
              /\ \A d \in Checkouts : checkout'[d].at = "done" =>
                     checkout[d].at = "done" \/ e.kind = "completed"
 <2> DEFINE s == [stripe[c] EXCEPT !.st = st, !.sched = sched]
            e == Event("updated", c, s)
 <2>1. stripe[c] \in Subscriptions /\ stripe[c].cust \in Checkouts
   BY <1>3 DEF Changes, BillingTypeOK, Subscriptions, CheckoutsOK
 <2>2. s \in Subscriptions /\ s.cust = stripe[c].cust /\ s.st = st
   BY <2>1 DEF Statuses, Subscriptions
 <2>3. /\ e \in Events /\ e.sub = c /\ e.cust = s.cust /\ Reported(e, s) /\ s.st # "free"
   BY <2>1, <2>2 DEF Event, Events, Reported, Subscriptions
 <2>4. /\ queue' = Append(queue, e) /\ stripe' = [stripe EXCEPT ![c] = s]
       /\ UNCHANGED <<acct, hook, unsure, careful>> /\ checkout' = checkout
   BY <1>3 DEF Changes, Emit
 <2> HIDE DEF s, e
 <2>5. QED
   BY <2>2, <2>3, <2>4
<1>4. QED
  BY <1>1, <1>2, <1>3

LEMMA EmissionFollows ==
    ASSUME BillingAssumption, BillingTypeOK, CheckoutsOK, SourceOK, PaidOK, TurnsOK,
           NEW c \in Checkouts, NEW e \in Events, NEW t \in Subscriptions,
           queue' = Append(queue, e), stripe' = [stripe EXCEPT ![c] = t],
           UNCHANGED <<acct, hook, unsure, careful>>,
           e.sub = c, e.cust = t.cust, Reported(e, t), t.st # "free",
           stripe[c].st = "free" \/ t.cust = stripe[c].cust,
           \A d \in Checkouts : checkout'[d].at = "done" =>
               checkout[d].at = "done" \/ e.kind = "completed"
    PROVE  SourceOK' /\ PaidOK' /\ TurnsOK'
<1>1. /\ Len(queue') = Len(queue) + 1 /\ Len(queue) \in Nat
      /\ \A k \in 1 .. Len(queue) : queue'[k] = queue[k]
      /\ queue'[Len(queue) + 1] = e
  BY AppendProperties, LenProperties DEF BillingTypeOK
<1>2. \A d \in Checkouts : stripe'[d] = IF d = c THEN t ELSE stripe[d]
  BY DEF BillingTypeOK
<1>3. \A k \in 1 .. Len(queue) : queue[k].sub \in Checkouts
 <2>1. \A k \in 1 .. Len(queue) : queue[k] \in Events
   BY ElementOfSeq DEF BillingTypeOK
 <2>2. QED
   BY <2>1 DEF Events
<1>4. \A h \in Hooks : hook[h] # <<"idle">> => hook[h][2].sub \in Checkouts
  BY HookType DEF Events
<1>5. SourceOK'
 <2>1. \A k \in 1 .. Len(queue') : stripe'[queue'[k].sub].st # "free"
  <3> TAKE k \in 1 .. Len(queue')
  <3>1. k \in 1 .. Len(queue) \/ k = Len(queue) + 1
    BY <1>1
  <3>2. QED
    BY <1>1, <1>2, <1>3, <3>1 DEF SourceOK
 <2>2. QED
   BY <1>2, <1>4, <2>1 DEF SourceOK, BillingTypeOK
<1>6. PaidOK'
  BY <1>1 DEF PaidOK
<1>7. ASSUME NEW s \in Checkouts \ unsure, s # c
      PROVE  Follows(s)'
 <2>1. LastTells(queue', s, stripe[s])
  <3> SUFFICES ASSUME NEW k \in 1 .. Len(queue'), queue'[k].sub = s
               PROVE  /\ queue'[k].cust = stripe[s].cust
                      /\ (\A j \in 1 .. Len(queue') : j > k => queue'[j].sub # s) =>
                             Reported(queue'[k], stripe[s])
    BY DEF LastTells
  <3>1. k \in 1 .. Len(queue) /\ queue'[k] = queue[k]
    BY <1>1, <1>7
  <3>2. (\A j \in 1 .. Len(queue') : j > k => queue'[j].sub # s) =>
            \A j \in 1 .. Len(queue) : j > k => queue[j].sub # s
    BY <1>1
  <3>3. QED
    BY <1>7, <3>1, <3>2 DEF TurnsOK, Follows, LastTells
 <2>2. \A h \in Hooks : About(h, s) => FirstIs(queue', s, hook[h][2])
  <3> SUFFICES ASSUME NEW h \in Hooks, About(h, s) PROVE FirstIs(queue', s, hook[h][2])
    OBVIOUS
  <3>1. PICK k \in 1 .. Len(queue) : /\ queue[k] = hook[h][2]
                                     /\ \A j \in 1 .. Len(queue) : j < k => queue[j].sub # s
    BY <1>7 DEF TurnsOK, Follows, FirstIs
  <3>2. k \in 1 .. Len(queue') /\ \A j \in 1 .. Len(queue') : j < k => queue'[j].sub # s
    BY <1>1, <3>1
  <3>3. QED
    BY <1>1, <3>1, <3>2 DEF FirstIs
 <2>3. NoneOf(queue', s) => NoneOf(queue, s)
   BY <1>1 DEF NoneOf
 <2>4. stripe'[s] = stripe[s] /\ \A h \in Hooks : About(h, s)' <=> About(h, s)
   BY <1>2, <1>7 DEF About
 <2>5. QED
   BY <1>7, <2>1, <2>2, <2>3, <2>4 DEF TurnsOK, Follows
<1>8. ASSUME c \notin unsure
      PROVE  Follows(c)'
 <2>1. Follows(c) /\ c # NoCheckout
   BY <1>8 DEF TurnsOK, BillingAssumption
 <2>2. ASSUME NEW k \in 1 .. Len(queue), queue[k].sub = c
       PROVE  queue[k].cust = t.cust
   BY <2>1, <2>2 DEF Follows, LastTells, SourceOK
 <2>3. LastTells(queue', c, t)
  <3> SUFFICES ASSUME NEW k \in 1 .. Len(queue'), queue'[k].sub = c
               PROVE  /\ queue'[k].cust = t.cust
                      /\ (\A j \in 1 .. Len(queue') : j > k => queue'[j].sub # c) =>
                             Reported(queue'[k], t)
    BY DEF LastTells
  <3>1. CASE k \in 1 .. Len(queue)
   <4>1. Len(queue) + 1 \in 1 .. Len(queue') /\ Len(queue) + 1 > k
     BY <1>1, <3>1
   <4>2. QED
     BY <1>1, <2>2, <3>1, <4>1
  <3>2. CASE k = Len(queue) + 1
    BY <1>1, <3>2
  <3>3. QED
    BY <1>1, <3>1, <3>2
 <2>4. \A h \in Hooks : About(h, c) => FirstIs(queue', c, hook[h][2])
  <3> SUFFICES ASSUME NEW h \in Hooks, About(h, c) PROVE FirstIs(queue', c, hook[h][2])
    OBVIOUS
  <3>1. PICK k \in 1 .. Len(queue) : /\ queue[k] = hook[h][2]
                                     /\ \A j \in 1 .. Len(queue) : j < k => queue[j].sub # c
    BY <2>1 DEF Follows, FirstIs
  <3>2. k \in 1 .. Len(queue') /\ \A j \in 1 .. Len(queue') : j < k => queue'[j].sub # c
    BY <1>1, <3>1
  <3>3. QED
    BY <1>1, <3>1, <3>2 DEF FirstIs
 <2>5. ~NoneOf(queue', c)
  <3>1. Len(queue) + 1 \in 1 .. Len(queue')
    BY <1>1
  <3>2. QED
    BY <1>1, <3>1 DEF NoneOf
 <2>6. acct.sub = c => acct.cust = t.cust
   BY <2>1 DEF Follows, SourceOK
 <2>7. stripe'[c] = t /\ \A h \in Hooks : About(h, c)' <=> About(h, c)
   BY <1>2 DEF About
 <2>8. QED
   BY <2>1, <2>3, <2>4, <2>5, <2>6, <2>7 DEF Follows
<1>9. QED
  BY <1>5, <1>6, <1>7, <1>8 DEF TurnsOK

LEMMA ReceiveFollows ==
    ASSUME BillingTypeOK, SourceOK, PaidOK, TurnsOK, NEW h \in Hooks, NEW k \in DOMAIN queue,
           Receive(h, k)
    PROVE  SourceOK' /\ PaidOK' /\ TurnsOK'
<1> DEFINE e == queue[k]
<1>0. k \in 1 .. Len(queue) /\ DOMAIN queue = 1 .. Len(queue) /\ e \in Events /\ queue \in Seq(Events)
  BY LenProperties, ElementOfSeq DEF BillingTypeOK
<1>1. UNCHANGED <<acct, checkout, stripe>> /\ unsure \subseteq unsure'
  BY DEF Receive
<1>2. \/ Found(acct, e) /\ hook' = [hook EXCEPT ![h] = <<"write", e>>] /\ queue' = queue
      \/ ~Found(acct, e) /\ hook' = hook /\ queue' = RemoveAt(queue, k)
  BY DEF Receive
<1>3. /\ \A m \in 1 .. Len(queue') : \E n \in 1 .. Len(queue) : queue'[m] = queue[n]
      /\ \A n \in 1 .. Len(queue) : queue[n].kind = "completed" =>
             \E m \in 1 .. Len(queue') : queue'[m] = queue[n]
 <2>1. CASE queue' = queue
   BY <2>1
 <2>2. CASE ~Found(acct, e) /\ queue' = RemoveAt(queue, k)
  <3>0. k \in 1 .. Len(queue) /\ queue \in Seq(Events) /\ queue' = RemoveAt(queue, k)
    BY <1>0, <2>2
  <3>1. e.kind # "completed"
    BY <2>2 DEF Found
  <3>2. /\ Len(queue) \in Nat /\ Len(queue') = Len(queue) - 1
        /\ \A m \in 1 .. Len(queue') : \/ m < k /\ queue'[m] = queue[m]
                                       \/ m >= k /\ m + 1 \in 1 .. Len(queue) /\ queue'[m] = queue[m + 1]
        /\ \A m \in 1 .. Len(queue) : /\ m < k => m \in 1 .. Len(queue') /\ queue'[m] = queue[m]
                                      /\ m > k => m - 1 \in 1 .. Len(queue') /\ queue'[m - 1] = queue[m]
    BY <3>0, Shifted
  <3>3. QED
    BY <3>1, <3>2
 <2>3. QED
   BY <1>2, <2>1, <2>2
<1>4. SourceOK'
 <2>1. \A m \in 1 .. Len(queue') : stripe'[queue'[m].sub].st # "free"
   BY <1>1, <1>3 DEF SourceOK
 <2>2. \A g \in Hooks : hook'[g] = hook[g] \/ hook'[g] = <<"write", queue[k]>>
   BY <1>2 DEF BillingTypeOK
 <2>4. stripe[queue[k].sub].st # "free"
   BY <1>0 DEF SourceOK
 <2>5. \A g \in Hooks : hook'[g] # <<"idle">> => stripe[hook'[g][2].sub].st # "free"
   BY <2>2, <2>4 DEF SourceOK
 <2>6. QED
   BY <1>1, <2>1, <2>5 DEF SourceOK
<1>5. PaidOK'
  BY <1>1, <1>3 DEF PaidOK
<1>6. ASSUME NEW s \in Checkouts \ unsure', s # e.sub
      PROVE  Follows(s)'
 <2>1. Follows(s)
   BY <1>1, <1>6 DEF TurnsOK
 <2>2. \A g \in Hooks : About(g, s)' => hook'[g] = hook[g]
   BY <1>2, <1>6 DEF About, BillingTypeOK
 <2>3. QED
   BY <1>0, <1>1, <1>2, <1>6, <2>1, <2>2, Untouched
<1>7. ASSUME NEW s \in Checkouts \ unsure', s = e.sub
      PROVE  Follows(s)'
 <2>1. /\ \A j \in 1 .. Len(queue) : j < k => queue[j].sub # s
       /\ \A g \in Hooks : ~About(g, s)
       /\ s \in Checkouts \ unsure
  <3>1. InTurn(k)
    BY <1>7 DEF Receive
  <3>2. QED
    BY <1>0, <1>1, <1>7, <3>1 DEF InTurn, IdleHooks, About, Events
 <2>2. Follows(s)
   BY <2>1 DEF TurnsOK
 <2>3. LastTells(queue', s, stripe[s])
   BY <1>0, <1>2, <2>1, <2>2, RemovalTells DEF Follows
 <2>4. CASE Found(acct, e)
  <3>1. hook' = [hook EXCEPT ![h] = <<"write", e>>] /\ queue' = queue
    BY <1>2, <2>4
  <3>2. \A g \in Hooks : About(g, s)' => g = h /\ hook'[g][2] = e
    BY <2>1, <3>1 DEF About, BillingTypeOK
  <3>3. FirstIs(queue', s, e)
    BY <1>0, <2>1, <3>1 DEF FirstIs
  <3>4. QED
    BY <1>1, <2>2, <2>3, <3>1, <3>2, <3>3 DEF Follows
 <2>5. CASE ~Found(acct, e)
  <3>1. acct.sub # s
    BY <1>0, <1>7, <2>2, <2>5 DEF Follows, LastTells, Found
  <3>2. \A g \in Hooks : ~About(g, s)'
    BY <1>2, <2>1, <2>5 DEF About
  <3>3. QED
    BY <1>1, <2>3, <3>1, <3>2 DEF Follows
 <2>6. QED
   BY <2>4, <2>5
<1>8. QED
  BY <1>4, <1>5, <1>6, <1>7 DEF TurnsOK

LEMMA WriteFollows ==
    ASSUME BillingAssumption, BillingTypeOK, SourceOK, PaidOK, TurnsOK,
           NEW h \in Hooks, NEW again \in BOOLEAN, Write(h, again)
    PROVE  SourceOK' /\ PaidOK' /\ TurnsOK'
<1> DEFINE e == hook[h][2]
<1>0. e \in Events /\ e.sub \in Checkouts /\ e.sub # NoCheckout /\ hook[h] # <<"idle">> /\ queue \in Seq(Events)
  BY HookType DEF Write, Events, BillingAssumption, BillingTypeOK
<1>1. /\ UNCHANGED <<checkout, stripe>> /\ unsure \subseteq unsure' /\ acct' = Patched(acct, e)
      /\ hook' = [hook EXCEPT ![h] = <<"idle">>]
      /\ e.sub \notin unsure' => Found(acct, e)
  BY DEF Write
<1>2. /\ acct'.sub = e.sub
      /\ e.kind = "completed" => acct'.cust = e.cust
      /\ e.kind # "completed" => acct'.cust = acct.cust
  BY <1>0, <1>1 DEF Patched, BillingTypeOK, Events
<1>3. \/ queue' = queue
      \/ \E i \in 1 .. Len(queue) : /\ queue[i] = e /\ queue' = RemoveAt(queue, i)
                                    /\ \A j \in 1 .. Len(queue) : queue[j] = e => i <= j
  BY <1>0, RemovedFirst DEF Write
<1>4. /\ \A m \in 1 .. Len(queue') : \E n \in 1 .. Len(queue) : queue'[m] = queue[n]
      /\ \A n \in 1 .. Len(queue) : queue[n].kind = "completed" /\ e.kind # "completed" =>
             \E m \in 1 .. Len(queue') : queue'[m] = queue[n]
 <2>1. CASE queue' = queue
   BY <2>1
 <2>2. ASSUME NEW i \in 1 .. Len(queue), queue[i] = e, queue' = RemoveAt(queue, i)
       PROVE  /\ \A m \in 1 .. Len(queue') : \E n \in 1 .. Len(queue) : queue'[m] = queue[n]
              /\ \A n \in 1 .. Len(queue) : queue[n].kind = "completed" /\ e.kind # "completed" =>
                     \E m \in 1 .. Len(queue') : queue'[m] = queue[n]
  <3>2. /\ Len(queue) \in Nat /\ Len(queue') = Len(queue) - 1
        /\ \A m \in 1 .. Len(queue') : \/ m < i /\ queue'[m] = queue[m]
                                       \/ m >= i /\ m + 1 \in 1 .. Len(queue) /\ queue'[m] = queue[m + 1]
        /\ \A m \in 1 .. Len(queue) : /\ m < i => m \in 1 .. Len(queue') /\ queue'[m] = queue[m]
                                      /\ m > i => m - 1 \in 1 .. Len(queue') /\ queue'[m - 1] = queue[m]
    BY <1>0, <2>2, Shifted
  <3>3. \A m \in 1 .. Len(queue') : \E n \in 1 .. Len(queue) : queue'[m] = queue[n]
    BY <3>2
  <3>4. \A n \in 1 .. Len(queue) : queue[n].kind = "completed" /\ e.kind # "completed" => n < i \/ n > i
    BY <2>2, <3>2
  <3>5. QED
    BY <3>2, <3>3, <3>4
 <2>3. QED
   BY <1>3, <2>1, <2>2
<1>5. SourceOK'
 <2>1. \A m \in 1 .. Len(queue') : stripe'[queue'[m].sub].st # "free"
   BY <1>1, <1>4 DEF SourceOK
 <2>2. \A g \in Hooks : hook'[g] # <<"idle">> => hook[g] # <<"idle">> /\ hook'[g] = hook[g]
   BY <1>1 DEF BillingTypeOK
 <2>3. stripe[e.sub].st # "free"
   BY <1>0 DEF SourceOK
 <2>4. QED
   BY <1>1, <1>2, <2>1, <2>2, <2>3 DEF SourceOK
<1>6. PaidOK'
 <2>1. CASE e.kind = "completed"
   BY <1>0, <1>2, <2>1 DEF PaidOK, Events, BillingAssumption
 <2>2. CASE e.kind # "completed"
   BY <1>1, <1>2, <1>4, <2>2 DEF PaidOK
 <2>3. QED
   BY <2>1, <2>2
<1>7. ASSUME NEW r \in Checkouts \ unsure', r # e.sub
      PROVE  Follows(r)'
 <2>1. Follows(r)
   BY <1>1, <1>7 DEF TurnsOK
 <2>2. \A g \in Hooks : About(g, r)' => hook'[g] = hook[g]
   BY <1>1 DEF About, BillingTypeOK
 <2>3. queue' = queue \/ \E i \in 1 .. Len(queue) : queue' = RemoveAt(queue, i) /\ queue[i].sub # r
   BY <1>3, <1>7
 <2>4. QED
   BY <1>1, <1>2, <1>7, <2>1, <2>2, <2>3, Untouched
<1>8. ASSUME NEW s \in Checkouts \ unsure', s = e.sub
      PROVE  Follows(s)'
 <2>1. Follows(s) /\ About(h, s) /\ Found(acct, e)
   BY <1>0, <1>1, <1>8 DEF TurnsOK, About
 <2>0. e.sub = s
   BY <1>8
 <2>2. PICK k \in 1 .. Len(queue) : queue[k] = e /\ \A j \in 1 .. Len(queue) : j < k => queue[j].sub # s
   BY <2>1 DEF Follows, FirstIs
 <2>3. Len(queue) \in Nat /\ e.cust = stripe[s].cust
   BY <1>0, <2>0, <2>1, <2>2, LenProperties DEF Follows, LastTells
 <2>4. queue' = queue \/ queue' = RemoveAt(queue, k)
  <3>1. ASSUME NEW i \in 1 .. Len(queue), queue[i] = e, \A j \in 1 .. Len(queue) : queue[j] = e => i <= j
        PROVE  i = k
    BY <2>0, <2>2, <2>3, <3>1
  <3>2. QED
    BY <1>3, <3>1
 <2>5. LastTells(queue', s, stripe[s])
   BY <1>0, <2>0, <2>1, <2>2, <2>4, RemovalTells DEF Follows
 <2>6. \A g \in Hooks : ~About(g, s)'
  <3> SUFFICES ASSUME NEW g \in Hooks, About(g, s)' PROVE FALSE
    OBVIOUS
  <3>1. g # h
    BY <1>1 DEF About, BillingTypeOK
  <3>2. About(g, s)
    BY <1>1, <3>1 DEF About, BillingTypeOK
  <3>3. QED
    BY <2>1, <3>1, <3>2 DEF Follows
 <2>7. acct'.cust = stripe[s].cust /\ acct'.sub = s
   BY <1>0, <1>2, <1>8, <2>1, <2>3 DEF Found, Events
 <2>8. ASSUME NoneOf(queue', s)
       PROVE  /\ acct'.st = stripe[s].st
              /\ acct'.st # "canceled" => acct'.sched = stripe[s].sched
  <3>1. queue' = RemoveAt(queue, k)
    BY <2>0, <2>2, <2>4, <2>8 DEF NoneOf
  <3>2. Reported(e, stripe[s])
    BY <1>0, <2>0, <2>1, <2>2, <2>8, <3>1, RemovalNone DEF Follows
  <3>3. CASE e.kind = "completed"
    BY <1>0, <1>1, <3>2, <3>3 DEF Patched, Reported, Events
  <3>4. CASE e.kind = "updated"
    BY <1>0, <1>1, <3>2, <3>4 DEF Patched, Reported, Events, BillingTypeOK
  <3>5. CASE e.kind = "deleted"
    BY <1>0, <1>1, <3>2, <3>5 DEF Patched, Reported, Events, BillingTypeOK
  <3>6. QED
    BY <1>0, <3>3, <3>4, <3>5 DEF Events
 <2>9. QED
   BY <1>1, <2>5, <2>6, <2>7, <2>8 DEF Follows
<1>9. QED
  BY <1>5, <1>6, <1>7, <1>8 DEF TurnsOK

LEMMA FollowsKept ==
    ASSUME BillingAssumption, BillingTypeOK, CheckoutsOK, SourceOK, PaidOK, TurnsOK,
           [BillingNext]_billingVars
    PROVE  SourceOK' /\ PaidOK' /\ TurnsOK'
<1>1. ASSUME NEW c \in Checkouts, Checkout(c) \/ Opens(c)
      PROVE  SourceOK' /\ PaidOK' /\ TurnsOK'
 <2>1. UNCHANGED <<acct, stripe, queue, hook, unsure>>
   BY <1>1 DEF Checkout, Opens
 <2>2. \A d \in Checkouts : checkout'[d].at = "done" => checkout[d].at = "done"
   BY <1>1 DEF Checkout, Opens, BillingTypeOK
 <2>3. QED
   BY <2>1, <2>2 DEF SourceOK, PaidOK, TurnsOK, Follows, About
<1>2. ASSUME NEW c \in Checkouts,
             \/ Pays(c) \/ Ends(c)
             \/ \E st \in {"active", "past_due"}, sched \in BOOLEAN : Changes(c, st, sched)
      PROVE  SourceOK' /\ PaidOK' /\ TurnsOK'
  BY <1>2, Emission, EmissionFollows
<1>3. ASSUME NEW h \in Hooks, Fails(h)
      PROVE  SourceOK' /\ PaidOK' /\ TurnsOK'
 <2>1. UNCHANGED <<acct, checkout, stripe, queue, unsure>>
   BY <1>3 DEF Fails
 <2>2. \A g \in Hooks : hook'[g] # <<"idle">> => hook[g] # <<"idle">> /\ hook'[g] = hook[g]
   BY <1>3 DEF Fails, BillingTypeOK
 <2>3. SourceOK' /\ PaidOK'
   BY <2>1, <2>2 DEF SourceOK, PaidOK
 <2>4. \A s \in Checkouts \ unsure : Follows(s)'
   BY <2>1, <2>2, Untouched DEF TurnsOK, About
 <2>5. QED
   BY <2>1, <2>3, <2>4 DEF TurnsOK
<1>4. CASE UNCHANGED billingVars
  BY <1>4 DEF billingVars, SourceOK, PaidOK, TurnsOK, Follows, About
<1>5. QED
  BY <1>1, <1>2, <1>3, <1>4, ReceiveFollows, WriteFollows DEF BillingNext

LEMMA BillingKeeps ==
    ASSUME BillingAssumption, BillingInv, [BillingNext]_billingVars
    PROVE  BillingInv'
<1>0. BillingTypeOK /\ CheckoutsOK /\ SourceOK /\ PaidOK /\ TurnsOK
  BY DEF BillingInv
<1>1. BillingTypeOK' /\ CheckoutsOK' /\ SourceOK' /\ PaidOK' /\ TurnsOK'
  BY <1>0, TypeKept, FollowsKept
<1>2. ASSUME careful', unsure' = {}
      PROVE  InOrderOK'
 <2>1. careful /\ unsure = {}
   BY <1>2 DEF BillingNext, billingVars, Checkout, Opens, Pays, Ends, Changes, Emit, Receive, Write, Fails
 <2>2. InOrderOK
   BY <2>1 DEF BillingInv
 <2>3. CASE UNCHANGED billingVars
   BY <2>2, <2>3 DEF billingVars, InOrderOK, Pending, Paying, AccountOK, QueueOK, HooksOK
 <2>4. ASSUME NEW h \in Hooks, NEW k \in DOMAIN queue, Receive(h, k)
       PROVE  InTurn(k)
   BY <1>2, <2>4 DEF Receive
 <2>5. QED
   BY <1>0, <1>2, <2>2, <2>3, <2>4, CheckoutStep, OpensStep, PaysStep, ChangesStep, EndsStep,
      ReceiveStep, WriteStep, FailsStep DEF BillingNext
<1>3. QED
  BY <1>1, <1>2 DEF BillingInv

LEMMA BillingStarts == BillingAssumption /\ BillingInit => BillingInv
<1> SUFFICES ASSUME BillingAssumption, BillingInit
             PROVE  BillingInv
  OBVIOUS
<1>1. BillingTypeOK
  BY EmptySeq DEF BillingInit, BillingTypeOK, BillingAssumption, Statuses
<1>2. CheckoutsOK /\ Pending = {} /\ Paying = {}
  BY DEF BillingInit, CheckoutsOK, Pending, Paying
<1>3. AccountOK /\ HooksOK
  BY <1>2 DEF BillingInit, AccountOK, HooksOK
<1>4. SourceOK /\ PaidOK /\ TurnsOK
 <2>1. Len(queue) = 0 /\ acct.sub = NoCheckout /\ \A h \in Hooks : hook[h] = <<"idle">>
   BY DEF BillingInit
 <2>2. \A c \in Checkouts : checkout[c].at # "done" /\ c # NoCheckout
   BY DEF BillingInit, BillingAssumption
 <2>3. QED
   BY <2>1, <2>2 DEF SourceOK, PaidOK, TurnsOK, Follows, LastTells, About
<1>5. QED
  BY <1>1, <1>2, <1>3, <1>4 DEF BillingInv, InOrderOK, BillingInit

(* The strengthening the promises of billing rest on, for any tabs, requests  *)
(* and redeliveries: of a subscription taken in turn the oldest event is      *)
(* applied by one request, and the last tells its state; what was paid is     *)
(* known or still to be delivered; and with nothing out of turn or hurried    *)
(* everything in flight is of one subscription.                               *)
THEOREM BillingIsSound == BillingAssumption => (BillingSpec => []BillingInv)
<1> SUFFICES ASSUME BillingAssumption
             PROVE  BillingSpec => []BillingInv
  OBVIOUS
<1>1. BillingInit => BillingInv
  BY BillingStarts
<1>2. BillingInv /\ [BillingNext]_billingVars => BillingInv'
  BY BillingKeeps
<1>3. QED
  BY <1>1, <1>2, PTL DEF BillingSpec

LEMMA SoundIsSafe == BillingAssumption /\ BillingInv => BillingSafe
<1> SUFFICES ASSUME BillingAssumption, BillingInv
             PROVE  BillingSafe
  OBVIOUS
<1>1. BillingTypeOK
  BY DEF BillingInv
<1>2. Settled
  BY EmptySeq DEF BillingInv, TurnsOK, Follows, NoneOf, Settled, Quiet, BillingTypeOK
<1>3. PaidCanManage
  BY DEF BillingInv, PaidOK, PaidCanManage, Quiet
<1>4. ASSUME careful, unsure = {}
      PROVE  OneSubscription /\ PaidIsServed
 <2>1. InOrderOK
   BY <1>4 DEF BillingInv
 <2>2. OneSubscription
   BY <2>1 DEF InOrderOK, AccountOK, QueueOK, OneSubscription
 <2>3. PaidIsServed
   BY <2>1 DEF InOrderOK, AccountOK, PaidIsServed, Quiet, Paying, BillingAssumption
 <2>4. QED
   BY <2>2, <2>3
<1>5. QED
  BY <1>1, <1>2, <1>3, <1>4 DEF BillingSafe

(* billing.ts and stripe-webhook.ts: when Stripe has nothing more to deliver,  *)
(* the account shows the state of the subscription it is on, in any order and  *)
(* with any tabs, if the events of that one were taken in turn, and can be     *)
(* managed; and it pays one subscription as long as nothing came out of turn   *)
(* and no checkout began while another was unsettled.                          *)
THEOREM BillingIsSafe == BillingAssumption => (BillingSpec => []BillingSafe)
<1> SUFFICES ASSUME BillingAssumption
             PROVE  BillingSpec => []BillingSafe
  OBVIOUS
<1>1. BillingInv => BillingSafe
  BY SoundIsSafe
<1>2. QED
  BY <1>1, BillingIsSound, PTL

(* ---- the skill registry ----------------------------------------------------- *)

(* A transaction that activates a skill as live: after its gate, or always. *)
Activating(c) == tx[c].pc \in {"scan", "collapse", "activate"} /\ tx[c].as = "active"

(* What a request has settled by the line it is at. *)
RequestSound(c) ==
    /\ tx[c].pc # "idle" => /\ tx[c].op \in Ops /\ tx[c].s \in Skills
                            /\ tx[c].as \in {"active", "pending-review"}
    /\ tx[c].pc = "gate" => tx[c].op = "publish" /\ tx[c].as = "active"
    /\ tx[c].pc = "read" => tx[c].op \in {"approve", "reactivate"}
    /\ tx[c].pc = "decide" => tx[c].op = "verify"
    /\ tx[c].pc \in {"scan", "collapse"} => tx[c].as = "active"
    /\ tx[c].op \in Ops \ {"publish"} => tx[c].as = "active"
    /\ Activating(c) /\ tx[c].op \in {"publish", "verify"} =>
          \A t \in tx[c].saw \ {tx[c].s} : Entry[t] = Entry[tx[c].s]
    /\ Activating(c) /\ tx[c].op = "verify" => draft[c][tx[c].s].st = "pending-review"

(* A draft is of a row the transaction may move, and locks it: the row is   *)
(* as it was when it was drafted.                                           *)
DraftSound(c) ==
    \A t \in Skills : draft[c][t] # Nothing =>
        /\ Activating(c) /\ \A d \in Clients : draft[d][t] # Nothing => d = c
        /\ t = tx[c].s => /\ tx[c].op = "verify" /\ rows[t].st = "pending-review"
                          /\ draft[c][t].st = "pending-review"
        /\ t # tx[c].s => /\ draft[c][t].st = "superseded" /\ draft[c][t].sup
                          /\ rows[t].st \in {"active", "demoted", "pending-review"}

OneLive == \A s, t \in Skills : Served(rows[s]) /\ Served(rows[t]) => s = t

SkillsInv ==
    /\ RegistryTypeOK /\ OneLive
    /\ \A c \in Clients : RequestSound(c) /\ DraftSound(c)

LEMMA AtMostOne ==
  ASSUME NEW S, \A x, y \in S : x = y
  PROVE  IsFiniteSet(S) /\ Cardinality(S) <= 1
<1>1. CASE S = {}
  BY <1>1, FS_EmptySet
<1>2. CASE S # {}
 <2>1. PICK x : x \in S
   BY <1>2
 <2>2. S = {x}
   BY <2>1
 <2>3. IsFiniteSet({x}) /\ Cardinality({x}) = 1
   BY FS_Singleton
 <2>4. IsFiniteSet(S) /\ Cardinality(S) = 1
   BY <2>2, <2>3
 <2>5. QED
   BY <2>4
<1>3. QED
  BY <1>1, <1>2

Locks == \A t \in Skills : \A c, d \in Clients :
             draft[c][t] # Nothing /\ draft[d][t] # Nothing => c = d

LEMMA LocksHold == SkillsInv => Locks
BY DEF SkillsInv, DraftSound, Locks

LEMMA NothingIsNoRow ==
  RegistryConstants => Nothing \notin SkillRows /\ Blank \in SkillRows /\ Idle \in Requested
                       /\ ~Served(Nothing) /\ ~Served(Blank)
<1> SUFFICES ASSUME RegistryConstants
             PROVE  Nothing \notin SkillRows /\ Blank \in SkillRows /\ Idle \in Requested
                    /\ ~Served(Nothing) /\ ~Served(Blank)
  OBVIOUS
<1>1. Nothing.st = "unwritten" /\ Blank.st = "none"
  BY DEF Nothing, Blank
<1>2. Nothing \notin SkillRows
  BY <1>1 DEF SkillRows, SkillStatuses
<1>3. ~Served(Nothing) /\ ~Served(Blank)
  BY <1>1 DEF Served
<1>4. Blank \in SkillRows
  BY DEF Blank, SkillRows, SkillStatuses, RegistryConstants
<1>5. Idle \in Requested
  BY DEF Idle, Requested, Ops
<1>6. QED
  BY <1>2, <1>3, <1>4, <1>5

(* What the committed rows, requests and drafts are after a transaction has *)
(* ended.                                                                   *)
LEMMA Closes ==
  ASSUME RegistryConstants, SkillsInv, NEW c \in Clients, Finishes(c)
  PROVE  /\ tx'[c] = Idle /\ \A d \in Clients \ {c} : tx'[d] = tx[d]
         /\ tx' \in [Clients -> Requested]
         /\ \A t \in Skills : draft'[c][t] = Nothing
         /\ \A d \in Clients \ {c} : draft'[d] = draft[d]
         /\ draft' \in [Clients -> [Skills -> SkillRows \cup {Nothing}]]
<1>1. tx \in [Clients -> Requested]
      /\ draft \in [Clients -> [Skills -> SkillRows \cup {Nothing}]]
  BY DEF SkillsInv, RegistryTypeOK
<1>2. Idle \in Requested
  BY NothingIsNoRow
<1>3. [s \in Skills |-> Nothing] \in [Skills -> SkillRows \cup {Nothing}]
  OBVIOUS
<1>4. QED
  BY <1>1, <1>2, <1>3 DEF Finishes

(* A transaction ends and the rows become rs: its drafts and its request    *)
(* are gone, the others' rows are as they drafted them.                     *)
LEMMA EndStep ==
  ASSUME RegistryConstants, SkillsInv, NEW c \in Clients, Finishes(c),
         rows' \in [Skills -> SkillRows],
         \A t \in Skills : rows'[t].st = "superseded" => rows'[t].sup,
         \A s, t \in Skills : Served(rows'[s]) /\ Served(rows'[t]) => s = t,
         \A d \in Clients \ {c} : \A t \in Skills :
            draft[d][t] # Nothing => rows'[t] = rows[t],
         ghost' \in [lied : BOOLEAN, blip : BOOLEAN, sent : SUBSET Skills, by : Requested],
         calls' = calls
  PROVE  SkillsInv'
<1>1. /\ tx'[c] = Idle /\ \A d \in Clients \ {c} : tx'[d] = tx[d]
      /\ tx' \in [Clients -> Requested]
      /\ \A t \in Skills : draft'[c][t] = Nothing
      /\ \A d \in Clients \ {c} : draft'[d] = draft[d]
      /\ draft' \in [Clients -> [Skills -> SkillRows \cup {Nothing}]]
  BY Closes
<1>2. \A t \in Skills : \A d, e \in Clients :
          draft'[d][t] # Nothing /\ draft'[e][t] # Nothing => d = e
  BY <1>1, LocksHold DEF Locks
<1>3. \A t \in Skills : Cardinality({d \in Clients : draft'[d][t] # Nothing}) <= 1
  BY <1>2, AtMostOne
<1>4. \A d \in Clients : tx'[d].s \notin tx'[d].scan
  BY <1>1 DEF SkillsInv, RegistryTypeOK, Idle
<1>5. RegistryTypeOK'
  BY <1>1, <1>3, <1>4 DEF SkillsInv, RegistryTypeOK
<1>6. \A d \in Clients : RequestSound(d)'
 <2>1. TAKE d \in Clients
 <2>2. CASE d = c
   BY <1>1, <2>2 DEF RequestSound, Idle, Ops, Activating
 <2>3. CASE d # c
  <3>1. tx'[d] = tx[d] /\ draft'[d] = draft[d] /\ RequestSound(d)
    BY <1>1, <2>3 DEF SkillsInv
  <3>2. QED
    BY <3>1 DEF RequestSound, Activating
 <2>4. QED
   BY <2>2, <2>3
<1>7. \A d \in Clients : DraftSound(d)'
 <2>1. TAKE d \in Clients
 <2>2. CASE d = c
   BY <1>1, <2>2 DEF DraftSound
 <2>3. CASE d # c
  <3>1. tx'[d] = tx[d] /\ draft'[d] = draft[d] /\ DraftSound(d)
    BY <1>1, <2>3 DEF SkillsInv
  <3>2. \A t \in Skills : draft[d][t] # Nothing => rows'[t] = rows[t]
    BY <2>3
  <3>3. QED
    BY <1>2, <3>1, <3>2 DEF DraftSound, Activating
 <2>4. QED
   BY <2>2, <2>3
<1>8. OneLive'
  BY DEF OneLive
<1>9. QED
  BY <1>5, <1>6, <1>7, <1>8 DEF SkillsInv

(* What a transaction sees are rows, of which at most its own is another    *)
(* than was committed, and none of them newly served.                       *)
LEMMA Views ==
  ASSUME SkillsInv, NEW c \in Clients, NEW t \in Skills
  PROVE  /\ View(c, t) \in SkillRows
         /\ View(c, t).st = "superseded" => View(c, t).sup
         /\ Served(View(c, t)) => Served(rows[t])
         /\ draft[c][t] = Nothing => View(c, t) = rows[t]
<1>1. rows[t] \in SkillRows /\ draft[c][t] \in SkillRows \cup {Nothing}
      /\ (rows[t].st = "superseded" => rows[t].sup)
 <2>1. rows \in [Skills -> SkillRows]
       /\ draft \in [Clients -> [Skills -> SkillRows \cup {Nothing}]]
   BY DEF SkillsInv, RegistryTypeOK
 <2>2. rows[t].st = "superseded" => rows[t].sup
   BY DEF SkillsInv, RegistryTypeOK
 <2>3. QED
   BY <2>1, <2>2
<1>2. draft[c][t] # Nothing => \/ draft[c][t].st = "pending-review"
                               \/ draft[c][t].st = "superseded" /\ draft[c][t].sup
  BY DEF SkillsInv, DraftSound
<1>3. QED
  BY <1>1, <1>2 DEF View, Served

LEMMA AbortStep ==
  ASSUME RegistryConstants, SkillsInv, NEW c \in Clients, Finishes(c), rows' = rows,
         ghost' \in [lied : BOOLEAN, blip : BOOLEAN, sent : SUBSET Skills, by : Requested],
         calls' = calls
  PROVE  SkillsInv'
BY EndStep DEF SkillsInv, RegistryTypeOK, OneLive

LEMMA CommitStep ==
  ASSUME RegistryConstants, SkillsInv, NEW c \in Clients, NEW s \in Skills,
         NEW rec \in SkillRows, Commit(c, s, rec), Free(c, s),
         rec.st = "superseded" => rec.sup,
         Served(rec) => \A t \in Skills \ {s} : ~Served(View(c, t))
  PROVE  SkillsInv'
<1>1. rows' = [t \in Skills |-> IF t = s THEN rec ELSE View(c, t)]
      /\ Finishes(c) /\ ghost' = [ghost EXCEPT !.by = tx[c]] /\ calls' = calls
  BY DEF Commit
<1>2. rows'[s] = rec /\ \A t \in Skills \ {s} : rows'[t] = View(c, t)
  BY <1>1
<1>3. rows' \in [Skills -> SkillRows]
  BY <1>1, Views
<1>4. \A t \in Skills : rows'[t].st = "superseded" => rows'[t].sup
  BY <1>2, Views
<1>5. \A t, u \in Skills : Served(rows'[t]) /\ Served(rows'[u]) => t = u
 <2>1. \A t \in Skills \ {s} : Served(rows'[t]) => Served(rows[t])
   BY <1>2, Views
 <2>2. Served(rec) => \A t \in Skills \ {s} : ~Served(rows'[t])
   BY <1>2
 <2>3. QED
   BY <1>2, <2>1, <2>2 DEF SkillsInv, OneLive
<1>6. ASSUME NEW d \in Clients \ {c}, NEW t \in Skills, draft[d][t] # Nothing
      PROVE  rows'[t] = rows[t]
 <2>1. t # s
   BY <1>6 DEF Free
 <2>2. draft[c][t] = Nothing
   BY <1>6, LocksHold DEF Locks
 <2>3. QED
   BY <1>2, <2>1, <2>2, Views
<1>7. ghost' \in [lied : BOOLEAN, blip : BOOLEAN, sent : SUBSET Skills, by : Requested]
 <2>1. tx[c] \in Requested /\ ghost \in [lied : BOOLEAN, blip : BOOLEAN, sent : SUBSET Skills,
                                         by : Requested]
   BY DEF SkillsInv, RegistryTypeOK
 <2>2. QED
   BY <1>1, <2>1
<1>8. QED
  BY <1>1, <1>3, <1>4, <1>5, <1>6, <1>7, EndStep

(* A request goes on without a write: a transaction that has drafts stays   *)
(* one that activates the same skill.                                       *)
LEMMA MoveStep ==
  ASSUME RegistryConstants, SkillsInv, NEW c \in Clients, NEW w \in Requested,
         tx' = [tx EXCEPT ![c] = w], w.s \notin w.scan, UNCHANGED <<rows, draft, ghost>>,
         calls' \in 0..MaxCalls, RequestSound(c)',
         Activating(c) => /\ w.pc \in {"scan", "collapse", "activate"} /\ w.as = "active"
                          /\ w.s = tx[c].s /\ w.op = tx[c].op
  PROVE  SkillsInv'
<1>1. tx'[c] = w /\ (\A d \in Clients \ {c} : tx'[d] = tx[d]) /\ tx' \in [Clients -> Requested]
  BY DEF SkillsInv, RegistryTypeOK
<1>2. RegistryTypeOK'
  BY <1>1 DEF SkillsInv, RegistryTypeOK
<1>3. \A d \in Clients : RequestSound(d)'
 <2>1. TAKE d \in Clients
 <2>2. CASE d # c
  <3>1. tx'[d] = tx[d] /\ draft' = draft /\ RequestSound(d)
    BY <1>1, <2>2 DEF SkillsInv
  <3>2. QED
    BY <3>1 DEF RequestSound, Activating
 <2>3. QED
   BY <2>2
<1>4. \A d \in Clients : DraftSound(d)'
 <2>1. TAKE d \in Clients
 <2>2. DraftSound(d) /\ draft' = draft /\ rows' = rows
   BY DEF SkillsInv
 <2>3. Activating(d) => Activating(d)' /\ tx'[d].s = tx[d].s /\ tx'[d].op = tx[d].op
   BY <1>1 DEF Activating
 <2>4. QED
   BY <2>2, <2>3 DEF DraftSound
<1>5. OneLive'
  BY DEF SkillsInv, OneLive
<1>6. QED
  BY <1>2, <1>3, <1>4, <1>5 DEF SkillsInv

LEMMA RequestType ==
  ASSUME SkillsInv, NEW c \in Clients
  PROVE  /\ tx \in [Clients -> Requested] /\ tx[c] \in Requested /\ tx[c].s \notin tx[c].scan
         /\ rows \in [Skills -> SkillRows]
         /\ draft \in [Clients -> [Skills -> SkillRows \cup {Nothing}]]
         /\ calls \in 0..MaxCalls /\ RequestSound(c) /\ DraftSound(c)
         /\ ghost \in [lied : BOOLEAN, blip : BOOLEAN, sent : SUBSET Skills, by : Requested]
BY DEF SkillsInv, RegistryTypeOK

LEMMA BeginStep ==
  ASSUME RegistryConstants, SkillsInv, NEW c \in Clients, NEW s \in Skills, NEW op \in Ops,
         NEW as \in {"active", "pending-review"}, op # "publish" => as = "active",
         Begin(c, op, s, as)
  PROVE  SkillsInv'
<1> DEFINE w == [Idle EXCEPT !.op = op, !.s = s, !.as = as,
                 !.pc = CASE op = "publish" -> IF as = "active" THEN "gate" ELSE "activate"
                          [] op = "verify" -> "decide" [] OTHER -> "read"]
<1>1. op \in {"publish", "approve", "reactivate", "verify"}
  BY DEF Ops
<1>2. /\ w.op = op /\ w.s = s /\ w.as = as /\ w.saw = {} /\ w.scan = {}
      /\ op = "publish" => w.pc = IF as = "active" THEN "gate" ELSE "activate"
      /\ op = "verify" => w.pc = "decide"
      /\ op \in {"approve", "reactivate"} => w.pc = "read"
  BY <1>1 DEF Idle
<1>3. w \in Requested
  BY <1>1 DEF Idle, Requested, Ops
<1>4. tx' = [tx EXCEPT ![c] = w] /\ UNCHANGED <<rows, draft, ghost>> /\ tx[c].pc = "idle"
  BY DEF Begin
<1> HIDE DEF w
<1>5. tx'[c] = w
  BY <1>4, RequestType
<1>6. RequestSound(c)'
  BY <1>1, <1>2, <1>5 DEF RequestSound, Activating, Ops
<1>7. calls' \in 0..MaxCalls
  BY RequestType DEF Begin, RegistryConstants
<1>8. ~Activating(c)
  BY <1>4 DEF Activating
<1>9. QED
  BY <1>2, <1>3, <1>4, <1>6, <1>7, <1>8, MoveStep

LEMMA GateStep ==
  ASSUME RegistryConstants, SkillsInv, NEW c \in Clients, Gate(c)
  PROVE  SkillsInv'
<1> DEFINE p == Protected(tx[c].s)
           w == [tx[c] EXCEPT !.saw = Live, !.as = IF p THEN "pending-review" ELSE @,
                              !.pc = IF p THEN "activate" ELSE "scan"]
<1>1. tx[c].pc = "gate" /\ tx[c].op = "publish" /\ tx[c].s \in Skills
      /\ tx[c].as = "active" /\ tx[c] \in Requested
  BY RequestType DEF Gate, RequestSound
<1>2. tx' = [tx EXCEPT ![c] = w] /\ UNCHANGED <<rows, draft, ghost, calls>>
  BY RequestType DEF Gate, Requested
<1>3. ~p => \A t \in Live \ {tx[c].s} : Entry[t] = Entry[tx[c].s]
  BY DEF Live, Protected
<1>4. Live \in SUBSET Skills
  BY DEF Live
<1> HIDE DEF p
<1>5. w \in Requested /\ w.s = tx[c].s /\ w.op = "publish" /\ w.saw = Live /\ w.scan = tx[c].scan
      /\ w.as \in {"active", "pending-review"} /\ w.pc \in {"activate", "scan"}
      /\ (w.as = "active" => ~p) /\ (w.pc = "scan" => w.as = "active")
  BY <1>1, <1>4 DEF Requested
<1> HIDE DEF w
<1>6. tx'[c] = w
  BY <1>2, RequestType
<1>7. RequestSound(c)'
  BY <1>1, <1>3, <1>5, <1>6 DEF RequestSound, Activating, Ops
<1>8. w.s \notin w.scan /\ calls' \in 0..MaxCalls /\ ~Activating(c)
  BY <1>1, <1>2, <1>5, RequestType DEF Activating
<1>9. QED
  BY <1>2, <1>5, <1>7, <1>8, MoveStep

LEMMA ReadStep ==
  ASSUME RegistryConstants, SkillsInv, NEW c \in Clients, Read(c)
  PROVE  SkillsInv'
<1>1. CASE Abort(c)
  BY <1>1, AbortStep, RequestType DEF Abort
<1>2. CASE Proceed(c, "scan") /\ UNCHANGED <<rows, draft, calls, ghost>>
 <2> DEFINE w == [tx[c] EXCEPT !.pc = "scan"]
 <2>1. /\ tx[c] \in Requested /\ tx[c].s \in Skills /\ tx[c].as = "active"
       /\ tx[c].op \in {"approve", "reactivate"} /\ tx[c].pc = "read"
   BY RequestType DEF Read, RequestSound, Ops
 <2>2. tx' = [tx EXCEPT ![c] = w]
   BY <1>2, RequestType DEF Proceed, Requested
 <2>3. w \in Requested /\ w.s = tx[c].s /\ w.op = tx[c].op /\ w.pc = "scan"
       /\ w.as = "active" /\ w.scan = tx[c].scan
   BY <2>1 DEF Requested
 <2> HIDE DEF w
 <2>4. tx'[c] = w
   BY <2>2, RequestType
 <2>5. RequestSound(c)'
   BY <2>1, <2>3, <2>4 DEF RequestSound, Activating, Ops
 <2>6. w.s \notin w.scan /\ calls' \in 0..MaxCalls /\ ~Activating(c)
   BY <1>2, <2>1, <2>3, RequestType DEF Activating
 <2>7. QED
   BY <1>2, <2>2, <2>3, <2>5, <2>6, MoveStep
<1>3. QED
  BY <1>1, <1>2 DEF Read

(* Inside its transaction a request moves from line to line. *)
LEMMA OnwardStep ==
  ASSUME RegistryConstants, SkillsInv, NEW c \in Clients, Activating(c),
         NEW pc \in {"scan", "collapse", "activate"}, NEW scan \in SUBSET Skills,
         tx' = [tx EXCEPT ![c].pc = pc, ![c].scan = scan], tx[c].s \notin scan,
         UNCHANGED <<rows, draft, calls, ghost>>
  PROVE  SkillsInv'
<1> DEFINE w == [tx[c] EXCEPT !.pc = pc, !.scan = scan]
<1>1. tx[c] \in Requested /\ RequestSound(c) /\ tx[c].pc # "idle"
  BY RequestType DEF Activating
<1>2. tx' = [tx EXCEPT ![c] = w]
  BY RequestType DEF Requested
<1>3. w \in Requested /\ w.s = tx[c].s /\ w.op = tx[c].op /\ w.pc = pc /\ w.as = tx[c].as
      /\ w.saw = tx[c].saw /\ w.scan = scan
  BY <1>1 DEF Requested
<1> HIDE DEF w
<1>4. tx'[c] = w
  BY <1>2, RequestType
<1>5. RequestSound(c)'
  BY <1>1, <1>3, <1>4 DEF RequestSound, Activating, Ops
<1>6. QED
  BY <1>2, <1>3, <1>5, MoveStep, RequestType DEF Activating

LEMMA ScanStep ==
  ASSUME RegistryConstants, SkillsInv, NEW c \in Clients, Scan(c)
  PROVE  SkillsInv'
<1>1. Activating(c) /\ UNCHANGED <<rows, draft, calls, ghost>>
  BY RequestType DEF Scan, RequestSound, Activating
<1> DEFINE scan == {t \in Skills \ {tx[c].s} : Stale(c, rows[t])}
<1>2. scan \in SUBSET Skills /\ tx[c].s \notin scan
  OBVIOUS
<1>3. tx' = [tx EXCEPT ![c].pc = "collapse", ![c].scan = scan]
  BY DEF Scan
<1> HIDE DEF scan
<1>4. QED
  BY <1>1, <1>2, <1>3, OnwardStep

(* A transaction locks a row and drafts what it will be. *)
LEMMA DraftStep ==
  ASSUME RegistryConstants, SkillsInv, NEW c \in Clients, NEW t \in Skills, Free(c, t),
         NEW rec \in SkillRows, draft' = [draft EXCEPT ![c][t] = rec],
         NEW w \in Requested, tx' = [tx EXCEPT ![c] = w], w.s \notin w.scan,
         UNCHANGED <<rows, calls, ghost>>, Activating(c)', RequestSound(c)',
         w.s = tx[c].s, w.op = tx[c].op,
         t = w.s => /\ w.op = "verify" /\ rows[t].st = "pending-review"
                    /\ rec.st = "pending-review",
         t # w.s => /\ rec.st = "superseded" /\ rec.sup
                    /\ rows[t].st \in {"active", "demoted", "pending-review"}
  PROVE  SkillsInv'
<1>1. tx'[c] = w /\ (\A d \in Clients \ {c} : tx'[d] = tx[d]) /\ tx' \in [Clients -> Requested]
  BY RequestType
<1>2. /\ draft'[c][t] = rec /\ \A u \in Skills \ {t} : draft'[c][u] = draft[c][u]
      /\ \A d \in Clients \ {c} : draft'[d] = draft[d]
      /\ draft' \in [Clients -> [Skills -> SkillRows \cup {Nothing}]]
 <2>1. draft \in [Clients -> [Skills -> SkillRows \cup {Nothing}]]
   BY RequestType
 <2>2. draft' = [draft EXCEPT ![c] = [draft[c] EXCEPT ![t] = rec]]
   OBVIOUS
 <2>3. [draft[c] EXCEPT ![t] = rec] \in [Skills -> SkillRows \cup {Nothing}]
   BY <2>1
 <2>4. QED
   BY <2>1, <2>2, <2>3
<1>3. \A u \in Skills : \A d, e \in Clients :
          draft'[d][u] # Nothing /\ draft'[e][u] # Nothing => d = e
  BY <1>2, LocksHold DEF Locks, Free
<1>4. \A u \in Skills : Cardinality({d \in Clients : draft'[d][u] # Nothing}) <= 1
  BY <1>3, AtMostOne
<1>5. \A d \in Clients : tx'[d].s \notin tx'[d].scan
  BY <1>1, RequestType
<1>6. RegistryTypeOK'
  BY <1>1, <1>2, <1>4, <1>5 DEF SkillsInv, RegistryTypeOK
<1>7. \A d \in Clients : RequestSound(d)'
 <2>1. TAKE d \in Clients
 <2>2. CASE d # c
  <3>1. tx'[d] = tx[d] /\ draft'[d] = draft[d] /\ RequestSound(d)
    BY <1>1, <1>2, <2>2 DEF SkillsInv
  <3>2. QED
    BY <3>1 DEF RequestSound, Activating
 <2>3. QED
   BY <2>2
<1>8. \A d \in Clients : DraftSound(d)'
 <2>1. TAKE d \in Clients
 <2>2. DraftSound(d) /\ rows' = rows
   BY DEF SkillsInv
 <2>3. CASE d = c
   BY <1>1, <1>2, <1>3, <2>2, <2>3 DEF DraftSound
 <2>4. CASE d # c
  <3>1. tx'[d] = tx[d] /\ draft'[d] = draft[d]
    BY <1>1, <1>2, <2>4
  <3>2. QED
    BY <1>3, <2>2, <3>1 DEF DraftSound, Activating
 <2>5. QED
   BY <2>3, <2>4
<1>9. OneLive'
  BY DEF SkillsInv, OneLive
<1>10. QED
  BY <1>6, <1>7, <1>8, <1>9 DEF SkillsInv

LEMMA CollapseStep ==
  ASSUME RegistryConstants, SkillsInv, NEW c \in Clients, Collapse(c)
  PROVE  SkillsInv'
<1>1. /\ Activating(c) /\ tx[c].pc = "collapse" /\ tx[c] \in Requested /\ tx[c].s \in Skills
      /\ tx[c].scan \in SUBSET Skills /\ tx[c].s \notin tx[c].scan
      /\ tx \in [Clients -> Requested] /\ tx[c].op \in Ops
  BY RequestType DEF Collapse, RequestSound, Activating, Requested
<1>2. CASE \E t \in tx[c].scan :
             /\ Free(c, t)
             /\ tx' = [tx EXCEPT ![c].scan = @ \ {t}]
             /\ IF Stale(c, rows[t])
                THEN Collapses(c, t, [rows[t] EXCEPT !.st = "superseded", !.sup = TRUE])
                ELSE UNCHANGED <<rows, draft, calls, ghost>>
 <2>1. PICK t \in tx[c].scan :
            /\ Free(c, t)
            /\ tx' = [tx EXCEPT ![c].scan = @ \ {t}]
            /\ IF Stale(c, rows[t])
               THEN Collapses(c, t, [rows[t] EXCEPT !.st = "superseded", !.sup = TRUE])
               ELSE UNCHANGED <<rows, draft, calls, ghost>>
   BY <1>2
 <2>2. t \in Skills /\ t # tx[c].s
   BY <1>1
 <2> DEFINE w == [tx[c] EXCEPT !.scan = tx[c].scan \ {t}]
 <2>3. /\ w \in Requested /\ w.s = tx[c].s /\ w.op = tx[c].op /\ w.pc = "collapse"
       /\ w.as = tx[c].as /\ w.saw = tx[c].saw /\ w.scan = tx[c].scan \ {t}
   BY <1>1 DEF Requested
 <2>4. tx' = [tx EXCEPT ![c] = w]
   BY <1>1, <2>1 DEF Requested
 <2> HIDE DEF w
 <2>5. tx'[c] = w /\ w.s \notin w.scan
   BY <1>1, <2>3, <2>4
 <2>6. CASE ~Stale(c, rows[t])
  <3>1. RequestSound(c)'
    BY <1>1, <2>1, <2>3, <2>5, <2>6, RequestType DEF RequestSound, Activating, Ops
  <3>2. UNCHANGED <<rows, draft, calls, ghost>>
    BY <2>1, <2>6
  <3>3. QED
    BY <1>1, <2>3, <2>4, <2>5, <3>1, <3>2, MoveStep, RequestType DEF Activating
 <2>7. CASE Stale(c, rows[t])
  <3> DEFINE rec == [rows[t] EXCEPT !.st = "superseded", !.sup = TRUE]
  <3>1. rows[t] \in SkillRows
    BY <2>2, RequestType
  <3>2. rec \in SkillRows /\ rec.st = "superseded" /\ rec.sup
    BY <3>1 DEF SkillRows, SkillStatuses
  <3>3. rows[t].st \in {"active", "demoted", "pending-review"}
    BY <2>7 DEF Stale, Served
  <3>4. draft' = [draft EXCEPT ![c][t] = rec] /\ UNCHANGED <<rows, calls, ghost>>
    BY <2>1, <2>7 DEF Collapses, Writes
  <3> HIDE DEF rec
  <3>5. draft'[c][tx[c].s] = draft[c][tx[c].s]
   <4>1. draft \in [Clients -> [Skills -> SkillRows \cup {Nothing}]]
     BY RequestType
   <4>2. draft' = [draft EXCEPT ![c] = [draft[c] EXCEPT ![t] = rec]]
     BY <3>4
   <4>3. QED
     BY <1>1, <2>2, <4>1, <4>2
  <3>6. RequestSound(c)'
    BY <1>1, <2>3, <2>5, <3>5, RequestType DEF RequestSound, Activating, Ops
  <3>7. Activating(c)'
    BY <1>1, <2>3, <2>5 DEF Activating
  <3>8. Free(c, t) /\ t # w.s
    BY <2>1, <2>2, <2>3
  <3>9. QED
    BY <2>2, <2>3, <2>4, <2>5, <3>2, <3>3, <3>4, <3>6, <3>7, <3>8, DraftStep
 <2>8. QED
   BY <2>6, <2>7
<1>3. CASE /\ tx[c].scan = {} /\ Proceed(c, "activate")
           /\ UNCHANGED <<rows, draft, calls, ghost>>
 <2>1. tx' = [tx EXCEPT ![c].pc = "activate", ![c].scan = tx[c].scan]
   BY <1>1, <1>3 DEF Proceed, Requested
 <2>2. QED
   BY <1>1, <1>3, <2>1, OnwardStep
<1>4. QED
  BY <1>2, <1>3 DEF Collapse

(* The verifier's success: one write, or the draft of a promotion. *)
LEMMA DecideStep ==
  ASSUME RegistryConstants, SkillsInv, NEW c \in Clients, Decide(c)
  PROVE  SkillsInv'
<1> DEFINE s == tx[c].s
           proved == [View(c, s) EXCEPT !.proven = TRUE, !.vf = 0]
<1>1. /\ tx[c].pc = "decide" /\ Free(c, s) /\ s \in Skills /\ tx[c].op = "verify"
      /\ tx[c].as = "active" /\ tx[c] \in Requested /\ ~Activating(c)
  BY RequestType DEF Decide, RequestSound, Ops, Activating
<1>2. \A t \in Skills : draft[c][t] = Nothing /\ View(c, t) = rows[t]
  BY <1>1, RequestType DEF DraftSound, View
<1>3. /\ proved \in SkillRows /\ proved.st = rows[s].st /\ proved.deleted = rows[s].deleted
      /\ proved.sup = rows[s].sup
 <2>1. rows[s] \in SkillRows /\ proved = [rows[s] EXCEPT !.proven = TRUE, !.vf = 0]
   BY <1>1, <1>2, RequestType
 <2>2. 0 \in 0..Strikes
   BY DEF RegistryConstants
 <2>3. QED
   BY <2>1, <2>2 DEF SkillRows
<1>4. proved.st = "superseded" => proved.sup
  BY <1>1, <1>3 DEF SkillsInv, RegistryTypeOK
<1> HIDE DEF proved
<1>5. \/ Abort(c)
      \/ \E rec \in {proved, [proved EXCEPT !.due = TRUE],
                     [proved EXCEPT !.st = "superseded", !.sup = TRUE]} : Commit(c, s, rec)
      \/ /\ proved.st = "pending-review" /\ ~Protected(s) /\ Writes(c, s, proved)
         /\ tx' = [tx EXCEPT ![c].saw = Live, ![c].pc = "scan"]
         /\ UNCHANGED <<rows, calls, ghost>>
  BY DEF Decide, proved
<1>6. CASE Abort(c)
  BY <1>6, AbortStep, RequestType DEF Abort
<1>7. ASSUME NEW rec \in {proved, [proved EXCEPT !.due = TRUE],
                          [proved EXCEPT !.st = "superseded", !.sup = TRUE]},
             Commit(c, s, rec)
      PROVE  SkillsInv'
 <2>1. /\ rec \in SkillRows /\ (rec.st = "superseded" => rec.sup)
       /\ Served(rec) => Served(rows[s])
   BY <1>3, <1>4 DEF SkillRows, SkillStatuses, Served
 <2>2. Served(rec) => \A t \in Skills \ {s} : ~Served(View(c, t))
   BY <1>1, <1>2, <2>1 DEF SkillsInv, OneLive
 <2>3. QED
   BY <1>1, <1>7, <2>1, <2>2, CommitStep
<1>8. CASE /\ proved.st = "pending-review" /\ ~Protected(s) /\ Writes(c, s, proved)
           /\ tx' = [tx EXCEPT ![c].saw = Live, ![c].pc = "scan"]
           /\ UNCHANGED <<rows, calls, ghost>>
 <2> DEFINE w == [tx[c] EXCEPT !.saw = Live, !.pc = "scan"]
 <2>1. Live \in SUBSET Skills /\ \A t \in Live \ {s} : Entry[t] = Entry[s]
   BY <1>8 DEF Live, Protected
 <2>2. /\ w \in Requested /\ w.s = s /\ w.op = "verify" /\ w.pc = "scan" /\ w.as = "active"
       /\ w.saw = Live /\ w.scan = tx[c].scan
   BY <1>1, <2>1 DEF Requested
 <2>3. tx' = [tx EXCEPT ![c] = w]
   BY <1>8, RequestType DEF Requested
 <2> HIDE DEF w
 <2>4. tx'[c] = w /\ w.s \notin w.scan
   BY <2>2, <2>3, RequestType
 <2>5. draft' = [draft EXCEPT ![c][s] = proved]
   BY <1>8 DEF Writes
 <2>6. draft'[c][s] = proved
  <3>1. draft \in [Clients -> [Skills -> SkillRows \cup {Nothing}]]
    BY RequestType
  <3>2. draft' = [draft EXCEPT ![c] = [draft[c] EXCEPT ![s] = proved]]
    BY <2>5
  <3>3. QED
    BY <1>1, <3>1, <3>2
 <2>7. Activating(c)'
   BY <2>2, <2>4 DEF Activating
 <2>8. RequestSound(c)'
   BY <1>1, <1>8, <2>1, <2>2, <2>4, <2>6 DEF RequestSound, Activating, Ops
 <2>9. rows[s].st = "pending-review" /\ proved.st = "pending-review" /\ s \in Skills
   BY <1>1, <1>3, <1>8
 <2>10. w.s = tx[c].s /\ w.op = tx[c].op /\ w.op = "verify" /\ Free(c, s)
   BY <1>1, <2>2
 <2>11. UNCHANGED <<rows, calls, ghost>> /\ proved \in SkillRows
   BY <1>3, <1>8
 <2>12. w \in Requested /\ s = w.s
   BY <2>2
 <2> HIDE DEF s
 <2>13. QED
   BY <2>3, <2>4, <2>5, <2>7, <2>8, <2>9, <2>10, <2>11, <2>12, DraftStep
<1>9. QED
  BY <1>5, <1>6, <1>7, <1>8

(* The last write of a transaction, which the index lets pass, or its end. *)
LEMMA ActivatedType ==
  ASSUME RegistryConstants, SkillsInv, NEW c \in Clients, tx[c].pc = "activate"
  PROVE  /\ tx[c].s \in Skills /\ tx[c].op \in Ops
         /\ Activated(c) \in SkillRows /\ Activated(c).st \in {"active", "pending-review"}
         /\ tx[c].op = "publish" => Activated(c).st = tx[c].as
         /\ tx[c].op # "publish" => Activated(c).st = "active" /\ tx[c].as = "active"
<1>1. /\ tx[c].s \in Skills /\ tx[c].op \in {"publish", "approve", "reactivate", "verify"}
      /\ tx[c].as \in {"active", "pending-review"}
      /\ tx[c].op # "publish" => tx[c].as = "active"
  BY RequestType DEF RequestSound, Ops
<1>2. View(c, tx[c].s) \in SkillRows /\ Blank \in SkillRows
  BY <1>1, Views, NothingIsNoRow
<1>3. CASE tx[c].op = "publish"
 <2>1. Activated(c) = [Blank EXCEPT !.st = tx[c].as]
   BY <1>3 DEF Activated
 <2>2. QED
   BY <1>1, <1>2, <1>3, <2>1 DEF SkillRows, SkillStatuses, Ops
<1>4. CASE tx[c].op = "approve"
 <2>1. Activated(c) = [View(c, tx[c].s) EXCEPT !.st = "active"]
   BY <1>4 DEF Activated
 <2>2. QED
   BY <1>1, <1>2, <1>4, <2>1 DEF SkillRows, SkillStatuses, Ops
<1>5. CASE tx[c].op = "reactivate"
 <2>1. Activated(c) = [View(c, tx[c].s) EXCEPT !.st = "active", !.rf = 0, !.vf = 0, !.due = TRUE]
   BY <1>5 DEF Activated
 <2>2. 0 \in 0..Strikes
   BY DEF RegistryConstants
 <2>3. QED
   BY <1>1, <1>2, <1>5, <2>1, <2>2 DEF SkillRows, SkillStatuses, Ops
<1>6. CASE tx[c].op = "verify"
 <2>1. Activated(c) = [View(c, tx[c].s) EXCEPT !.st = "active", !.due = TRUE]
   BY <1>6 DEF Activated
 <2>2. QED
   BY <1>1, <1>2, <1>6, <2>1 DEF SkillRows, SkillStatuses, Ops
<1>7. QED
  BY <1>1, <1>3, <1>4, <1>5, <1>6

LEMMA ActivateStep ==
  ASSUME RegistryConstants, SkillsInv, NEW c \in Clients, Activate(c)
  PROVE  SkillsInv'
<1> DEFINE s == tx[c].s
<1>1. tx[c].pc = "activate" /\ Free(c, s)
  BY DEF Activate
<1>2. /\ s \in Skills /\ Activated(c) \in SkillRows
      /\ Activated(c).st \in {"active", "pending-review"}
  BY <1>1, ActivatedType
<1>3. CASE /\ Finishes(c) /\ UNCHANGED <<rows, calls>>
           /\ \E b \in BOOLEAN : ghost' = [ghost EXCEPT !.lied = b]
 <2>1. ghost' \in [lied : BOOLEAN, blip : BOOLEAN, sent : SUBSET Skills, by : Requested]
   BY <1>3, RequestType
 <2>2. QED
   BY <1>3, <2>1, AbortStep
<1>4. CASE ~Taken(c) /\ Commit(c, s, Activated(c))
 <2>1. Served(Activated(c)) => \A t \in Skills \ {s} : ~Served(View(c, t))
   BY <1>4 DEF Taken
 <2>2. Activated(c).st = "superseded" => Activated(c).sup
   BY <1>2
 <2>3. QED
   BY <1>1, <1>2, <1>4, <2>1, <2>2, CommitStep
<1>5. QED
 <2>1. ghost.lied \in BOOLEAN
   BY RequestType
 <2>2. QED
   BY <1>3, <1>4, <2>1 DEF Activate

(* ... of a row alone, which nobody has drafted. *)
LEMMA SingleStep ==
  ASSUME RegistryConstants, SkillsInv, NEW s \in Skills,
         NEW op \in {"fail", "replay", "demote", "delete"}, NEW rec \in SkillRows,
         NEW seen \in [lied : BOOLEAN, blip : BOOLEAN, sent : SUBSET Skills, by : Requested],
         Single(s, op, rec, seen), rec.st = "superseded" => rec.sup,
         Served(rec) => Served(rows[s])
  PROVE  SkillsInv'
<1>1. /\ rows' = [rows EXCEPT ![s] = rec] /\ UNCHANGED <<tx, draft>>
      /\ calls < MaxCalls /\ calls' = calls + 1
      /\ ghost' = [seen EXCEPT !.by = [Idle EXCEPT !.op = op, !.s = s]]
      /\ \A c \in Clients : draft[c][s] = Nothing
  BY DEF Single
<1>2. /\ rows \in [Skills -> SkillRows] /\ calls \in 0..MaxCalls
      /\ \A t \in Skills : rows[t].st = "superseded" => rows[t].sup
  BY DEF SkillsInv, RegistryTypeOK
<1>3. rows'[s] = rec /\ (\A t \in Skills \ {s} : rows'[t] = rows[t])
      /\ rows' \in [Skills -> SkillRows]
  BY <1>1, <1>2
<1>4. ghost' \in [lied : BOOLEAN, blip : BOOLEAN, sent : SUBSET Skills, by : Requested]
 <2>1. [Idle EXCEPT !.op = op, !.s = s] \in Requested
   BY DEF Idle, Requested, Ops
 <2>2. QED
   BY <1>1, <2>1
<1>5. RegistryTypeOK'
 <2>1. calls' \in 0..MaxCalls
   BY <1>1, <1>2 DEF RegistryConstants
 <2>2. \A t \in Skills : rows'[t].st = "superseded" => rows'[t].sup
   BY <1>2, <1>3
 <2>3. QED
   BY <1>1, <1>3, <1>4, <2>1, <2>2 DEF SkillsInv, RegistryTypeOK
<1>6. OneLive'
  BY <1>3 DEF SkillsInv, OneLive
<1>7. \A c \in Clients : RequestSound(c)'
  BY <1>1 DEF SkillsInv, RequestSound, Activating
<1>8. \A c \in Clients : DraftSound(c)'
  BY <1>1, <1>3 DEF SkillsInv, DraftSound, Activating
<1>9. QED
  BY <1>5, <1>6, <1>7, <1>8 DEF SkillsInv

(* A report or an operator's word about one skill: it never makes a skill   *)
(* live, and neither lifts a quarantine without the operator nor supersedes.*)
Lone(s, op, rec, seen) ==
    /\ Single(s, op, rec, seen)
    /\ op \in {"fail", "replay", "demote", "delete"} /\ rec \in SkillRows
    /\ seen \in [lied : BOOLEAN, blip : BOOLEAN, sent : SUBSET Skills, by : Requested]
    /\ rec.st = "superseded" => rec.sup /\ rows[s].st = "superseded"
    /\ Served(rec) => Served(rows[s])
    /\ rows[s].st = "quarantined" /\ rec.st # "quarantined" => op \in {"demote", "delete"}

Alone(s) == \E op, rec, seen : Lone(s, op, rec, seen)

LEMMA FailsAlone ==
  ASSUME RegistryConstants, SkillsInv, NEW s \in Skills, NEW kind, VerifierFails(s, kind)
  PROVE  Alone(s)
<1> DEFINE strike == [rows[s] EXCEPT !.vf = IF kind = "rot" /\ @ < Strikes THEN @ + 1 ELSE @]
           out == kind = "rot" /\ strike.vf >= Strikes
           rec == CASE kind = "wall" /\ rows[s].st \in {"active", "pending-review"} ->
                         [rows[s] EXCEPT !.st = "quarantined", !.due = FALSE]
                    [] out /\ rows[s].st = "pending-review" -> [strike EXCEPT !.deleted = TRUE]
                    [] out /\ rows[s].st = "active" ->
                         [strike EXCEPT !.st = "pending-review", !.vf = 0, !.due = FALSE]
                    [] OTHER -> strike
           seen == IF out /\ rows[s].st = "active" THEN [ghost EXCEPT !.sent = @ \cup {s}]
                   ELSE ghost
<1>1. Single(s, "fail", rec, seen)
  BY DEF VerifierFails
<1>2. rows[s] \in SkillRows /\ (rows[s].st = "superseded" => rows[s].sup)
      /\ ghost \in [lied : BOOLEAN, blip : BOOLEAN, sent : SUBSET Skills, by : Requested]
  BY DEF SkillsInv, RegistryTypeOK
<1>3. seen \in [lied : BOOLEAN, blip : BOOLEAN, sent : SUBSET Skills, by : Requested]
  BY <1>2
<1>4. /\ strike \in SkillRows /\ strike.st = rows[s].st /\ strike.sup = rows[s].sup
      /\ strike.deleted = rows[s].deleted
 <2>1. rows[s].vf \in 0..Strikes /\ Strikes \in Nat
   BY <1>2 DEF SkillRows, RegistryConstants
 <2>2. (IF kind = "rot" /\ rows[s].vf < Strikes THEN rows[s].vf + 1 ELSE rows[s].vf)
           \in 0..Strikes
   BY <2>1
 <2>3. QED
   BY <1>2, <2>2 DEF SkillRows
<1>5. 0 \in 0..Strikes /\ (out => kind # "wall")
  BY DEF RegistryConstants
<1> HIDE DEF strike, out, seen
<1>6. CASE kind = "wall" /\ rows[s].st \in {"active", "pending-review"}
 <2>1. rec = [rows[s] EXCEPT !.st = "quarantined", !.due = FALSE]
   BY <1>5, <1>6
 <2> HIDE DEF rec
 <2>2. rec \in SkillRows /\ rec.st = "quarantined"
   BY <1>2, <2>1 DEF SkillRows, SkillStatuses
 <2>3. Lone(s, "fail", rec, seen)
   BY <1>1, <1>3, <2>2 DEF Lone, Served
 <2>4. QED
   BY <2>3 DEF Alone
<1>7. CASE ~(kind = "wall" /\ rows[s].st \in {"active", "pending-review"})
           /\ out /\ rows[s].st = "pending-review"
 <2>1. rec = [strike EXCEPT !.deleted = TRUE]
   BY <1>7
 <2> HIDE DEF rec
 <2>2. rec \in SkillRows /\ rec.st = "pending-review"
   BY <1>4, <1>7, <2>1 DEF SkillRows
 <2>3. Lone(s, "fail", rec, seen)
   BY <1>1, <1>3, <1>7, <2>2 DEF Lone, Served
 <2>4. QED
   BY <2>3 DEF Alone
<1>8. CASE ~(kind = "wall" /\ rows[s].st \in {"active", "pending-review"})
           /\ out /\ rows[s].st = "active"
 <2>1. rec = [strike EXCEPT !.st = "pending-review", !.vf = 0, !.due = FALSE]
   BY <1>8
 <2> HIDE DEF rec
 <2>2. rec \in SkillRows /\ rec.st = "pending-review"
   BY <1>4, <1>5, <2>1 DEF SkillRows, SkillStatuses
 <2>3. Lone(s, "fail", rec, seen)
   BY <1>1, <1>3, <1>8, <2>2 DEF Lone, Served
 <2>4. QED
   BY <2>3 DEF Alone
<1>9. CASE ~(kind = "wall" /\ rows[s].st \in {"active", "pending-review"})
           /\ ~(out /\ rows[s].st \in {"active", "pending-review"})
 <2>1. rec = strike
   BY <1>9
 <2> HIDE DEF rec
 <2>2. Lone(s, "fail", rec, seen)
   BY <1>1, <1>2, <1>3, <1>4, <2>1 DEF Lone, Served
 <2>3. QED
   BY <2>2 DEF Alone
<1>10. QED
  BY <1>6, <1>7, <1>8, <1>9

LEMMA ReplaysAlone ==
  ASSUME RegistryConstants, SkillsInv, NEW s \in Skills, NEW kind, Replay(s, kind)
  PROVE  Alone(s)
<1> DEFINE count == [rows[s] EXCEPT !.rf = IF kind = "ok" THEN 0
                                     ELSE IF kind = "rot" /\ @ < Strikes THEN @ + 1 ELSE @]
           demoted == count.rf >= Strikes /\ count.st = "active"
           rec == [count EXCEPT !.st = IF demoted THEN "demoted" ELSE @]
           seen == [ghost EXCEPT !.blip = @ \/ (demoted /\ kind # "rot")]
<1>1. Single(s, "replay", rec, seen)
  BY DEF Replay
<1>2. rows[s] \in SkillRows /\ (rows[s].st = "superseded" => rows[s].sup)
      /\ ghost \in [lied : BOOLEAN, blip : BOOLEAN, sent : SUBSET Skills, by : Requested]
  BY DEF SkillsInv, RegistryTypeOK
<1>3. seen \in [lied : BOOLEAN, blip : BOOLEAN, sent : SUBSET Skills, by : Requested]
  BY <1>2
<1>4. /\ count \in SkillRows /\ count.st = rows[s].st /\ count.sup = rows[s].sup
      /\ count.deleted = rows[s].deleted
 <2>1. rows[s].rf \in 0..Strikes /\ Strikes \in Nat
   BY <1>2 DEF SkillRows, RegistryConstants
 <2>2. (IF kind = "ok" THEN 0
        ELSE IF kind = "rot" /\ rows[s].rf < Strikes THEN rows[s].rf + 1 ELSE rows[s].rf)
           \in 0..Strikes
   BY <2>1
 <2>3. QED
   BY <1>2, <2>2 DEF SkillRows
<1>5. demoted => count.st = "active"
  OBVIOUS
<1> HIDE DEF count, demoted, seen
<1>6. /\ rec \in SkillRows /\ rec.st = (IF demoted THEN "demoted" ELSE rows[s].st)
      /\ rec.sup = rows[s].sup /\ rec.deleted = rows[s].deleted
  BY <1>4 DEF SkillRows, SkillStatuses
<1> HIDE DEF rec
<1>7. Lone(s, "replay", rec, seen)
  BY <1>1, <1>2, <1>3, <1>4, <1>5, <1>6 DEF Lone, Served
<1>8. QED
  BY <1>7 DEF Alone

LEMMA OperatorAlone ==
  ASSUME RegistryConstants, SkillsInv, NEW s \in Skills, Demote(s) \/ Delete(s)
  PROVE  Alone(s)
<1>1. rows[s] \in SkillRows
      /\ ghost \in [lied : BOOLEAN, blip : BOOLEAN, sent : SUBSET Skills, by : Requested]
  BY DEF SkillsInv, RegistryTypeOK
<1>2. CASE Demote(s)
 <2> DEFINE rec == [rows[s] EXCEPT !.st = "demoted"]
 <2>1. rec \in SkillRows /\ rec.st = "demoted"
   BY <1>1 DEF SkillRows, SkillStatuses
 <2>2. Single(s, "demote", rec, ghost)
   BY <1>2 DEF Demote
 <2> HIDE DEF rec
 <2>3. Lone(s, "demote", rec, ghost)
   BY <1>1, <2>1, <2>2 DEF Lone, Served
 <2>4. QED
   BY <2>3 DEF Alone
<1>3. CASE Delete(s)
 <2>1. Blank \in SkillRows /\ Blank.st = "none"
   BY NothingIsNoRow DEF Blank
 <2>2. Single(s, "delete", Blank, ghost)
   BY <1>3 DEF Delete
 <2>3. Lone(s, "delete", Blank, ghost)
   BY <1>1, <2>1, <2>2 DEF Lone, Served
 <2>4. QED
   BY <2>3 DEF Alone
<1>4. QED
  BY <1>2, <1>3

LEMMA AloneStep ==
  ASSUME RegistryConstants, SkillsInv, NEW s \in Skills, Alone(s)
  PROVE  SkillsInv'
<1>1. PICK op, rec, seen : Lone(s, op, rec, seen)
  BY DEF Alone
<1>2. QED
  BY <1>1, SingleStep DEF Lone

LEMMA RegistryStarts == RegistryConstants /\ RegistryInit => SkillsInv
<1> SUFFICES ASSUME RegistryConstants, RegistryInit
             PROVE  SkillsInv
  OBVIOUS
<1>1. /\ Blank \in SkillRows /\ Idle \in Requested /\ ~Served(Blank)
  BY NothingIsNoRow
<1>2. Blank.st = "none" /\ Idle.pc = "idle" /\ Idle.op = "none" /\ Idle.scan = {}
  BY DEF Blank, Idle
<1>3. /\ \A s \in Skills : rows[s] = Blank
      /\ \A c \in Clients : tx[c] = Idle /\ \A s \in Skills : draft[c][s] = Nothing
      /\ rows \in [Skills -> SkillRows] /\ tx \in [Clients -> Requested]
      /\ draft \in [Clients -> [Skills -> SkillRows \cup {Nothing}]]
  BY <1>1 DEF RegistryInit
<1>4. \A s \in Skills : Cardinality({c \in Clients : draft[c][s] # Nothing}) <= 1
  BY <1>3, AtMostOne
<1>5. ghost \in [lied : BOOLEAN, blip : BOOLEAN, sent : SUBSET Skills, by : Requested]
  BY <1>1 DEF RegistryInit
<1>6. calls \in 0..MaxCalls
  BY DEF RegistryInit, RegistryConstants
<1>7. RegistryTypeOK
  BY <1>2, <1>3, <1>4, <1>5, <1>6 DEF RegistryTypeOK
<1>8. OneLive
  BY <1>1, <1>3 DEF OneLive
<1>9. \A c \in Clients : RequestSound(c) /\ DraftSound(c)
  BY <1>2, <1>3 DEF RequestSound, DraftSound, Activating, Ops
<1>10. QED
  BY <1>7, <1>8, <1>9 DEF SkillsInv

(* Every step is of one request, or of one row alone. *)
LEMMA RegistrySteps ==
  ASSUME RegistryConstants, SkillsInv, RegistryNext
  PROVE  \/ \E c \in Clients : Step(c)
         \/ \E c \in Clients, s \in Skills, op \in Ops, as \in {"active", "pending-review"} :
               (op # "publish" => as = "active") /\ Begin(c, op, s, as)
         \/ \E s \in Skills : Alone(s)
<1>1. ASSUME NEW c \in Clients, NEW s \in Skills,
             \/ \E as \in {"active", "pending-review"} : Begin(c, "publish", s, as)
             \/ \E op \in Ops \ {"publish"} : Begin(c, op, s, "active")
      PROVE  \E op \in Ops, as \in {"active", "pending-review"} :
                 (op # "publish" => as = "active") /\ Begin(c, op, s, as)
  BY <1>1 DEF Ops
<1>2. ASSUME NEW s \in Skills,
             \/ \E kind \in {"rot", "wall", "blip"} : VerifierFails(s, kind)
             \/ \E kind \in {"ok", "rot", "blip"} : Replay(s, kind)
             \/ Demote(s) \/ Delete(s)
      PROVE  Alone(s)
  BY <1>2, FailsAlone, ReplaysAlone, OperatorAlone
<1>3. QED
  BY <1>1, <1>2 DEF RegistryNext

(* Whatever publishes, promotes, approves and retires at once, a draft is   *)
(* of a row that its transaction locked and may move, and one skill is live.*)
THEOREM RegistryIsSound == RegistryConstants => (RegistrySpec => []SkillsInv)
<1> SUFFICES ASSUME RegistryConstants
             PROVE  RegistrySpec => []SkillsInv
  OBVIOUS
<1>1. RegistryInit => SkillsInv
  BY RegistryStarts
<1>2. SkillsInv /\ [RegistryNext]_registryVars => SkillsInv'
 <2> SUFFICES ASSUME SkillsInv, [RegistryNext]_registryVars
              PROVE  SkillsInv'
   OBVIOUS
 <2>1. CASE UNCHANGED registryVars
   BY <2>1 DEF registryVars, SkillsInv, RegistryTypeOK, OneLive, RequestSound, DraftSound,
      Activating, Served
 <2>2. ASSUME NEW c \in Clients, Step(c)
       PROVE  SkillsInv'
  <3>1. Deadlock(c) => SkillsInv'
   <4>1. Deadlock(c) => Abort(c)
     BY DEF Deadlock
   <4>2. QED
     BY <4>1, AbortStep, RequestType DEF Abort
  <3>2. QED
    BY <2>2, <3>1, GateStep, ReadStep, DecideStep, ScanStep, CollapseStep, ActivateStep DEF Step
 <2>3. QED
   BY <2>1, <2>2, BeginStep, AloneStep, RegistrySteps
<1>3. QED
  BY <1>1, <1>2, PTL DEF RegistrySpec

(* What the rows become when a transaction commits: its drafts, and of its  *)
(* own skill what the verifier or its last statement writes.                *)
Lands(c) ==
    /\ tx[c].s \in Skills /\ rows'[tx[c].s] \in SkillRows
    /\ \A t \in Skills \ {tx[c].s} : rows'[t] = View(c, t)
    /\ ghost'.by = tx[c]

(* The verifier's one write changes no status but to bury a pending skill. *)
Proves(c) ==
    /\ Lands(c) /\ \A t \in Skills : draft[c][t] = Nothing
    /\ \/ /\ rows'[tx[c].s].st = rows[tx[c].s].st
          /\ rows'[tx[c].s].deleted = rows[tx[c].s].deleted
       \/ rows[tx[c].s].st = "pending-review" /\ rows'[tx[c].s].st = "superseded"

(* The last statement makes the skill active, or stores a pending one. *)
Installs(c) ==
    /\ Lands(c) /\ tx[c].pc = "activate" /\ tx[c].op \in Ops
    /\ rows'[tx[c].s].st \in {"active", "pending-review"}
    /\ tx[c].op = "publish" => rows[tx[c].s].st = "none" /\ rows'[tx[c].s].st = tx[c].as
    /\ tx[c].as = "active" => rows'[tx[c].s].st = "active"

LEMMA CommitLands ==
  ASSUME SkillsInv, NEW c \in Clients, NEW rec \in SkillRows, tx[c].s \in Skills,
         Commit(c, tx[c].s, rec)
  PROVE  Lands(c) /\ rows'[tx[c].s] = rec
<1>1. ghost \in [lied : BOOLEAN, blip : BOOLEAN, sent : SUBSET Skills, by : Requested]
  BY RequestType
<1>2. QED
  BY <1>1 DEF Commit, Lands

LEMMA DecideLands ==
  ASSUME RegistryConstants, SkillsInv, NEW c \in Clients, Decide(c), rows' # rows
  PROVE  Proves(c)
<1> DEFINE s == tx[c].s
           proved == [View(c, s) EXCEPT !.proven = TRUE, !.vf = 0]
<1>1. /\ tx[c].pc = "decide" /\ s \in Skills /\ ~Activating(c)
  BY RequestType DEF Decide, RequestSound, Activating
<1>2. \A t \in Skills : draft[c][t] = Nothing /\ View(c, t) = rows[t]
  BY <1>1, RequestType DEF DraftSound, View
<1>3. proved \in SkillRows /\ proved.st = rows[s].st /\ proved.deleted = rows[s].deleted
 <2>1. rows[s] \in SkillRows /\ proved = [rows[s] EXCEPT !.proven = TRUE, !.vf = 0]
   BY <1>1, <1>2, RequestType
 <2>2. 0 \in 0..Strikes
   BY DEF RegistryConstants
 <2>3. QED
   BY <2>1, <2>2 DEF SkillRows
<1> HIDE DEF proved
<1>4. \/ \E rec \in {proved, [proved EXCEPT !.due = TRUE]} : Commit(c, s, rec)
      \/ proved.st = "pending-review"
         /\ Commit(c, s, [proved EXCEPT !.st = "superseded", !.sup = TRUE])
  BY DEF Decide, proved, Abort
<1>5. CASE \E rec \in {proved, [proved EXCEPT !.due = TRUE]} : Commit(c, s, rec)
 <2>1. PICK rec \in {proved, [proved EXCEPT !.due = TRUE]} : Commit(c, s, rec)
   BY <1>5
 <2>2. rec \in SkillRows /\ rec.st = rows[s].st /\ rec.deleted = rows[s].deleted
   BY <1>3, <2>1 DEF SkillRows
 <2>3. QED
   BY <1>1, <1>2, <2>1, <2>2, CommitLands DEF Proves
<1>6. CASE proved.st = "pending-review"
           /\ Commit(c, s, [proved EXCEPT !.st = "superseded", !.sup = TRUE])
 <2> DEFINE rec == [proved EXCEPT !.st = "superseded", !.sup = TRUE]
 <2>1. rec \in SkillRows /\ rec.st = "superseded" /\ rows[s].st = "pending-review"
   BY <1>3, <1>6 DEF SkillRows, SkillStatuses
 <2>2. Commit(c, s, rec)
   BY <1>6
 <2> HIDE DEF rec
 <2>3. QED
   BY <1>1, <1>2, <2>1, <2>2, CommitLands DEF Proves
<1>7. QED
  BY <1>4, <1>5, <1>6

LEMMA ActivateLands ==
  ASSUME RegistryConstants, SkillsInv, NEW c \in Clients, Activate(c), rows' # rows
  PROVE  Installs(c)
<1>1. /\ tx[c].pc = "activate" /\ Commit(c, tx[c].s, Activated(c))
      /\ (tx[c].op = "publish") # (rows[tx[c].s].st # "none")
  BY DEF Activate
<1>2. /\ tx[c].s \in Skills /\ tx[c].op \in Ops
      /\ Activated(c) \in SkillRows /\ Activated(c).st \in {"active", "pending-review"}
      /\ tx[c].op = "publish" => Activated(c).st = tx[c].as
      /\ tx[c].op # "publish" => Activated(c).st = "active" /\ tx[c].as = "active"
  BY <1>1, ActivatedType
<1>3. Lands(c) /\ rows'[tx[c].s] = Activated(c)
  BY <1>1, <1>2, CommitLands
<1>4. QED
  BY <1>1, <1>2, <1>3 DEF Installs

(* A step moves rows in one of three ways. *)
LEMMA RowsMove ==
  ASSUME RegistryConstants, SkillsInv, [RegistryNext]_registryVars, rows' # rows
  PROVE  (\E s \in Skills : Alone(s)) \/ (\E c \in Clients : Proves(c) \/ Installs(c))
<1>1. RegistryNext
  BY DEF registryVars
<1>2. ASSUME NEW c \in Clients, Step(c)
      PROVE  Proves(c) \/ Installs(c)
 <2>1. Decide(c) \/ Activate(c)
   BY <1>2 DEF Step, Gate, Read, Scan, Collapse, Collapses, Deadlock, Abort
 <2>2. QED
   BY <2>1, DecideLands, ActivateLands
<1>3. QED
  BY <1>1, <1>2, RegistrySteps DEF Begin

(* A row that a step alone does not touch stays; the one it touches is as   *)
(* Lone says.                                                               *)
LEMMA LoneRows ==
  ASSUME SkillsInv, NEW s \in Skills, NEW op, NEW rec, NEW seen, Lone(s, op, rec, seen)
  PROVE  /\ rows'[s] = rec /\ \A t \in Skills \ {s} : rows'[t] = rows[t]
         /\ ghost'.by.op = op /\ ghost'.by.s = s
<1>1. rows \in [Skills -> SkillRows]
  BY DEF SkillsInv, RegistryTypeOK
<1>2. rows' = [rows EXCEPT ![s] = rec]
      /\ ghost' = [seen EXCEPT !.by = [Idle EXCEPT !.op = op, !.s = s]]
      /\ seen \in [lied : BOOLEAN, blip : BOOLEAN, sent : SUBSET Skills, by : Requested]
  BY DEF Lone, Single
<1>3. ghost'.by = [Idle EXCEPT !.op = op, !.s = s]
  BY <1>2
<1>4. QED
  BY <1>1, <1>2, <1>3 DEF Idle

LEMMA QuarantineStep ==
  ASSUME RegistryConstants, SkillsInv, [RegistryNext]_registryVars, NEW s \in Skills,
         rows[s].st = "quarantined", rows'[s].st # "quarantined"
  PROVE  ByOperator(s)
<1>1. rows' # rows
  OBVIOUS
<1>2. ASSUME NEW t \in Skills, Alone(t)
      PROVE  ByOperator(s)
 <2>1. PICK op, rec, seen : Lone(t, op, rec, seen)
   BY <1>2 DEF Alone
 <2>2. t = s /\ op \in {"demote", "delete"}
   BY <2>1, LoneRows DEF Lone
 <2>3. QED
   BY <2>1, <2>2, LoneRows DEF ByOperator
<1>3. ASSUME NEW c \in Clients, Lands(c), s # tx[c].s
      PROVE  FALSE
  BY <1>3, RequestType DEF Lands, View, DraftSound
<1>4. ASSUME NEW c \in Clients, Proves(c)
      PROVE  ByOperator(s)
  BY <1>3, <1>4 DEF Proves
<1>5. ASSUME NEW c \in Clients, Installs(c)
      PROVE  ByOperator(s)
 <2>1. s = tx[c].s /\ ghost'.by = tx[c]
   BY <1>3, <1>5 DEF Installs, Lands
 <2>2. tx[c].op # "publish"
   BY <1>5, <2>1 DEF Installs
 <2>3. tx[c].op # "verify"
  <3>1. SUFFICES ASSUME tx[c].op = "verify"
                 PROVE  FALSE
    OBVIOUS
  <3>2. Activating(c) /\ draft[c][s].st = "pending-review"
    BY <1>5, <2>1, <3>1, RequestType DEF Installs, RequestSound, Activating, Ops
  <3>3. draft[c][s] # Nothing
    BY <3>2 DEF Nothing, Blank
  <3>4. QED
    BY <2>1, <3>3, RequestType DEF DraftSound
 <2>4. tx[c].op \in {"approve", "reactivate"}
   BY <1>5, <2>2, <2>3 DEF Installs, Ops
 <2>5. QED
   BY <2>1, <2>4 DEF ByOperator
<1>6. QED
  BY <1>1, <1>2, <1>4, <1>5, RowsMove

LEMMA SuccessorStep ==
  ASSUME RegistryConstants, SkillsInv, [RegistryNext]_registryVars, NEW s \in Skills,
         Served(rows[s]), rows'[s].st = "superseded"
  PROVE  \E t \in Skills : rows'[t].st = "active"
<1>1. rows[s].st = "active" /\ rows' # rows
  BY DEF Served
<1>2. ASSUME NEW t \in Skills, Alone(t)
      PROVE  FALSE
 <2>1. PICK op, rec, seen : Lone(t, op, rec, seen)
   BY <1>2 DEF Alone
 <2>2. QED
   BY <1>1, <2>1, LoneRows DEF Lone
<1>3. ASSUME NEW c \in Clients, Proves(c)
      PROVE  FALSE
  BY <1>1, <1>3 DEF Proves, Lands, View
<1>4. ASSUME NEW c \in Clients, Installs(c)
      PROVE  \E t \in Skills : rows'[t].st = "active"
 <2>1. s # tx[c].s /\ rows'[s] = View(c, s)
   BY <1>4 DEF Installs, Lands
 <2>2. draft[c][s] # Nothing
   BY <1>1, <2>1 DEF View
 <2>3. tx[c].as = "active"
   BY <2>2, RequestType DEF DraftSound, Activating
 <2>4. QED
   BY <1>4, <2>3 DEF Installs, Lands
<1>5. QED
  BY <1>1, <1>2, <1>3, <1>4, RowsMove

LEMMA ReviewStep ==
  ASSUME RegistryConstants, SkillsInv, [RegistryNext]_registryVars,
         NEW s \in Skills, NEW t \in Skills,
         Served(rows[s]), Served(rows'[t]), s # t, Entry[s] # Entry[t]
  PROVE  ByOperator(t) \/ s \notin ghost'.by.saw
<1>1. ~Served(rows[t])
  BY DEF SkillsInv, OneLive
<1>2. rows' # rows
  BY <1>1
<1>3. ASSUME NEW u \in Skills, Alone(u)
      PROVE  FALSE
 <2>1. PICK op, rec, seen : Lone(u, op, rec, seen)
   BY <1>3 DEF Alone
 <2>2. QED
   BY <1>1, <2>1, LoneRows DEF Lone
<1>4. ASSUME NEW c \in Clients, Lands(c), t # tx[c].s
      PROVE  FALSE
  BY <1>1, <1>4, Views DEF Lands
<1>5. ASSUME NEW c \in Clients, Proves(c)
      PROVE  FALSE
  BY <1>1, <1>4, <1>5 DEF Proves, Served
<1>6. ASSUME NEW c \in Clients, Installs(c)
      PROVE  ByOperator(t) \/ s \notin ghost'.by.saw
 <2>1. t = tx[c].s /\ ghost'.by = tx[c] /\ rows'[t].st = "active"
   BY <1>4, <1>6 DEF Installs, Lands, Served
 <2>2. tx[c].op \in {"publish", "approve", "reactivate", "verify"}
   BY <1>6 DEF Installs, Ops
 <2>3. CASE tx[c].op \in {"approve", "reactivate"}
   BY <2>1, <2>3 DEF ByOperator
 <2>4. CASE tx[c].op \in {"publish", "verify"}
  <3>1. tx[c].as = "active" /\ Activating(c)
    BY <1>6, <2>1, <2>4, RequestType DEF Installs, RequestSound, Activating, Ops
  <3>2. \A u \in tx[c].saw \ {tx[c].s} : Entry[u] = Entry[tx[c].s]
    BY <2>4, <3>1, RequestType DEF RequestSound
  <3>3. QED
    BY <2>1, <3>2
 <2>5. QED
   BY <2>2, <2>3, <2>4
<1>7. QED
  BY <1>2, <1>3, <1>5, <1>6, RowsMove

(* A service has one active skill, only an operator lifts a quarantine,     *)
(* what is superseded has a successor, and a skill with another entry point *)
(* takes the place of the one it was judged against only after a review.    *)
THEOREM SkillsAreSafe == RegistryConstants => (RegistrySpec => SkillsSafe)
<1> SUFFICES ASSUME RegistryConstants
             PROVE  RegistrySpec => SkillsSafe
  OBVIOUS
<1>1. SkillsInv => RegistryTypeOK /\ OneActive
 <2> SUFFICES ASSUME SkillsInv
              PROVE  RegistryTypeOK /\ OneActive
   OBVIOUS
 <2>1. \A x, y \in {s \in Skills : Served(rows[s])} : x = y
   BY DEF SkillsInv, OneLive
 <2>2. QED
   BY <2>1, AtMostOne DEF SkillsInv, OneActive
<1>2. SkillsInv /\ [RegistryNext]_registryVars =>
        [\A s \in Skills :
            rows[s].st = "quarantined" /\ rows'[s].st # "quarantined" => ByOperator(s)]_registryVars
  BY QuarantineStep
<1>3. SkillsInv /\ [RegistryNext]_registryVars =>
        [\A s \in Skills : Served(rows[s]) /\ rows'[s].st = "superseded" =>
            \E t \in Skills : rows'[t].st = "active"]_registryVars
  BY SuccessorStep
<1>4. SkillsInv /\ [RegistryNext]_registryVars =>
        [\A s, t \in Skills :
            Served(rows[s]) /\ Served(rows'[t]) /\ s # t /\ Entry[s] # Entry[t] =>
                ByOperator(t) \/ s \notin ghost'.by.saw]_registryVars
  BY ReviewStep
<1>5. QED
  BY <1>1, <1>2, <1>3, <1>4, RegistryIsSound, PTL
     DEF RegistrySpec, SkillsSafe, QuarantineIsOperators, SupersededHasSuccessor, ReplacedByReview

=============================================================================
