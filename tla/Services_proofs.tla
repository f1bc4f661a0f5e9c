--------------------------- MODULE Services_proofs ---------------------------
(***************************************************************************)
(* Theorems about the components that MCServices extends: EgressGrant for  *)
(* any number of processes, calls and revocations and any TTLs,            *)
(* MasterKeyRotation for any rows and machines and any number of writes,   *)
(* RetrievalLimit for any ceiling, window and number of retrievals,        *)
(* VaultStore for any writers, captures and fields of a slot, and Webhooks *)
(* for any processes, senders, events and waits.                           *)
(***************************************************************************)
EXTENDS EgressGrant, MasterKeyRotation, RetrievalLimit, VaultStore, Webhooks,
    FiniteSetTheorems, TLAPS

(* The row, its audits and the answers that were given agree. *)
Ledger ==
    /\ minted = IF grant.state = "absent" THEN 0 ELSE 1
    /\ grant.state # "revoked" => revokedBy = <<>>
    /\ grant.state = "revoked" => \E d \in Revokes : revokedBy = <<d>>
    /\ mint.pc \in {"cache", "minted"} => grant.state # "absent"
    /\ \A d \in Revokes :
          /\ del[d].pc \notin {"new", "failed"} => grant.state # "absent"
          /\ del[d].pc = "changed" => revokedBy = <<d>>
          /\ d \in inDoubt => grant.state # "absent"
    /\ told => grant.state = "revoked"

(* What a process believes of a revoked grant dates from before revoked_at. *)
Dated ==
    /\ lastServed <= now
    /\ grant.state = "revoked" =>
          grant.at <= now /\ lastServed < grant.at + ReadTime + LiveTtl
    /\ \A p \in Processes :
          /\ fetch[p].st = "got" => fetch[p].t <= now /\ now <= fetch[p].t + ReadTime
          /\ fetch[p].st = "got" /\ fetch[p].live /\ grant.state = "revoked" =>
                fetch[p].t <= grant.at
          /\ cache[p].held /\ cache[p].live =>
                /\ cache[p].until <= now + LiveTtl
                /\ grant.state = "revoked" => cache[p].until <= grant.at + ReadTime + LiveTtl
    /\ mint.pc = "cache" =>
          /\ mint.t <= now /\ now <= mint.t + ReadTime
          /\ grant.state = "revoked" => mint.t <= grant.at

IInv == TypeOK /\ Ledger /\ Dated
-----------------------------------------------------------------------------
(* Types. *)

LEMMA InitType == Init => TypeOK
<1> SUFFICES ASSUME Init PROVE TypeOK
  OBVIOUS
<1>1. now \in 0..MaxTime /\ revokedBy \in Seq(Revokes)
  BY GrantAssumption DEF Init
<1>2. /\ mint \in [pc : MintPCs, proc : Processes \union {NoProcess}, t : Nat]
      /\ del \in [Revokes -> [pc : DeletePCs, proc : Processes \union {NoProcess}]]
  BY DEF Init, MintPCs, DeletePCs
<1>3. QED
  BY <1>1, <1>2 DEF Init, TypeOK, NoEntry, NoFetch, NoCall

LEMMA CommitRevokeType ==
    ASSUME TypeOK, NEW d \in Revokes, CommitRevoke(d)
    PROVE  /\ grant' \in [state : {"absent", "live", "revoked"}, at : Nat]
           /\ revokedBy' \in Seq(Revokes)
<1>1. grant \in [state : {"absent", "live", "revoked"}, at : Nat] /\ revokedBy \in Seq(Revokes)
      /\ now \in Nat
  BY GrantAssumption DEF TypeOK
<1>2. QED
  BY <1>1 DEF CommitRevoke

LEMMA CommitMintType ==
    ASSUME TypeOK, CommitMint
    PROVE  grant' \in [state : {"absent", "live", "revoked"}, at : Nat] /\ minted' \in Nat
<1>1. grant \in [state : {"absent", "live", "revoked"}, at : Nat] /\ minted \in Nat
  BY DEF TypeOK
<1>2. QED
  BY <1>1 DEF CommitMint

LEMMA AskType ==
    ASSUME TypeOK, NEW p \in Processes, AskFor(p)
    PROVE  fetch' \in [Processes -> [st : {"none", "asked", "got"}, live : BOOLEAN, t : Nat]]
BY DEF AskFor, NoFetch, TypeOK

LEMMA ServeType ==
    ASSUME TypeOK, NEW p \in Processes, Serve(p)
    PROVE  TypeOK'
<1>1. now \in Nat
  BY GrantAssumption DEF TypeOK
<1>2. \A live \in BOOLEAN : Cached(live) \in [held : BOOLEAN, live : BOOLEAN, until : Nat]
  BY <1>1, GrantAssumption DEF Cached
<1>3. NoCall \in [proc : Processes \union {NoProcess}, late : BOOLEAN]
  BY DEF NoCall
<1>4. NoFetch \in [st : {"none", "asked", "got"}, live : BOOLEAN, t : Nat]
  BY DEF NoFetch
<1>5. CASE DatabaseAnswers(p)
 <2>1. [st |-> "got", live |-> Live, t |-> now]
          \in [st : {"none", "asked", "got"}, live : BOOLEAN, t : Nat]
   BY <1>1 DEF Live
 <2>2. QED
   BY <1>5, <2>1 DEF DatabaseAnswers, TypeOK, database, serving
<1>6. CASE ReadReturns(p)
 <2>1. cache' \in [Processes -> [held : BOOLEAN, live : BOOLEAN, until : Nat]]
   BY <1>2, <1>6 DEF ReadReturns, TypeOK
 <2>2. fetch' \in [Processes -> [st : {"none", "asked", "got"}, live : BOOLEAN, t : Nat]]
   BY <1>4, <1>6 DEF ReadReturns, TypeOK
 <2>3. call' \in [Calls -> [proc : Processes \union {NoProcess}, late : BOOLEAN]]
   BY <1>3, <1>6 DEF ReadReturns, TypeOK
 <2>4. lastServed' \in Nat /\ servedLate' \in BOOLEAN
   BY <1>1, <1>6 DEF ReadReturns, TypeOK
 <2>5. del' \in [Revokes -> [pc : DeletePCs, proc : Processes \union {NoProcess}]]
   BY <1>6 DEF ReadReturns, TypeOK, DeletePCs
 <2>6. QED
   BY <1>6, <2>1, <2>2, <2>3, <2>4, <2>5 DEF ReadReturns, TypeOK, database
<1>7. CASE ReadFails(p)
 <2>1. fetch' \in [Processes -> [st : {"none", "asked", "got"}, live : BOOLEAN, t : Nat]]
   BY <1>4, <1>7 DEF ReadFails, TypeOK
 <2>2. call' \in [Calls -> [proc : Processes \union {NoProcess}, late : BOOLEAN]]
   BY <1>3, <1>7 DEF ReadFails, TypeOK
 <2>3. del' \in [Revokes -> [pc : DeletePCs, proc : Processes \union {NoProcess}]]
   BY <1>7 DEF ReadFails, TypeOK, DeletePCs
 <2>4. QED
   BY <1>7, <2>1, <2>2, <2>3 DEF ReadFails, TypeOK, database
<1>8. ASSUME NEW c \in Calls, CallFromCache(c, p) PROVE TypeOK'
  BY <1>1, <1>8 DEF CallFromCache, TypeOK, database
<1>9. ASSUME NEW c \in Calls, CallWaits(c, p) PROVE TypeOK'
 <2>1. fetch' \in [Processes -> [st : {"none", "asked", "got"}, live : BOOLEAN, t : Nat]]
   BY <1>9, AskType DEF CallWaits
 <2>2. call' \in [Calls -> [proc : Processes \union {NoProcess}, late : BOOLEAN]]
   BY <1>9 DEF CallWaits, TypeOK
 <2>3. QED
   BY <1>9, <2>1, <2>2 DEF CallWaits, TypeOK, database
<1>10. QED
  BY <1>5, <1>6, <1>7, <1>8, <1>9 DEF Serve

LEMMA MintType ==
    ASSUME TypeOK, Mint
    PROVE  TypeOK'
<1>1. now \in Nat /\ mint \in [pc : MintPCs, proc : Processes \union {NoProcess}, t : Nat]
  BY GrantAssumption DEF TypeOK
<1>2. \A pc \in MintPCs : [mint EXCEPT !.pc = pc]
         \in [pc : MintPCs, proc : Processes \union {NoProcess}, t : Nat]
  BY <1>1
<1>3. [mint EXCEPT !.pc = "cache", !.t = now]
         \in [pc : MintPCs, proc : Processes \union {NoProcess}, t : Nat]
  BY <1>1 DEF MintPCs
<1>4. ASSUME NEW p \in Processes, MintStart(p) PROVE TypeOK'
 <2>1. [mint EXCEPT !.pc = "tx1", !.proc = p]
          \in [pc : MintPCs, proc : Processes \union {NoProcess}, t : Nat]
   BY <1>1 DEF MintPCs
 <2>2. QED
   BY <1>4, <2>1 DEF MintStart, TypeOK, database, serving
<1>5. CASE MintAnswered
  BY <1>3, <1>5, CommitMintType DEF MintAnswered, TypeOK, serving
<1>6. CASE MintDuplicate
  BY <1>2, <1>3, <1>6 DEF MintDuplicate, MintPCs, TypeOK, database, serving
<1>7. CASE MintLost
 <2>1. mint' \in [pc : MintPCs, proc : Processes \union {NoProcess}, t : Nat]
   BY <1>2, <1>7 DEF MintLost, Check, MintPCs
 <2>2. /\ grant' \in [state : {"absent", "live", "revoked"}, at : Nat] /\ minted' \in Nat
       /\ inDoubt' \in SUBSET (Revokes \union {MintNonce})
   BY <1>7, CommitMintType DEF MintLost, TypeOK
 <2>3. QED
   BY <1>7, <2>1, <2>2 DEF MintLost, TypeOK, serving
<1>8. CASE MintCommitsLate
 <2>1. /\ grant' \in [state : {"absent", "live", "revoked"}, at : Nat] /\ minted' \in Nat
       /\ inDoubt' \in SUBSET (Revokes \union {MintNonce})
   BY <1>8, CommitMintType DEF MintCommitsLate, TypeOK
 <2>2. QED
   BY <1>8, <2>1 DEF MintCommitsLate, TypeOK, serving
<1>9. CASE MintCheck
  BY <1>2, <1>3, <1>9 DEF MintCheck, MintPCs, TypeOK, database, serving
<1>10. CASE MintCaches
 <2>1. Cached(TRUE) \in [held : BOOLEAN, live : BOOLEAN, until : Nat]
   BY <1>1, GrantAssumption DEF Cached
 <2>2. cache' \in [Processes -> [held : BOOLEAN, live : BOOLEAN, until : Nat]]
   BY <1>10, <2>1 DEF MintCaches, TypeOK
 <2>3. QED
   BY <1>2, <1>10, <2>2 DEF MintCaches, MintPCs, TypeOK, database, serving
<1>11. CASE MintFails
  BY <1>2, <1>11 DEF MintFails, MintPCs, TypeOK, database, serving
<1>12. QED
  BY <1>4, <1>5, <1>6, <1>7, <1>8, <1>9, <1>10, <1>11 DEF Mint

LEMMA DeleteType ==
    ASSUME TypeOK, NEW d \in Revokes, Delete(d)
    PROVE  TypeOK'
<1>1. ASSUME NEW pc \in DeletePCs, del' = [del EXCEPT ![d].pc = pc]
      PROVE  del' \in [Revokes -> [pc : DeletePCs, proc : Processes \union {NoProcess}]]
 <2>1. del \in [Revokes -> [pc : DeletePCs, proc : Processes \union {NoProcess}]]
   BY DEF TypeOK
 <2>2. [del[d] EXCEPT !.pc = pc] \in [pc : DeletePCs, proc : Processes \union {NoProcess}]
   BY <2>1
 <2>3. QED
   BY <1>1, <2>1, <2>2
<1>2. ASSUME NEW p \in Processes, DeleteStart(d, p) PROVE TypeOK'
 <2>1. del' \in [Revokes -> [pc : DeletePCs, proc : Processes \union {NoProcess}]]
  <3>1. [pc |-> IF Fresh(p) THEN "start" ELSE "lookup", proc |-> p]
           \in [pc : DeletePCs, proc : Processes \union {NoProcess}]
    BY DEF DeletePCs
  <3>2. QED
    BY <1>2, <3>1 DEF DeleteStart, TypeOK
 <2>2. fetch' \in [Processes -> [st : {"none", "asked", "got"}, live : BOOLEAN, t : Nat]]
   BY <1>2, AskType DEF DeleteStart, TypeOK
 <2>3. QED
   BY <1>2, <2>1, <2>2 DEF DeleteStart, TypeOK, database, serving
<1>3. CASE DeleteForgets(d)
 <2>1. cache' \in [Processes -> [held : BOOLEAN, live : BOOLEAN, until : Nat]]
   BY <1>3 DEF DeleteForgets, NoEntry, TypeOK
 <2>2. QED
   BY <1>1, <1>3, <2>1 DEF DeleteForgets, DeletePCs, TypeOK, database, serving
<1>4. CASE DeleteReads(d)
  BY <1>1, <1>4 DEF DeleteReads, Answer, DeletePCs, TypeOK, database, serving
<1>5. CASE DeleteAnswered(d)
  BY <1>1, <1>5, CommitRevokeType DEF DeleteAnswered, Answer, DeletePCs, TypeOK, serving
<1>6. CASE DeleteLost(d)
 <2>1. del' \in [Revokes -> [pc : DeletePCs, proc : Processes \union {NoProcess}]]
   BY <1>1, <1>6 DEF DeleteLost, Check, DeletePCs
 <2>2. /\ grant' \in [state : {"absent", "live", "revoked"}, at : Nat]
       /\ revokedBy' \in Seq(Revokes)
       /\ inDoubt' \in SUBSET (Revokes \union {MintNonce})
   BY <1>6, CommitRevokeType DEF DeleteLost, TypeOK
 <2>3. QED
   BY <1>6, <2>1, <2>2 DEF DeleteLost, TypeOK, serving
<1>7. CASE DeleteCommitsLate(d)
  BY <1>7, CommitRevokeType DEF DeleteCommitsLate, TypeOK, serving
<1>8. CASE DeleteChecks(d)
 <2>1. \E pc \in DeletePCs : del' = [del EXCEPT ![d].pc = pc]
   BY <1>8 DEF DeleteChecks, Answer, DeletePCs
 <2>2. told' \in BOOLEAN
   BY <1>8 DEF DeleteChecks, Answer, TypeOK
 <2>3. QED
   BY <1>1, <1>8, <2>1, <2>2 DEF DeleteChecks, TypeOK, database, serving
<1>9. CASE DeleteFails(d)
  BY <1>1, <1>9 DEF DeleteFails, DeletePCs, TypeOK, database, serving
<1>10. QED
  BY <1>2, <1>3, <1>4, <1>5, <1>6, <1>7, <1>8, <1>9 DEF Delete

LEMMA NextType == TypeOK /\ [Next]_vars => TypeOK'
<1> SUFFICES ASSUME TypeOK, [Next]_vars PROVE TypeOK'
  OBVIOUS
<1>1. ASSUME NEW p \in Processes, Restart(p) PROVE TypeOK'
 <2>1. cache' \in [Processes -> [held : BOOLEAN, live : BOOLEAN, until : Nat]]
   BY <1>1 DEF Restart, NoEntry, TypeOK
 <2>2. fetch' \in [Processes -> [st : {"none", "asked", "got"}, live : BOOLEAN, t : Nat]]
   BY <1>1 DEF Restart, NoFetch, TypeOK
 <2>3. call' \in [Calls -> [proc : Processes \union {NoProcess}, late : BOOLEAN]]
   BY <1>1 DEF Restart, NoCall, TypeOK
 <2>4. mint' \in [pc : MintPCs, proc : Processes \union {NoProcess}, t : Nat]
  <3>1. mint \in [pc : MintPCs, proc : Processes \union {NoProcess}, t : Nat]
    BY DEF TypeOK
  <3>2. mint' = mint \/ mint' = [mint EXCEPT !.pc = "failed"]
    BY <1>1 DEF Restart
  <3>3. QED
    BY <3>1, <3>2 DEF MintPCs
 <2>5. del' \in [Revokes -> [pc : DeletePCs, proc : Processes \union {NoProcess}]]
  <3>1. del \in [Revokes -> [pc : DeletePCs, proc : Processes \union {NoProcess}]]
    BY DEF TypeOK
  <3>2. \A d \in Revokes : [del[d] EXCEPT !.pc = "failed"]
                              \in [pc : DeletePCs, proc : Processes \union {NoProcess}]
    BY <3>1 DEF DeletePCs
  <3>3. QED
    BY <1>1, <3>1, <3>2 DEF Restart
 <2>6. QED
   BY <1>1, <2>1, <2>2, <2>3, <2>4, <2>5 DEF Restart, TypeOK, database
<1>2. CASE Tick
  BY <1>2, GrantAssumption DEF Tick, TypeOK, database, serving
<1>3. CASE UNCHANGED vars
  BY <1>3 DEF TypeOK, vars
<1>4. QED
  BY <1>1, <1>2, <1>3, ServeType, MintType, DeleteType DEF Next

THEOREM GrantTypeCorrect == Spec => []TypeOK
BY InitType, NextType, PTL DEF Spec

-----------------------------------------------------------------------------
(* The ledger. *)

(* A transaction that revokes, now or late, finds the row live or does      *)
(* nothing.                                                                 *)
LEMMA CommitRevokeKeeps ==
    ASSUME TypeOK, Ledger, NEW d \in Revokes, CommitRevoke(d), grant.state # "absent"
    PROVE  /\ grant'.state = "revoked"
           /\ Live => revokedBy' = <<d>>
           /\ ~Live => grant' = grant /\ revokedBy' = revokedBy
<1>1. grant.state \in {"live", "revoked"}
  BY DEF TypeOK
<1>2. CASE Live
  BY <1>2 DEF CommitRevoke, Live, Ledger
<1>3. CASE ~Live
  BY <1>1, <1>3 DEF CommitRevoke, Live
<1>4. QED
  BY <1>2, <1>3

LEMMA LedgerServe ==
    ASSUME TypeOK, Ledger, NEW p \in Processes, Serve(p) \/ Restart(p)
    PROVE  Ledger'
<1>1. UNCHANGED <<database, told>>
  BY DEF Serve, DatabaseAnswers, ReadReturns, ReadFails, CallFromCache, CallWaits, Restart
<1>2. mint' = mint \/ mint'.pc = "failed"
 <2>1. mint \in [pc : MintPCs, proc : Processes \union {NoProcess}, t : Nat]
   BY DEF TypeOK
 <2>2. QED
   BY <2>1 DEF Serve, DatabaseAnswers, ReadReturns, ReadFails, CallFromCache, CallWaits, Restart
<1>3. \A d \in Revokes : \/ del'[d] = del[d] \/ del'[d].pc = "failed"
                         \/ del[d].pc = "lookup" /\ del'[d].pc = "start"
 <2>1. del \in [Revokes -> [pc : DeletePCs, proc : Processes \union {NoProcess}]]
   BY DEF TypeOK
 <2>2. CASE ReadReturns(p)
   BY <2>1, <2>2 DEF ReadReturns
 <2>3. CASE ReadFails(p)
   BY <2>1, <2>3 DEF ReadFails
 <2>4. CASE Restart(p)
   BY <2>1, <2>4 DEF Restart
 <2>5. CASE UNCHANGED del
   BY <2>5
 <2>6. QED
   BY <2>2, <2>3, <2>4, <2>5 DEF Serve, DatabaseAnswers, CallFromCache, CallWaits
<1>4. QED
  BY <1>1, <1>2, <1>3 DEF Ledger, database

LEMMA LedgerMint ==
    ASSUME TypeOK, Ledger, Mint
    PROVE  Ledger'
<1>1. mint \in [pc : MintPCs, proc : Processes \union {NoProcess}, t : Nat]
      /\ grant \in [state : {"absent", "live", "revoked"}, at : Nat]
  BY DEF TypeOK
<1>2. UNCHANGED <<revokedBy, del, told>> /\ \A d \in Revokes : d \in inDoubt' => d \in inDoubt
  BY GrantAssumption
  DEF Mint, MintStart, MintAnswered, MintDuplicate, MintLost, MintCommitsLate, MintCheck,
      MintCaches, MintFails, database
<1>3. ASSUME grant.state = "absent", CommitMint
      PROVE  grant'.state = "live" /\ minted' = 1
  BY <1>1, <1>3 DEF CommitMint, Ledger
<1>4. CASE \E p \in Processes : MintStart(p)
  BY <1>1, <1>2, <1>4 DEF MintStart, Ledger, database
<1>5. CASE MintAnswered
  BY <1>1, <1>2, <1>3, <1>5 DEF MintAnswered, Ledger
<1>6. CASE MintDuplicate
  BY <1>1, <1>2, <1>6 DEF MintDuplicate, Ledger, database
<1>7. CASE MintLost
 <2>1. mint'.pc \in {"check1", "check2"}
   BY <1>1, <1>7 DEF MintLost, Check
 <2>2. CASE UNCHANGED <<grant, minted>>
   BY <1>2, <2>1, <2>2 DEF Ledger
 <2>3. CASE CommitMint /\ grant.state = "absent"
   BY <1>2, <1>3, <1>7, <2>1, <2>3 DEF MintLost, Ledger
 <2>4. QED
   BY <1>7, <2>2, <2>3 DEF MintLost
<1>8. CASE MintCommitsLate
 <2>1. CASE grant.state = "absent"
   BY <1>2, <1>3, <1>8, <2>1 DEF MintCommitsLate, Ledger
 <2>2. CASE grant.state # "absent"
   BY <1>2, <1>8, <2>2 DEF MintCommitsLate, Ledger
 <2>3. QED
   BY <2>1, <2>2
<1>9. CASE MintCheck
  BY <1>1, <1>2, <1>9 DEF MintCheck, Live, Ledger, database
<1>10. CASE MintCaches
  BY <1>1, <1>2, <1>10 DEF MintCaches, Ledger, database
<1>11. CASE MintFails
  BY <1>1, <1>2, <1>11 DEF MintFails, Ledger, database
<1>12. QED
  BY <1>4, <1>5, <1>6, <1>7, <1>8, <1>9, <1>10, <1>11 DEF Mint

LEMMA LedgerDelete ==
    ASSUME TypeOK, Ledger, NEW d \in Revokes, Delete(d)
    PROVE  Ledger'
<1>1. /\ del \in [Revokes -> [pc : DeletePCs, proc : Processes \union {NoProcess}]]
      /\ grant \in [state : {"absent", "live", "revoked"}, at : Nat]
  BY DEF TypeOK
<1>2. UNCHANGED <<minted, mint>>
  BY DEF Delete, DeleteStart, DeleteForgets, DeleteReads, DeleteAnswered, DeleteLost,
         DeleteCommitsLate, DeleteChecks, DeleteFails, database
<1>3. ASSUME NEW pc, del' = [del EXCEPT ![d].pc = pc]
      PROVE  del'[d].pc = pc /\ \A e \in Revokes : e # d => del'[e] = del[e]
  BY <1>1, <1>3
<1>4. ASSUME NEW p \in Processes, DeleteStart(d, p) PROVE Ledger'
 <2>1. /\ del'[d].pc \in {"start", "lookup"} /\ grant.state # "absent"
       /\ \A e \in Revokes : e # d => del'[e] = del[e]
   BY <1>1, <1>4 DEF DeleteStart
 <2>2. QED
   BY <1>2, <1>4, <2>1 DEF DeleteStart, Ledger, database
<1>5. ASSUME UNCHANGED <<database, told>>, NEW pc \in DeletePCs \ {"changed"},
             del' = [del EXCEPT ![d].pc = pc], del[d].pc \notin {"new", "failed"}
      PROVE  Ledger'
  BY <1>2, <1>3, <1>5 DEF Ledger, database
<1>6. CASE DeleteForgets(d)
  BY <1>5, <1>6 DEF DeleteForgets, DeletePCs
<1>7. CASE DeleteReads(d)
 <2>1. CASE Live
   BY <1>5, <1>7, <2>1 DEF DeleteReads, DeletePCs
 <2>2. CASE ~Live
  <3>1. grant.state = "revoked"
    BY <1>1, <1>7, <2>2 DEF DeleteReads, Live, Ledger
  <3>2. QED
    BY <1>2, <1>3, <1>7, <2>2, <3>1 DEF DeleteReads, Answer, Ledger, database
 <2>3. QED
   BY <2>1, <2>2
<1>8. ASSUME CommitRevoke(d), grant.state # "absent", inDoubt' \subseteq inDoubt, NEW pc,
             del' = [del EXCEPT ![d].pc = pc], pc = "changed" => Live
      PROVE  Ledger'
 <2>1. grant'.state = "revoked"
   BY <1>8, CommitRevokeKeeps
 <2>2. \E e \in Revokes : revokedBy' = <<e>>
   BY <1>1, <1>8, CommitRevokeKeeps DEF Live, Ledger
 <2>3. \A e \in Revokes : del'[e].pc = "changed" => revokedBy' = <<e>>
  <3>1. CASE Live
   <4>1. \A e \in Revokes : del[e].pc # "changed"
     BY <3>1 DEF Live, Ledger
   <4>2. QED
     BY <1>3, <1>8, <3>1, <4>1, CommitRevokeKeeps
  <3>2. CASE ~Live
    BY <1>3, <1>8, <3>2, CommitRevokeKeeps DEF Ledger
  <3>3. QED
    BY <3>1, <3>2
 <2>4. QED
   BY <1>2, <1>8, <2>1, <2>2, <2>3 DEF Ledger
<1>9. CASE DeleteAnswered(d)
 <2>1. grant.state # "absent"
   BY <1>9 DEF DeleteAnswered, Ledger
 <2>2. CommitRevoke(d) /\ inDoubt' \subseteq inDoubt
   BY <1>9 DEF DeleteAnswered
 <2>3. CASE Live
  <3>1. del' = [del EXCEPT ![d].pc = "changed"]
    BY <1>9, <2>3 DEF DeleteAnswered, Answer
  <3>2. QED
    BY <1>8, <2>1, <2>2, <2>3, <3>1
 <2>4. CASE ~Live
  <3>1. del' = [del EXCEPT ![d].pc = "unchanged"]
    BY <1>9, <2>4 DEF DeleteAnswered, Answer
  <3>2. "unchanged" = "changed" => Live
    OBVIOUS
  <3>3. QED
    BY <1>8, <2>1, <2>2, <3>1, <3>2
 <2>5. QED
   BY <2>3, <2>4
<1>10. CASE DeleteLost(d)
 <2>1. /\ grant.state # "absent" /\ del[d].pc \notin {"new", "failed"}
       /\ del' = [del EXCEPT ![d].pc = Check(del[d].pc)]
       /\ Check(del[d].pc) \in DeletePCs \ {"changed"}
   BY <1>10 DEF DeleteLost, Ledger, Check, DeletePCs
 <2>2. CASE CommitRevoke(d) /\ UNCHANGED inDoubt
   BY <1>8, <2>1, <2>2
 <2>3. CASE UNCHANGED <<grant, revokedBy>>
  <3>1. /\ del'[d].pc \in DeletePCs \ {"changed"}
        /\ \A e \in Revokes : e # d => del'[e] = del[e]
    BY <1>3, <2>1
  <3>2. UNCHANGED told /\ inDoubt' \subseteq inDoubt \union {d}
    BY <1>10 DEF DeleteLost
  <3>3. QED
    BY <1>2, <2>1, <2>3, <3>1, <3>2 DEF Ledger
 <2>4. QED
   BY <1>10, <2>2, <2>3 DEF DeleteLost
<1>11. CASE DeleteCommitsLate(d)
 <2>1. grant.state # "absent" /\ CommitRevoke(d) /\ inDoubt' \subseteq inDoubt /\ UNCHANGED del
   BY <1>11 DEF DeleteCommitsLate, Ledger
 <2>2. del' = [del EXCEPT ![d].pc = del[d].pc]
   BY <1>1, <2>1
 <2>3. CASE del[d].pc = "changed" => Live
   BY <1>8, <2>1, <2>2, <2>3
 <2>4. CASE ~Live
   BY <1>2, <1>11, <2>1, <2>4, CommitRevokeKeeps DEF Ledger, DeleteCommitsLate
 <2>5. QED
   BY <2>3, <2>4
<1>12. CASE DeleteChecks(d)
 <2>1. CASE Live
  <3>1. PICK pc \in {"tx2", "failed"} : del' = [del EXCEPT ![d].pc = pc] /\ UNCHANGED told
    BY <1>12, <2>1 DEF DeleteChecks
  <3>2. QED
    BY <1>5, <1>12, <3>1 DEF DeleteChecks, DeletePCs
 <2>2. CASE ~Live
  <3>1. grant.state = "revoked"
    BY <1>1, <1>12, <2>2 DEF DeleteChecks, Live, Ledger
  <3>2. WasCommitted(d) => revokedBy = <<d>>
    BY <3>1 DEF WasCommitted, Ledger
  <3>3. PICK pc \in {"changed", "unchanged"} :
           /\ del' = [del EXCEPT ![d].pc = pc] /\ told'
           /\ pc = "changed" => WasCommitted(d)
    BY <1>12, <2>2 DEF DeleteChecks, Answer
  <3>4. QED
    BY <1>2, <1>3, <1>12, <3>1, <3>2, <3>3 DEF DeleteChecks, Ledger, database
 <2>3. QED
   BY <2>1, <2>2
<1>13. CASE DeleteFails(d)
  BY <1>5, <1>13 DEF DeleteFails, DeletePCs
<1>14. QED
  BY <1>4, <1>6, <1>7, <1>9, <1>10, <1>11, <1>12, <1>13 DEF Delete

LEMMA LedgerNext == TypeOK /\ Ledger /\ [Next]_vars => Ledger'
<1> SUFFICES ASSUME TypeOK, Ledger, [Next]_vars PROVE Ledger'
  OBVIOUS
<1>1. CASE Tick
  BY <1>1 DEF Tick, Ledger, database
<1>2. CASE UNCHANGED vars
  BY <1>2 DEF Ledger, vars
<1>3. QED
  BY <1>1, <1>2, LedgerServe, LedgerMint, LedgerDelete DEF Next

-----------------------------------------------------------------------------
(* The dates of what is believed about the grant. *)

(* The arithmetic of TypeOK. *)
LEMMA Numbers ==
    ASSUME TypeOK
    PROVE  /\ now \in Nat /\ grant.at \in Nat /\ lastServed \in Nat /\ mint.t \in Nat
           /\ LiveTtl \in Nat \ {0} /\ ReadTime \in Nat \ {0} /\ RevokedTtl \in Nat
           /\ \A p \in Processes : fetch[p].t \in Nat /\ cache[p].until \in Nat
BY GrantAssumption DEF TypeOK

(* The part of Dated about one process. *)
DatedAt(p) ==
    /\ fetch[p].st = "got" => fetch[p].t <= now /\ now <= fetch[p].t + ReadTime
    /\ fetch[p].st = "got" /\ fetch[p].live /\ grant.state = "revoked" => fetch[p].t <= grant.at
    /\ cache[p].held /\ cache[p].live =>
          /\ cache[p].until <= now + LiveTtl
          /\ grant.state = "revoked" => cache[p].until <= grant.at + ReadTime + LiveTtl

LEMMA AskKeeps ==
    ASSUME TypeOK, NEW p \in Processes, AskFor(p), NEW q \in Processes
    PROVE  fetch'[q] = fetch[q] \/ fetch'[q].st = "asked"
BY DEF AskFor, NoFetch, TypeOK

(* A live answer cached now can serve no later than the bound. *)
LEMMA CachedBound ==
    ASSUME TypeOK, NEW live \in BOOLEAN
    PROVE  /\ Cached(live).live = live
           /\ live => Cached(live).until = now + LiveTtl
BY DEF Cached

LEMMA DatedServe ==
    ASSUME TypeOK, Dated, NEW p \in Processes, Serve(p)
    PROVE  Dated'
<1>1. UNCHANGED <<now, grant, mint>>
  BY DEF Serve, DatabaseAnswers, ReadReturns, ReadFails, CallFromCache, CallWaits, database
<1>2. \A q \in Processes : DatedAt(q)
  BY DEF Dated, DatedAt
<1>3. /\ cache \in [Processes -> [held : BOOLEAN, live : BOOLEAN, until : Nat]]
      /\ fetch \in [Processes -> [st : {"none", "asked", "got"}, live : BOOLEAN, t : Nat]]
  BY DEF TypeOK
<1>4. ASSUME \A q \in Processes : DatedAt(q)',
             \/ UNCHANGED lastServed
             \/ /\ lastServed' = now
                /\ grant.state = "revoked" => now < grant.at + ReadTime + LiveTtl
      PROVE  Dated'
  BY <1>1, <1>4, Numbers DEF Dated, DatedAt
<1>5. CASE DatabaseAnswers(p)
 <2>1. UNCHANGED <<cache, lastServed>> /\ fetch'[p] = [st |-> "got", live |-> Live, t |-> now]
       /\ \A q \in Processes : q # p => fetch'[q] = fetch[q]
   BY <1>3, <1>5 DEF DatabaseAnswers, serving
 <2>2. DatedAt(p)'
  <3>1. /\ fetch'[p].t = now /\ cache'[p] = cache[p]
        /\ fetch'[p].live => grant.state = "live"
   <4>1. CASE Live
     BY <2>1, <4>1 DEF Live
   <4>2. CASE ~Live
    <5>1. Live = FALSE
      BY <4>2 DEF Live
    <5>2. fetch'[p] = [st |-> "got", live |-> FALSE, t |-> now]
      BY <2>1, <5>1, Zenon
    <5>3. QED
      BY <2>1, <5>2
   <4>3. QED
     BY <4>1, <4>2
  <3>2. QED
    BY <1>1, <1>2, <3>1, Numbers DEF DatedAt
 <2>3. \A q \in Processes : q # p => DatedAt(q)'
   BY <1>1, <1>2, <2>1 DEF DatedAt
 <2>4. QED
   BY <1>4, <2>1, <2>2, <2>3
<1>6. CASE ReadReturns(p)
 <2>1. /\ fetch'[p].st = "none" /\ cache'[p] = Cached(fetch[p].live) /\ fetch[p].st = "got"
       /\ \A q \in Processes : q # p => fetch'[q] = fetch[q] /\ cache'[q] = cache[q]
   BY <1>3, <1>6 DEF ReadReturns, NoFetch
 <2>2. fetch[p].live /\ grant.state = "revoked" => now <= grant.at + ReadTime
   BY <1>2, <2>1, Numbers DEF DatedAt
 <2>3. fetch[p].live \in BOOLEAN
   BY <1>3
 <2>4. DatedAt(p)'
   BY <1>1, <2>1, <2>2, <2>3, CachedBound, Numbers DEF DatedAt
 <2>5. \A q \in Processes : q # p => DatedAt(q)'
   BY <1>1, <1>2, <2>1 DEF DatedAt
 <2>6. UNCHANGED lastServed \/ (lastServed' = now /\ fetch[p].live)
   BY <1>6 DEF ReadReturns
 <2>7. QED
   BY <1>4, <2>2, <2>4, <2>5, <2>6, Numbers
<1>7. CASE ReadFails(p)
 <2>1. UNCHANGED <<cache, lastServed>> /\ fetch'[p].st = "none"
       /\ \A q \in Processes : q # p => fetch'[q] = fetch[q]
   BY <1>3, <1>7 DEF ReadFails, NoFetch
 <2>2. \A q \in Processes : DatedAt(q)'
   BY <1>1, <1>2, <2>1 DEF DatedAt
 <2>3. QED
   BY <1>4, <2>1, <2>2
<1>8. ASSUME NEW c \in Calls, CallFromCache(c, p) PROVE Dated'
 <2>1. UNCHANGED <<cache, fetch>> /\ Fresh(p)
       /\ (UNCHANGED lastServed \/ (lastServed' = now /\ cache[p].live))
   BY <1>8 DEF CallFromCache
 <2>2. cache[p].live /\ grant.state = "revoked" => now < grant.at + ReadTime + LiveTtl
   BY <1>2, <2>1, Numbers DEF DatedAt, Fresh
 <2>3. \A q \in Processes : DatedAt(q)'
   BY <1>1, <1>2, <2>1 DEF DatedAt
 <2>4. QED
   BY <1>4, <2>1, <2>2, <2>3
<1>9. ASSUME NEW c \in Calls, CallWaits(c, p) PROVE Dated'
 <2>1. UNCHANGED <<cache, lastServed>> /\ AskFor(p)
   BY <1>9 DEF CallWaits
 <2>2. \A q \in Processes : DatedAt(q)'
   BY <1>1, <1>2, <2>1, AskKeeps DEF DatedAt
 <2>3. QED
   BY <1>4, <2>1, <2>2
<1>10. QED
  BY <1>5, <1>6, <1>7, <1>8, <1>9 DEF Serve

(* A restart only forgets. *)
LEMMA DatedRestart ==
    ASSUME TypeOK, Dated, NEW p \in Processes, Restart(p)
    PROVE  Dated'
<1>1. /\ UNCHANGED <<now, grant, lastServed>>
      /\ \A q \in Processes : fetch'[q] = fetch[q] \/ fetch'[q].st = "none"
      /\ \A q \in Processes : cache'[q] = cache[q] \/ ~cache'[q].held
  BY DEF Restart, TypeOK, NoEntry, NoFetch, database
<1>2. mint' = mint \/ mint'.pc = "failed"
  BY DEF Restart, TypeOK
<1>3. QED
  BY <1>1, <1>2 DEF Dated

LEMMA DatedMint ==
    ASSUME TypeOK, Ledger, Dated, Mint
    PROVE  Dated'
<1>1. /\ mint \in [pc : MintPCs, proc : Processes \union {NoProcess}, t : Nat]
      /\ grant \in [state : {"absent", "live", "revoked"}, at : Nat]
      /\ cache \in [Processes -> [held : BOOLEAN, live : BOOLEAN, until : Nat]]
  BY DEF TypeOK
<1>2. UNCHANGED <<now, fetch, lastServed>>
  BY DEF Mint, MintStart, MintAnswered, MintDuplicate, MintLost, MintCommitsLate, MintCheck,
         MintCaches, MintFails, serving
<1>3. grant' = grant \/ (CommitMint /\ grant.state = "absent")
  BY DEF Mint, MintStart, MintAnswered, MintDuplicate, MintLost, MintCommitsLate, MintCheck,
         MintCaches, MintFails, database
<1>4. grant' = grant \/ (grant.state = "absent" /\ grant'.state = "live")
  BY <1>1, <1>3 DEF CommitMint
<1>5. CASE MintCaches
 <2>1. grant' = grant /\ mint.pc = "cache" /\ mint'.pc = "minted"
   BY <1>1, <1>5 DEF MintCaches, database
 <2>2. \A q \in Processes : cache'[q] = cache[q] \/ cache'[q] = Cached(TRUE)
   BY <1>1, <1>5 DEF MintCaches
 <2>3. Cached(TRUE).until = now + LiveTtl
   BY CachedBound
 <2>4. grant.state = "revoked" => now + LiveTtl <= grant.at + ReadTime + LiveTtl
   BY <2>1, Numbers DEF Dated
 <2>5. \A q \in Processes : cache'[q].held /\ cache'[q].live =>
          /\ cache'[q].until <= now + LiveTtl
          /\ grant.state = "revoked" => cache'[q].until <= grant.at + ReadTime + LiveTtl
  <3> TAKE q \in Processes
  <3>1. CASE cache'[q] = cache[q]
    BY <3>1 DEF Dated
  <3>2. CASE cache'[q] = Cached(TRUE)
   <4>1. cache'[q].until = now + LiveTtl
     BY <2>3, <3>2
   <4>2. QED
     BY <2>4, <4>1, Numbers
  <3>3. QED
    BY <2>2, <3>1, <3>2
 <2>6. QED
   BY <1>2, <2>1, <2>5 DEF Dated
<1>6. CASE UNCHANGED cache /\ (mint'.pc # "cache" \/ UNCHANGED mint)
 <2>1. mint'.pc = "cache" => grant.state # "absent"
   BY <1>6 DEF Ledger
 <2>2. QED
   BY <1>2, <1>4, <1>6, <2>1 DEF Dated
<1>7. CASE UNCHANGED cache /\ mint'.t = now /\ grant'.state # "revoked"
  BY <1>2, <1>4, <1>7, Numbers DEF Dated
<1>8. \/ MintCaches
      \/ UNCHANGED cache /\ (mint'.pc # "cache" \/ UNCHANGED mint)
      \/ UNCHANGED cache /\ mint'.t = now /\ grant'.state # "revoked"
 <2>1. CASE \E p \in Processes : MintStart(p)
   BY <1>1, <2>1 DEF MintStart
 <2>2. CASE MintAnswered
   BY <1>1, <2>2 DEF MintAnswered, CommitMint
 <2>3. CASE MintDuplicate
   BY <1>1, <2>3 DEF MintDuplicate, Live, database
 <2>4. CASE MintLost
   BY <1>1, <2>4 DEF MintLost, Check
 <2>5. CASE MintCommitsLate
   BY <2>5 DEF MintCommitsLate
 <2>6. CASE MintCheck
   BY <1>1, <2>6 DEF MintCheck, Live, database
 <2>7. CASE MintFails
   BY <1>1, <2>7 DEF MintFails
 <2>8. QED
   BY <2>1, <2>2, <2>3, <2>4, <2>5, <2>6, <2>7 DEF Mint
<1>9. QED
  BY <1>5, <1>6, <1>7, <1>8

LEMMA DatedDelete ==
    ASSUME TypeOK, Ledger, Dated, NEW d \in Revokes, Delete(d)
    PROVE  Dated'
<1>1. UNCHANGED <<now, mint, lastServed>>
  BY DEF Delete, DeleteStart, DeleteForgets, DeleteReads, DeleteAnswered, DeleteLost,
         DeleteCommitsLate, DeleteChecks, DeleteFails, serving
<1>2. grant' = grant \/ grant' = [state |-> "revoked", at |-> now]
  BY DEF Delete, DeleteStart, DeleteForgets, DeleteReads, DeleteAnswered, DeleteLost,
         DeleteCommitsLate, DeleteChecks, DeleteFails, CommitRevoke, database
<1>3. \A q \in Processes : fetch'[q] = fetch[q] \/ fetch'[q].st = "asked"
  BY AskKeeps DEF Delete, DeleteStart, DeleteForgets, DeleteReads, DeleteAnswered, DeleteLost,
         DeleteCommitsLate, DeleteChecks, DeleteFails
<1>4. \A q \in Processes : cache'[q] = cache[q] \/ ~cache'[q].held
 <2>1. CASE DeleteForgets(d)
   BY <2>1 DEF DeleteForgets, NoEntry, TypeOK
 <2>2. CASE UNCHANGED cache
   BY <2>2
 <2>3. QED
   BY <2>1, <2>2 DEF Delete, DeleteStart, DeleteReads, DeleteAnswered, DeleteLost,
        DeleteCommitsLate, DeleteChecks, DeleteFails
<1>5. CASE grant' = grant
  BY <1>1, <1>3, <1>4, <1>5 DEF Dated
<1>6. CASE grant' = [state |-> "revoked", at |-> now]
  BY <1>1, <1>3, <1>4, <1>6, Numbers DEF Dated
<1>7. QED
  BY <1>2, <1>5, <1>6

LEMMA DatedNext == TypeOK /\ Ledger /\ Dated /\ [Next]_vars => Dated'
<1> SUFFICES ASSUME TypeOK, Ledger, Dated, [Next]_vars PROVE Dated'
  OBVIOUS
<1>1. CASE Tick
  BY <1>1, Numbers DEF Tick, Dated, database, serving
<1>2. CASE UNCHANGED vars
  BY <1>2 DEF Dated, vars
<1>3. QED
  BY <1>1, <1>2, DatedServe, DatedRestart, DatedMint, DatedDelete DEF Next

-----------------------------------------------------------------------------
(* The theorems. *)

LEMMA InitInv == Init => IInv
<1> SUFFICES ASSUME Init PROVE IInv
  OBVIOUS
<1>1. TypeOK
  BY InitType
<1>2. Ledger
  BY DEF Init, Ledger
<1>3. Dated
  BY DEF Init, Dated, NoEntry, NoFetch
<1>4. QED
  BY <1>1, <1>2, <1>3 DEF IInv

(* The inductive invariant: the ledger and the dates hold in every state. *)
THEOREM GrantInvariant == Spec => []IInv
<1>1. IInv /\ [Next]_vars => IInv'
  BY NextType, LedgerNext, DatedNext DEF IInv
<1>2. QED
  BY InitInv, <1>1, PTL DEF Spec

(* A mint that was answered 201 has its grant, audited exactly once. *)
THEOREM MintedAudited == Spec => []MintedIsAudited
<1>1. IInv => MintedIsAudited
  BY DEF IInv, Ledger, MintedIsAudited
<1>2. QED
  BY GrantInvariant, <1>1, PTL

(* No DELETE is answered { revoked: true } while the row is live. *)
THEOREM ToldRevoked == Spec => []ToldIsRevoked
<1>1. IInv => ToldIsRevoked
  BY DEF IInv, Ledger, ToldIsRevoked
<1>2. QED
  BY GrantInvariant, <1>1, PTL

(* The revocation is audited once and only its own request reports it. *)
THEOREM OneRevocation == Spec => []RevokedOnce
<1>1. IInv => RevokedOnce
 <2> SUFFICES ASSUME IInv PROVE RevokedOnce
   OBVIOUS
 <2>1. revokedBy = <<>> \/ \E d \in Revokes : revokedBy = <<d>>
   BY DEF IInv, Ledger
 <2>2. Len(revokedBy) <= 1
  <3>1. CASE revokedBy = <<>>
    BY <3>1
  <3>2. ASSUME NEW d \in Revokes, revokedBy = <<d>> PROVE Len(revokedBy) <= 1
   <4>1. Len(<<d>>) = 1
     OBVIOUS
   <4>2. QED
     BY <3>2, <4>1
  <3>3. QED
    BY <2>1, <3>1, <3>2
 <2>3. QED
   BY <2>2 DEF IInv, Ledger, RevokedOnce
<1>2. QED
  BY GrantInvariant, <1>1, PTL

(* No process serves a revoked grant for ReadTime + LiveTtl or longer. *)
THEOREM StaleBounded == Spec => []StaleServiceIsBounded
<1>1. IInv => StaleServiceIsBounded
  BY DEF IInv, Dated, StaleServiceIsBounded
<1>2. QED
  BY GrantInvariant, <1>1, PTL

-----------------------------------------------------------------------------
(* The rotation of the master key. *)

(* The script starts once every machine has the new key, and the old one is *)
(* dropped after the check of a script that ran to its end.                 *)
Staged ==
    /\ \A m \in Machines : ring[m] = "old" => job.pc = "off"
    /\ \A m \in Machines : ring[m] = "new" => job.pc = "checked"
    /\ job.pc # "rows" => DOMAIN job.todo = {}

(* What a machine is about to write it wrapped with the key it writes with. *)
WritersCurrent ==
    \A m \in Machines :
        writer[m].pc # "idle" => writer[m].row \in Rows /\ writer[m].wrap = EncryptsWith(ring[m])

(* Once the script has listed, a row under the old key is still to come,    *)
(* was deleted then, or was not written yet; what it read of a row is what  *)
(* the row holds, unless the vault wrote it since.                          *)
ListedOrMissed ==
    /\ job.pc # "off" =>
          \A r \in Rows : row[r].wrap = "old" /\ row[r].status # "absent" =>
              r \in DOMAIN job.todo \union missed
    /\ \A r \in DOMAIN job.todo \ raced : job.todo[r] = row[r].blob

RotationIInv == RotationTypeOK /\ Staged /\ WritersCurrent /\ OnlyRacesTear /\ ListedOrMissed
-----------------------------------------------------------------------------

LEMMA RotationInit_IInv == RotationAssumption /\ RotationInit => RotationIInv
<1> SUFFICES ASSUME RotationAssumption, RotationInit PROVE RotationIInv
  OBVIOUS
<1> USE DEF RotationAssumption, RotationInit, NoWrite, NoJob
<1>1. RotationTypeOK
 <2>1. ring \in [Machines -> Rings] /\ row \in [Rows -> RowStates]
   BY DEF Rings, RowStates, Absent
 <2>2. job = [pc |-> "off", todo |-> [r \in {} |-> 0]] /\ DOMAIN job.todo = {}
   OBVIOUS
 <2>3. job.todo \in [DOMAIN job.todo -> Nat]
   BY <2>2
 <2>4. QED
   BY <2>1, <2>2, <2>3 DEF RotationTypeOK
<1>2. Staged /\ WritersCurrent /\ OnlyRacesTear /\ ListedOrMissed
  BY DEF Staged, WritersCurrent, OnlyRacesTear, ListedOrMissed, Absent
<1>3. QED
  BY <1>1, <1>2 DEF RotationIInv

LEMMA RotationTypeNext == RotationAssumption /\ RotationTypeOK /\ [RotationNext]_rotationVars => RotationTypeOK'
<1> SUFFICES ASSUME RotationAssumption, RotationTypeOK, [RotationNext]_rotationVars PROVE RotationTypeOK'
  OBVIOUS
<1> USE DEF RotationAssumption, RotationTypeOK, Rings, RowStates, NoWrite, NoJob
<1>1. ASSUME NEW m \in Machines, Encrypt(m) PROVE RotationTypeOK'
  BY <1>1 DEF Encrypt, EncryptsWith
<1>2. ASSUME NEW m \in Machines, Write(m) PROVE RotationTypeOK'
 <2> DEFINE w == writer[m]
            new == [status |-> IF w.pc = "insert" THEN "active" ELSE row[w.row].status,
                    secret |-> w.secret, blob |-> w.secret, wrap |-> w.wrap]
 <2>1. w.row \in Rows => new \in RowStates
   OBVIOUS
 <2>2. row' = [row EXCEPT ![w.row] = new]
   BY <1>2 DEF Write
 <2>3. row' \in [Rows -> RowStates]
   BY <2>1, <2>2
 <2>4. raced' \in SUBSET Rows
   BY <1>2 DEF Write
 <2>5. writer' \in [Machines -> [pc : {"idle", "insert", "replace"},
                                 row : Rows \union {"none"}, secret : Nat,
                                 wrap : {"old", "new"}]]
   BY <1>2 DEF Write
 <2>6. QED
   BY <1>2, <2>3, <2>4, <2>5 DEF Write
<1>3. ASSUME NEW m \in Machines, WriteFails(m) PROVE RotationTypeOK'
  BY <1>3 DEF WriteFails
<1>4. ASSUME NEW m \in Machines, NEW from, NEW to \in Rings, Deploy(m, from, to) PROVE RotationTypeOK'
  BY <1>4 DEF Deploy
<1>5. ASSUME NEW r \in Rows, NEW status \in {"active", "deleted"},
             row' = [row EXCEPT ![r].status = status],
             UNCHANGED <<ring, writer, job, kek, raced, missed>>
      PROVE RotationTypeOK'
 <2>1. [row[r] EXCEPT !.status = status] \in RowStates
   OBVIOUS
 <2>2. row' \in [Rows -> RowStates]
   BY <1>5, <2>1
 <2>3. QED
   BY <1>5, <2>2
<1>6. ASSUME NEW r \in Rows, RewrapRow(r) PROVE RotationTypeOK'
 <2>0. job.todo[r] \in Nat /\ row[r] \in RowStates
   BY <1>6 DEF RewrapRow
 <2>1. [row[r] EXCEPT !.blob = job.todo[r], !.wrap = "new"] \in RowStates
   BY <2>0
 <2>2. row' \in [Rows -> RowStates]
   BY <1>6, <2>1 DEF RewrapRow
 <2>3. job' = [pc |-> job.pc, todo |-> Remaining(r)]
   BY <1>6 DEF RewrapRow
 <2>4. DOMAIN Remaining(r) \subseteq Rows /\ Remaining(r) \in [DOMAIN Remaining(r) -> Nat]
   BY DEF Remaining
 <2>5. QED
   BY <1>6, <2>2, <2>3, <2>4 DEF RewrapRow
<1>7. CASE RewrapList
 <2> DEFINE active == {q \in Rows : row[q].status = "active"}
            read == [r \in active |-> row[r].blob]
 <2>1. read \in [active -> Nat] /\ DOMAIN read = active
   OBVIOUS
 <2>2. job' = [pc |-> "rows", todo |-> read]
   BY <1>7 DEF RewrapList
 <2>3. QED
   BY <1>7, <2>1, <2>2 DEF RewrapList
<1>8. ASSUME NEW pc \in {"off", "done", "checked"}, NEW todo,
             todo = job.todo \/ todo = NoJob.todo,
             job' = [pc |-> pc, todo |-> todo],
             UNCHANGED <<ring, row, writer, kek, raced, missed>>
      PROVE RotationTypeOK'
 <2>1. DOMAIN todo \subseteq Rows /\ todo \in [DOMAIN todo -> Nat]
   BY <1>8
 <2>2. QED
   BY <1>8, <2>1
<1>9. CASE RewrapEnd \/ RewrapDies \/ CheckPasses
  BY <1>8, <1>9 DEF RewrapEnd, RewrapDies, CheckPasses
<1>10. CASE UNCHANGED rotationVars
  BY <1>10 DEF rotationVars
<1>11. QED
  BY <1>1, <1>2, <1>3, <1>4, <1>5, <1>6, <1>7, <1>9, <1>10
     DEF RotationNext, AddNewKey, DropOldKey, SoftDelete, Restore

-----------------------------------------------------------------------------
(* The parts of the invariant, step by step. *)

LEMMA WriteNext ==
    ASSUME RotationIInv, NEW m \in Machines, Write(m)
    PROVE  (WritersCurrent /\ OnlyRacesTear /\ ListedOrMissed)'
<1> DEFINE w == writer[m]
           r == w.row
<1>1. /\ r \in Rows /\ w.wrap = EncryptsWith(ring[m])
      /\ raced' = IF r \in DOMAIN job.todo THEN raced \union {r} ELSE raced
      /\ UNCHANGED <<ring, job, missed>>
  BY DEF RotationIInv, WritersCurrent, Write
<1>2. /\ row'[r].secret = w.secret /\ row'[r].blob = w.secret /\ row'[r].wrap = w.wrap
      /\ \A q \in Rows : q # r => row'[q] = row[q]
  BY <1>1 DEF RotationIInv, RotationTypeOK, Write
<1>3. WritersCurrent'
  BY <1>1 DEF RotationIInv, RotationTypeOK, WritersCurrent, Write, NoWrite
<1>4. OnlyRacesTear'
  BY <1>1, <1>2 DEF RotationIInv, OnlyRacesTear
<1>5. job.pc # "off" => w.wrap = "new"
  BY <1>1 DEF RotationIInv, Staged, EncryptsWith
<1>6. ListedOrMissed'
  BY <1>1, <1>2, <1>5 DEF RotationIInv, RotationTypeOK, ListedOrMissed
<1>7. QED
  BY <1>3, <1>4, <1>6

LEMMA DeployNext ==
    ASSUME RotationIInv, NEW m \in Machines, AddNewKey(m) \/ DropOldKey(m)
    PROVE  (Staged /\ WritersCurrent)'
<1>1. /\ UNCHANGED job
      /\ ring'[m] # "old" /\ (ring'[m] = "new" => job.pc = "checked")
      /\ writer'[m].pc = "idle"
      /\ \A q \in Machines : q # m => ring'[q] = ring[q] /\ writer'[q] = writer[q]
  BY DEF RotationIInv, RotationTypeOK, AddNewKey, DropOldKey, Deploy, NoWrite
<1>2. Staged'
  BY <1>1 DEF RotationIInv, Staged
<1>3. WritersCurrent'
  BY <1>1 DEF RotationIInv, WritersCurrent
<1>4. QED
  BY <1>2, <1>3

(* A soft delete and its undoing leave the two blobs of the row alone. *)
LEMMA StatusNext ==
    ASSUME RotationIInv, NEW r \in Rows, SoftDelete(r) \/ Restore(r)
    PROVE  (OnlyRacesTear /\ ListedOrMissed)'
<1>1. /\ UNCHANGED <<job, raced, missed>> /\ row[r].status # "absent"
      /\ \A q \in Rows : /\ row'[q].secret = row[q].secret /\ row'[q].blob = row[q].blob
                         /\ row'[q].wrap = row[q].wrap
                         /\ q # r => row'[q] = row[q]
  BY DEF RotationIInv, RotationTypeOK, RowStates, SoftDelete, Restore
<1>2. OnlyRacesTear'
  BY <1>1 DEF RotationIInv, OnlyRacesTear
<1>3. ListedOrMissed'
  BY <1>1 DEF RotationIInv, RotationTypeOK, ListedOrMissed
<1>4. QED
  BY <1>2, <1>3

LEMMA RewrapListNext ==
    ASSUME RotationIInv, RewrapList
    PROVE  (Staged /\ ListedOrMissed)'
<1> DEFINE active == {q \in Rows : row[q].status = "active"}
<1>1. /\ job'.pc = "rows" /\ DOMAIN job'.todo = active
      /\ \A r \in active : job'.todo[r] = row[r].blob
      /\ missed' = {r \in Rows : row[r].status = "deleted"}
      /\ UNCHANGED <<ring, row, raced>> /\ \A m \in Machines : ring[m] = "both"
  BY DEF RewrapList
<1>2. Staged'
  BY <1>1 DEF Staged
<1>3. \A r \in Rows : row[r].status \in {"absent", "active", "deleted"}
  BY DEF RotationIInv, RotationTypeOK, RowStates
<1>4. ListedOrMissed'
  BY <1>1, <1>3 DEF ListedOrMissed
<1>5. QED
  BY <1>2, <1>4

LEMMA RewrapRowNext ==
    ASSUME RotationIInv, NEW r \in Rows, RewrapRow(r)
    PROVE  (Staged /\ OnlyRacesTear /\ ListedOrMissed)'
<1>1. /\ job.pc = "rows" /\ job'.pc = "rows" /\ r \in DOMAIN job.todo
      /\ DOMAIN job'.todo = DOMAIN job.todo \ {r}
      /\ \A q \in DOMAIN job.todo \ {r} : job'.todo[q] = job.todo[q]
      /\ UNCHANGED <<ring, raced, missed>>
  BY DEF RotationIInv, RotationTypeOK, RewrapRow, Remaining
<1>2. /\ row'[r].blob = job.todo[r] /\ row'[r].wrap = "new"
      /\ row'[r].secret = row[r].secret
      /\ \A q \in Rows : q # r => row'[q] = row[q]
  BY DEF RotationIInv, RotationTypeOK, RowStates, RewrapRow
<1>3. Staged'
  BY <1>1 DEF RotationIInv, Staged
<1>4. OnlyRacesTear'
  BY <1>1, <1>2 DEF RotationIInv, OnlyRacesTear, ListedOrMissed
<1>5. ListedOrMissed'
  BY <1>1, <1>2 DEF RotationIInv, RotationTypeOK, ListedOrMissed
<1>6. QED
  BY <1>3, <1>4, <1>5

LEMMA ScriptNext ==
    ASSUME RotationIInv, RewrapEnd \/ RewrapDies \/ CheckPasses
    PROVE  (Staged /\ ListedOrMissed)'
<1>1. UNCHANGED <<ring, row, raced, missed>>
  BY DEF RewrapEnd, RewrapDies, CheckPasses
<1>2. DOMAIN job.todo = {} \/ job.pc = "rows"
  BY DEF RotationIInv, Staged
<1>3. DOMAIN job'.todo = {} /\ job'.pc # "rows"
      /\ (job'.pc = "off" => job.pc = "rows")
      /\ (job'.pc # "off" => job.pc # "off" /\ DOMAIN job.todo = {})
      /\ job.pc \notin {"off", "checked"}
  BY <1>2 DEF RotationIInv, RotationTypeOK, RewrapEnd, RewrapDies, CheckPasses, NoJob
<1>4. Staged'
  BY <1>1, <1>3 DEF RotationIInv, Staged
<1>5. ListedOrMissed'
  BY <1>1, <1>3 DEF RotationIInv, ListedOrMissed
<1>6. QED
  BY <1>4, <1>5

LEMMA RotationNext_IInv == RotationAssumption /\ RotationIInv /\ [RotationNext]_rotationVars => RotationIInv'
<1> SUFFICES ASSUME RotationAssumption, RotationIInv, [RotationNext]_rotationVars PROVE RotationIInv'
  OBVIOUS
<1>1. RotationTypeOK'
  BY RotationTypeNext DEF RotationIInv
<1> SUFFICES (Staged /\ WritersCurrent /\ OnlyRacesTear /\ ListedOrMissed)'
  BY <1>1 DEF RotationIInv
<1>2. UNCHANGED <<ring, job>> => Staged'
  BY DEF RotationIInv, Staged
<1>3. UNCHANGED <<ring, writer>> => WritersCurrent'
  BY DEF RotationIInv, WritersCurrent
<1>4. UNCHANGED <<row, raced>> => OnlyRacesTear'
  BY DEF RotationIInv, OnlyRacesTear
<1>5. UNCHANGED <<row, job, raced, missed>> => ListedOrMissed'
  BY DEF RotationIInv, ListedOrMissed
<1>6. ASSUME NEW m \in Machines, Encrypt(m) \/ WriteFails(m) PROVE WritersCurrent'
  BY <1>6 DEF RotationIInv, RotationTypeOK, WritersCurrent, Encrypt, WriteFails, NoWrite
<1>7. ASSUME NEW m \in Machines, Encrypt(m) \/ Write(m) \/ WriteFails(m)
      PROVE (Staged /\ WritersCurrent /\ OnlyRacesTear /\ ListedOrMissed)'
  BY <1>2, <1>4, <1>5, <1>6, <1>7, WriteNext DEF Encrypt, Write, WriteFails
<1>8. ASSUME NEW m \in Machines, AddNewKey(m) \/ DropOldKey(m)
      PROVE (Staged /\ WritersCurrent /\ OnlyRacesTear /\ ListedOrMissed)'
  BY <1>4, <1>5, <1>8, DeployNext DEF AddNewKey, DropOldKey, Deploy
<1>9. ASSUME NEW r \in Rows, SoftDelete(r) \/ Restore(r)
      PROVE (Staged /\ WritersCurrent /\ OnlyRacesTear /\ ListedOrMissed)'
  BY <1>2, <1>3, <1>9, StatusNext DEF SoftDelete, Restore
<1>10. ASSUME NEW r \in Rows, RewrapRow(r)
       PROVE (Staged /\ WritersCurrent /\ OnlyRacesTear /\ ListedOrMissed)'
  BY <1>3, <1>10, RewrapRowNext DEF RewrapRow
<1>11. CASE RewrapList
  BY <1>3, <1>4, <1>11, RewrapListNext DEF RewrapList
<1>12. CASE RewrapEnd \/ RewrapDies \/ CheckPasses
  BY <1>3, <1>4, <1>12, ScriptNext DEF RewrapEnd, RewrapDies, CheckPasses
<1>13. CASE UNCHANGED rotationVars
  BY <1>2, <1>3, <1>4, <1>5, <1>13 DEF rotationVars
<1>14. QED
  BY <1>7, <1>8, <1>9, <1>10, <1>11, <1>12, <1>13 DEF RotationNext

(* A machine with both keys only fails on a torn row; one without the old   *)
(* key came after a script that had listed, and finished with, every row.   *)
LEMMA RotationIInv_Safe == RotationIInv => RotationSafe
<1> SUFFICES ASSUME RotationIInv, NEW r \in Rows, Lost(r), r \notin raced
             PROVE  r \in missed
  BY DEF RotationIInv, RotationSafe, RotationIsSeamless
<1>1. PICK m \in Machines : ring[m] # "old" /\ ~ReadableWith(r, ring[m])
  BY DEF Lost
<1>2. row[r].blob = row[r].secret
  BY DEF RotationIInv, OnlyRacesTear
<1>3. row[r].wrap \in {"old", "new"} /\ row[r].wrap \notin Decrypts(ring[m])
  BY <1>1, <1>2 DEF RotationIInv, RotationTypeOK, RowStates, ReadableWith
<1>4. ring[m] = "new" /\ row[r].wrap = "old"
  BY <1>1, <1>3 DEF RotationIInv, RotationTypeOK, Rings, Decrypts
<1>5. job.pc = "checked" /\ DOMAIN job.todo = {} /\ row[r].status # "absent"
  BY <1>4 DEF RotationIInv, Staged, Lost
<1>6. QED
  BY <1>4, <1>5 DEF RotationIInv, ListedOrMissed

-----------------------------------------------------------------------------
(* The inductive invariant holds of every state of a rotation, however     *)
(* many machines, rows and writes there are.                               *)
THEOREM RotationInvariant == RotationAssumption => (RotationSpec => []RotationIInv)
<1> SUFFICES ASSUME RotationAssumption PROVE RotationSpec => []RotationIInv
  OBVIOUS
<1>1. RotationInit => RotationIInv
  BY RotationInit_IInv
<1>2. RotationIInv /\ [RotationNext]_rotationVars => RotationIInv'
  BY RotationNext_IInv
<1>3. QED
  BY <1>1, <1>2, PTL DEF RotationSpec

(* scripts/rewrap-master-key.ts and the keyring of kms-client.ts: a machine *)
(* that holds the new key reads every live row, but for rows written while  *)
(* the script held what it had read, and rows it skipped as deleted; and    *)
(* nothing but such a write separates a row's two blobs.                    *)
THEOREM RotationIsSafe == RotationAssumption => (RotationSpec => []RotationSafe)
BY RotationInvariant, RotationIInv_Safe, PTL

-----------------------------------------------------------------------------
(* The ceiling of retrievals. *)

(* The retrievals that have counted and may still return a secret. *)
InFlight == {r \in Readers : reader[r] \in {"decrypt", "record"}}
MostServed == Ceiling + Cardinality(Readers) - 1

(* What the hour has served and what may still be served stay in the bound. *)
LimitInv ==
    /\ LimitTypeOK /\ IsFiniteSet(events)
    /\ \A e \in events : e.at <= clock /\ e.n <= Cardinality(Alike(e.at, e.ok))
    /\ Cardinality(ServedBy(clock)) + Cardinality(InFlight) <= MostServed
    /\ \A t \in Ticks : t < clock => Cardinality(ServedBy(t)) <= MostServed

LEMMA Counts ==
    ASSUME LimitAssumption, LimitInv
    PROVE  /\ \A t \in Ticks : /\ IsFiniteSet(Recent(t)) /\ IsFiniteSet(ServedBy(t))
                               /\ Cardinality(Recent(t)) \in Nat
                               /\ Cardinality(ServedBy(t)) \in Nat
                               /\ Cardinality(ServedBy(t)) <= Cardinality(Recent(t))
           /\ \A t \in Ticks, ok \in BOOLEAN : /\ IsFiniteSet(Alike(t, ok))
                                               /\ Cardinality(Alike(t, ok)) \in Nat
           /\ IsFiniteSet(InFlight) /\ Cardinality(InFlight) \in Nat
           /\ Cardinality(InFlight) <= Cardinality(Readers) /\ Cardinality(Readers) \in Nat
           /\ MostServed \in Int /\ clock \in Ticks
<1>1. ASSUME NEW t \in Ticks
      PROVE  /\ IsFiniteSet(Recent(t)) /\ IsFiniteSet(ServedBy(t))
             /\ Cardinality(Recent(t)) \in Nat /\ Cardinality(ServedBy(t)) \in Nat
             /\ Cardinality(ServedBy(t)) <= Cardinality(Recent(t))
 <2>1. Recent(t) \subseteq events /\ ServedBy(t) \subseteq Recent(t)
   BY DEF Recent, ServedBy
 <2>2. IsFiniteSet(Recent(t)) /\ IsFiniteSet(ServedBy(t))
   BY <2>1, FS_Subset DEF LimitInv
 <2>3. QED
   BY <2>1, <2>2, FS_Subset, FS_CardinalityType
<1>2. ASSUME NEW t \in Ticks, NEW ok \in BOOLEAN
      PROVE  IsFiniteSet(Alike(t, ok)) /\ Cardinality(Alike(t, ok)) \in Nat
 <2>1. Alike(t, ok) \subseteq events
   BY DEF Alike
 <2>2. QED
   BY <2>1, FS_Subset, FS_CardinalityType DEF LimitInv
<1>3. /\ IsFiniteSet(InFlight) /\ Cardinality(InFlight) \in Nat
      /\ Cardinality(InFlight) <= Cardinality(Readers) /\ Cardinality(Readers) \in Nat
 <2>1. InFlight \subseteq Readers /\ IsFiniteSet(Readers)
   BY DEF InFlight, LimitAssumption
 <2>2. QED
   BY <2>1, FS_Subset, FS_CardinalityType
<1>4. MostServed \in Int
  BY <1>3 DEF MostServed, LimitAssumption
<1>5. QED
  BY <1>1, <1>2, <1>3, <1>4 DEF LimitInv, LimitTypeOK

(* A recorded event is a new one of the present tick. *)
LEMMA Recorded ==
    ASSUME LimitAssumption, LimitInv, NEW ok \in BOOLEAN, RecordEvent(ok),
           UNCHANGED clock
    PROVE  \E x \in [at : Ticks, ok : BOOLEAN, n : Nat] :
               /\ x.at = clock /\ x.ok = ok /\ x \notin events /\ events' = events \cup {x}
               /\ IsFiniteSet(events') /\ Cardinality(events') = Cardinality(events) + 1
               /\ \A e \in events' : e.at <= clock /\ e.n <= Cardinality(Alike(e.at, e.ok)')
<1> DEFINE A == Alike(clock, ok)
           x == [at |-> clock, ok |-> ok, n |-> Cardinality(A) + 1]
<1>1. clock \in Ticks /\ IsFiniteSet(A) /\ Cardinality(A) \in Nat
  BY Counts
<1>2. x \in [at : Ticks, ok : BOOLEAN, n : Nat]
  BY <1>1
<1>3. x.at = clock /\ x.ok = ok /\ x.n = Cardinality(A) + 1
  OBVIOUS
<1>4. x \notin events
 <2>1. \A e \in A : e.n <= Cardinality(A)
   BY DEF LimitInv, Alike
 <2>2. x \in events => x \in A
   BY DEF Alike
 <2>3. QED
   BY <1>1, <1>3, <2>1, <2>2
<1>5. events' = events \cup {x}
  BY DEF RecordEvent
<1>6. IsFiniteSet(events') /\ Cardinality(events') = Cardinality(events) + 1
  BY <1>4, <1>5, FS_AddElement DEF LimitInv
<1> HIDE DEF x
<1>7. \A e \in events' : e.at <= clock /\ e.n <= Cardinality(Alike(e.at, e.ok)')
 <2> TAKE e \in events'
 <2>1. CASE e = x
  <3>1. x \notin A /\ Alike(clock, ok)' = A \cup {x}
    BY <1>3, <1>4, <1>5 DEF Alike, RecordEvent
  <3>2. Cardinality(Alike(clock, ok)') = Cardinality(A) + 1
    BY <1>1, <3>1, FS_AddElement
  <3>3. QED
    BY <1>1, <1>3, <2>1, <3>2 DEF Ticks, LimitAssumption
 <2>2. CASE e # x
  <3>1. e \in events /\ e.at \in Ticks /\ e.ok \in BOOLEAN /\ e.n \in Nat
    BY <1>5, <2>2 DEF LimitInv, LimitTypeOK
  <3>2. Alike(e.at, e.ok) \subseteq Alike(e.at, e.ok)'
    BY <1>5 DEF Alike
  <3>3. IsFiniteSet(Alike(e.at, e.ok)')
    BY <1>6, FS_Subset DEF Alike
  <3>4. /\ Cardinality(Alike(e.at, e.ok)) <= Cardinality(Alike(e.at, e.ok)')
        /\ Cardinality(Alike(e.at, e.ok)) \in Nat /\ Cardinality(Alike(e.at, e.ok)') \in Nat
    BY <3>2, <3>3, FS_Subset, FS_CardinalityType
  <3>5. QED
    BY <3>1, <3>4 DEF LimitInv
 <2>3. QED
   BY <2>1, <2>2
<1>8. QED
  BY <1>2, <1>3, <1>4, <1>5, <1>6, <1>7

(* Requests move while the log stays: none is newly in flight. *)
LEMMA NoneJoins ==
    ASSUME LimitAssumption, LimitInv, UNCHANGED <<clock, events>>,
           reader' \in [Readers -> ReaderPCs], InFlight' \subseteq InFlight
    PROVE  LimitInv'
<1>1. Cardinality(InFlight') <= Cardinality(InFlight) /\ Cardinality(InFlight') \in Nat
  BY Counts, FS_Subset, FS_CardinalityType
<1>2. \A t : ServedBy(t)' = ServedBy(t)
  BY DEF ServedBy, Recent
<1>3. \A t, ok : Alike(t, ok)' = Alike(t, ok)
  BY DEF Alike
<1>4. Cardinality(ServedBy(clock)) \in Nat /\ Cardinality(InFlight) \in Nat /\ MostServed \in Int
  BY Counts
<1>5. Cardinality(ServedBy(clock)') + Cardinality(InFlight') <= MostServed
  BY <1>1, <1>2, <1>4 DEF LimitInv
<1>6. QED
  BY <1>2, <1>3, <1>5 DEF LimitInv, LimitTypeOK, MostServed

LEMMA CountStep ==
    ASSUME LimitAssumption, LimitInv, NEW r \in Readers, CountEvents(r)
    PROVE  LimitInv'
<1>1. reader \in [Readers -> ReaderPCs] /\ UNCHANGED <<clock, events>>
  BY DEF CountEvents, LimitInv, LimitTypeOK
<1>2. reader' \in [Readers -> ReaderPCs]
  BY <1>1 DEF CountEvents, ReaderPCs
<1>3. CASE ~Allowed(clock)
  BY <1>1, <1>2, <1>3, NoneJoins DEF CountEvents, InFlight
<1>4. CASE Allowed(clock)
 <2>1. InFlight' \subseteq Readers /\ IsFiniteSet(Readers)
   BY DEF InFlight, LimitAssumption
 <2>2. Cardinality(InFlight') <= Cardinality(Readers) /\ Cardinality(InFlight') \in Nat
   BY <2>1, FS_Subset, FS_CardinalityType
 <2>3. Cardinality(ServedBy(clock)) <= Ceiling - 1 /\ Cardinality(ServedBy(clock)) \in Nat
   BY <1>4, Counts DEF Allowed, LimitAssumption
 <2>4. \A t : ServedBy(t)' = ServedBy(t)
   BY <1>1 DEF ServedBy, Recent
 <2>5. \A t, ok : Alike(t, ok)' = Alike(t, ok)
   BY <1>1 DEF Alike
 <2>6. Cardinality(ServedBy(clock)') + Cardinality(InFlight') <= MostServed
   BY <1>1, <2>2, <2>3, <2>4, Counts DEF MostServed, LimitAssumption
 <2>7. QED
   BY <1>1, <1>2, <2>4, <2>5, <2>6 DEF LimitInv, LimitTypeOK, MostServed
<1>5. QED
  BY <1>3, <1>4

LEMMA RefusalStep ==
    ASSUME LimitAssumption, LimitInv, NEW r \in Readers, RecordRefusal(r)
    PROVE  LimitInv'
<1>1. reader' \in [Readers -> ReaderPCs] /\ InFlight' \subseteq InFlight /\ UNCHANGED clock
  BY DEF RecordRefusal, InFlight, LimitInv, LimitTypeOK, ReaderPCs
<1>2. CASE UNCHANGED events
  BY <1>1, <1>2, NoneJoins
<1>3. CASE RecordEvent(FALSE)
 <2>1. PICK x \in [at : Ticks, ok : BOOLEAN, n : Nat] :
           /\ x.at = clock /\ x.ok = FALSE /\ x \notin events /\ events' = events \cup {x}
           /\ IsFiniteSet(events') /\ Cardinality(events') = Cardinality(events) + 1
           /\ \A e \in events' : e.at <= clock /\ e.n <= Cardinality(Alike(e.at, e.ok)')
   BY <1>1, <1>3, Recorded
 <2>2. \A t : ServedBy(t)' = ServedBy(t)
   BY <2>1 DEF ServedBy, Recent
 <2>3. Cardinality(InFlight') <= Cardinality(InFlight) /\ Cardinality(InFlight') \in Nat
   BY <1>1, Counts, FS_Subset, FS_CardinalityType
 <2>4. Cardinality(ServedBy(clock)') + Cardinality(InFlight') <= MostServed
   BY <1>1, <2>2, <2>3, Counts DEF LimitInv
 <2>5. QED
   BY <1>1, <2>1, <2>2, <2>4 DEF LimitInv, LimitTypeOK, MostServed
<1>4. QED
  BY <1>2, <1>3 DEF RecordRefusal

(* One that was in flight is served. *)
LEMMA ServedStep ==
    ASSUME LimitAssumption, LimitInv, NEW r \in Readers, RecordServed(r)
    PROVE  LimitInv'
<1>1. reader' \in [Readers -> ReaderPCs] /\ UNCHANGED clock /\ clock \in Ticks
  BY DEF RecordServed, LimitInv, LimitTypeOK, ReaderPCs
<1>2. PICK x \in [at : Ticks, ok : BOOLEAN, n : Nat] :
          /\ x.at = clock /\ x.ok = TRUE /\ x \notin events /\ events' = events \cup {x}
          /\ IsFiniteSet(events') /\ Cardinality(events') = Cardinality(events) + 1
          /\ \A e \in events' : e.at <= clock /\ e.n <= Cardinality(Alike(e.at, e.ok)')
  BY <1>1, Recorded DEF RecordServed
<1>3. r \in InFlight /\ InFlight' = InFlight \ {r}
  BY DEF RecordServed, InFlight, LimitInv, LimitTypeOK
<1>4. Cardinality(InFlight') = Cardinality(InFlight) - 1
  BY <1>3, Counts, FS_RemoveElement
<1>5. \A t \in Ticks : t < clock => ServedBy(t)' = ServedBy(t)
  BY <1>1, <1>2 DEF ServedBy, Recent, Ticks, LimitAssumption
<1>6. x \notin ServedBy(clock) /\ ServedBy(clock)' \subseteq ServedBy(clock) \cup {x}
  BY <1>1, <1>2 DEF ServedBy, Recent
<1>7. Cardinality(ServedBy(clock)') <= Cardinality(ServedBy(clock)) + 1
      /\ Cardinality(ServedBy(clock)') \in Nat
 <2>1. IsFiniteSet(ServedBy(clock)) /\ IsFiniteSet(ServedBy(clock) \cup {x})
       /\ Cardinality(ServedBy(clock) \cup {x}) = Cardinality(ServedBy(clock)) + 1
   BY <1>1, <1>6, Counts, FS_AddElement
 <2>2. QED
   BY <1>6, <2>1, FS_Subset, FS_CardinalityType
<1>8. Cardinality(ServedBy(clock)') + Cardinality(InFlight') <= MostServed
  BY <1>1, <1>4, <1>7, Counts DEF LimitInv
<1>9. QED
  BY <1>1, <1>2, <1>5, <1>8 DEF LimitInv, LimitTypeOK, MostServed

LEMMA TimeStep ==
    ASSUME LimitAssumption, LimitInv, TimePasses
    PROVE  LimitInv'
<1>1. /\ clock \in Ticks /\ clock' = clock + 1 /\ clock' \in Ticks /\ clock \in Nat
      /\ UNCHANGED <<events, reader>>
  BY DEF TimePasses, LimitInv, LimitTypeOK, Ticks, LimitAssumption
<1>2. \A t : {e \in Recent(t) : e.ok}' = {e \in Recent(t) : e.ok}
  BY <1>1 DEF Recent
<1>3. \A e \in events : e.at \in Nat /\ e.at <= clock
  BY DEF LimitInv, LimitTypeOK, Ticks
<1>4. ServedBy(clock + 1) \subseteq ServedBy(clock)
  BY <1>1, <1>3 DEF ServedBy, Recent, LimitAssumption
<1>5. Cardinality(ServedBy(clock + 1)) <= Cardinality(ServedBy(clock))
      /\ Cardinality(ServedBy(clock + 1)) \in Nat
  BY <1>1, <1>4, Counts, FS_Subset
<1>6. ServedBy(clock)' = ServedBy(clock + 1) /\ InFlight' = InFlight
  BY <1>1 DEF ServedBy, Recent, InFlight
<1>7. Cardinality(ServedBy(clock)') + Cardinality(InFlight') <= MostServed
  BY <1>5, <1>6, <1>1, Counts DEF LimitInv
<1>8. \A t \in Ticks : t < clock' => Cardinality(ServedBy(t)') <= MostServed
 <2> TAKE t \in Ticks
 <2>1. ServedBy(t)' = ServedBy(t)
   BY <1>2 DEF ServedBy
 <2>2. CASE t < clock
   BY <2>1, <2>2 DEF LimitInv
 <2>3. CASE t = clock
   BY <1>1, <2>1, <2>3, Counts DEF LimitInv
 <2>4. QED
   BY <1>1, <2>2, <2>3 DEF Ticks
<1>9. \A e \in events : Alike(e.at, e.ok)' = Alike(e.at, e.ok)
  BY <1>1 DEF Alike
<1>10. QED
  BY <1>1, <1>3, <1>7, <1>8, <1>9 DEF LimitInv, LimitTypeOK, MostServed

LEMMA LimitKeeps ==
    ASSUME LimitAssumption, LimitInv, [LimitNext]_limitVars
    PROVE  LimitInv'
<1>1. ASSUME NEW r \in Readers, Decrypt(r) \/ Crash(r)
      PROVE  LimitInv'
  BY <1>1, NoneJoins DEF Decrypt, Crash, InFlight, ReaderPCs, LimitInv, LimitTypeOK
<1>2. CASE UNCHANGED limitVars
  BY <1>2, NoneJoins DEF limitVars, InFlight, LimitInv, LimitTypeOK
<1>3. QED
  BY <1>1, <1>2, CountStep, RefusalStep, ServedStep, TimeStep DEF LimitNext

LEMMA LimitStarts == LimitAssumption /\ LimitInit => LimitInv
<1> SUFFICES ASSUME LimitAssumption, LimitInit
             PROVE  LimitInv
  OBVIOUS
<1>1. LimitTypeOK
  BY DEF LimitInit, LimitTypeOK, LimitAssumption, Ticks, ReaderPCs
<1>2. /\ IsFiniteSet({}) /\ Cardinality({}) = 0 /\ InFlight = {} /\ \A t : ServedBy(t) = {}
      /\ IsFiniteSet(Readers) /\ Cardinality(Readers) \in Nat
  BY FS_EmptySet, FS_CardinalityType DEF LimitInit, InFlight, ServedBy, Recent, LimitAssumption
<1>3. Cardinality(ServedBy(clock)) + Cardinality(InFlight) <= MostServed
 <2>1. Cardinality(ServedBy(clock)) = 0 /\ Cardinality(InFlight) = 0
   BY <1>2
 <2>2. QED
   BY <1>2, <2>1 DEF MostServed, LimitAssumption
<1>4. clock = 0 /\ events = {} /\ \A t \in Ticks : ~(t < clock)
  BY DEF LimitInit, Ticks, LimitAssumption
<1>5. QED
  BY <1>1, <1>2, <1>3, <1>4 DEF LimitInv

(* A retrieval that has counted holds a place under the bound until it      *)
(* records, fails or dies.                                                  *)
THEOREM LimitIsSound == LimitAssumption => (LimitSpec => []LimitInv)
<1> SUFFICES ASSUME LimitAssumption
             PROVE  LimitSpec => []LimitInv
  OBVIOUS
<1>1. LimitInit => LimitInv
  BY LimitStarts
<1>2. LimitInv /\ [LimitNext]_limitVars => LimitInv'
  BY LimitKeeps
<1>3. QED
  BY <1>1, <1>2, PTL DEF LimitSpec

LEMMA SoundIsBounded == LimitAssumption /\ LimitInv => RetrievalsBounded
<1> SUFFICES ASSUME LimitAssumption, LimitInv
             PROVE  RetrievalsBounded
  OBVIOUS
<1>1. ASSUME NEW t \in Ticks
      PROVE  Cardinality(ServedBy(t)) <= MostServed
 <2>1. CASE t < clock
   BY <2>1 DEF LimitInv
 <2>2. CASE ~(t < clock)
  <3>1. \A e \in events : e.at \in Nat /\ e.at <= clock
    BY DEF LimitInv, LimitTypeOK, Ticks
  <3>2. ServedBy(t) \subseteq ServedBy(clock)
    BY <2>2, <3>1, Counts DEF ServedBy, Recent, LimitAssumption, Ticks
  <3>3. Cardinality(ServedBy(t)) <= Cardinality(ServedBy(clock))
    BY <3>2, Counts, FS_Subset
  <3>4. QED
    BY <3>3, Counts DEF LimitInv
 <2>3. QED
   BY <2>1, <2>2
<1>2. QED
  BY <1>1 DEF RetrievalsBounded, OvershootIsBounded, MostServed, LimitInv

(* credential-vault.ts: retrievals that count together exceed the hourly    *)
(* ceiling by less than their number.                                       *)
THEOREM RetrievalsStayBounded == LimitAssumption => (LimitSpec => []RetrievalsBounded)
<1> SUFFICES ASSUME LimitAssumption
             PROVE  LimitSpec => []RetrievalsBounded
  OBVIOUS
<1>1. LimitInv => RetrievalsBounded
  BY SoundIsBounded
<1>2. QED
  BY <1>1, LimitIsSound, PTL

-----------------------------------------------------------------------------
(* The store of credentials. *)

(* What a request knows at its line: which row it is about, that the row was *)
(* there if it was found, and, of a capture, that its row was inserted.      *)
CallSound(r) ==
    /\ req[r].pc # "new" => req[r].op \in AllOperations
    /\ req[r].pc \in {"replace", "delete", "restore"} =>
          /\ req[r].ref \in References /\ stored[req[r].ref].status # "absent"
          /\ req[r].op # "capture"
    /\ req[r].pc = "insert" => req[r].ref \in References
    /\ req[r].pc = "insert" /\ req[r].op # "capture" => req[r].ref \notin Captures
    /\ req[r].pc = "audit" => req[r].op # "capture"
    /\ req[r].pc \in {"slot", "receipt"} => req[r].op = "capture"
    /\ req[r].pc # "new" /\ req[r].op = "capture" => req[r].ref \in Captures
    /\ req[r].op = "capture" /\ req[r].pc \in {"receipt", "ok"} => req[r].ref \in inserted
    /\ req[r].op = "capture" /\ req[r].pc = "ok" => audit[req[r].ref] = 1

CapInv ==
    /\ StoreTypeOK
    /\ \A w \in Captures : audit[w] <= 1 /\ (stored[w].status # "absent" => w \in inserted)
    /\ \A r \in Requests : CallSound(r)

LEMMA ContentsHas ==
    ASSUME NEW s \in SUBSET Names, NEW c \in [s -> Values]
    PROVE  c \in Contents
BY DEF Contents

LEMMA ContentsAre ==
    ASSUME NEW c \in Contents
    PROVE  DOMAIN c \in SUBSET Names /\ c \in [DOMAIN c -> Values]
<1>1. PICK s \in SUBSET Names : c \in [s -> Values]
  BY DEF Contents
<1>2. QED
  BY <1>1

CallRecords == [pc : PCs, op : AllOperations \union {"none"}, ref : References \union {"none"},
                content : Contents]
StoredRows == [status : {"absent", "active", "deleted"}, content : Contents]

LEMMA EmptyContent == Nothing \in Contents /\ \A w \in Captures : CaptureOf(w) \in Contents
<1>1. Nothing \in [{} -> Values]
  BY DEF Nothing
<1>2. \A w \in Captures : CaptureOf(w) \in [Names -> Values]
  BY DEF CaptureOf, Values, References
<1>3. QED
  BY <1>1, <1>2, ContentsHas

(* What a call may become: only its own record changes, and to one of these. *)
LEMMA CallTypes ==
    ASSUME StoreAssumption, CapInv, NEW r \in Requests, Call(r) \/ Continue(r)
    PROVE  /\ req' \in [Requests -> CallRecords]
           /\ \A q \in Requests \ {r} : req'[q] = req[q]
<1>1. req \in [Requests -> CallRecords] /\ stored \in [References -> StoredRows]
  BY DEF CapInv, StoreTypeOK, CallRecords, StoredRows
<1>2. req[r] \in CallRecords
  BY <1>1
<1>3. SUFFICES \E w \in CallRecords : req' = [req EXCEPT ![r] = w]
  BY <1>1
<1>4. ASSUME NEW pc \in PCs, Goto(r, pc)
      PROVE  \E w \in CallRecords : req' = [req EXCEPT ![r] = w]
 <2>1. [req[r] EXCEPT !.pc = pc] \in CallRecords
   BY <1>2 DEF CallRecords
 <2>2. QED
   BY <1>1, <1>4, <2>1 DEF Goto
<1>5. ASSUME NEW pc \in PCs, NEW ref \in References, NEW c \in Contents, With(r, pc, ref, c)
      PROVE  \E w \in CallRecords : req' = [req EXCEPT ![r] = w]
 <2>1. [req[r] EXCEPT !.pc = pc, !.ref = ref, !.content = c] \in CallRecords
   BY <1>2 DEF CallRecords
 <2>2. QED
   BY <1>1, <1>5, <2>1 DEF With
<1>6. Active \subseteq References /\ r \in References /\ Captures \subseteq References
  BY DEF Active, References
<1>7. Active # {} => (CHOOSE x \in Active : TRUE) \in References
  BY <1>6
<1>8. \A s \in SUBSET Names : [n \in s |-> r] \in Contents
 <2>1. \A s \in SUBSET Names : [n \in s |-> r] \in [s -> Values]
   BY <1>6 DEF Values
 <2>2. QED
   BY <2>1, ContentsHas
<1>9. CASE StoreFind(r)
 <2>1. PICK s \in SUBSET Names \ {{}} :
          req' = [req EXCEPT ![r] =
              IF Active = {} THEN [pc |-> "insert", op |-> "store", ref |-> r,
                                   content |-> [n \in s |-> r]]
              ELSE [pc |-> "replace", op |-> "store", ref |-> CHOOSE x \in Active : TRUE,
                    content |-> [n \in s |-> r]]]
   BY <1>9 DEF StoreFind
 <2>2. [n \in s |-> r] \in Contents
   BY <1>8
 <2>3. CASE Active = {}
  <3>1. [pc |-> "insert", op |-> "store", ref |-> r, content |-> [n \in s |-> r]] \in CallRecords
    BY <2>2, <1>6 DEF CallRecords, PCs, AllOperations
  <3>2. QED
    BY <2>1, <2>3, <3>1
 <2>4. CASE Active # {}
  <3>1. [pc |-> "replace", op |-> "store", ref |-> CHOOSE x \in Active : TRUE,
         content |-> [n \in s |-> r]] \in CallRecords
    BY <2>2, <2>4, <1>7 DEF CallRecords, PCs, AllOperations
  <3>2. QED
    BY <2>1, <2>4, <3>1
 <2>5. QED
   BY <2>3, <2>4
<1>10. CASE CaptureFind(r)
 <2>1. PICK w \in Captures :
          req' = [req EXCEPT ![r] =
              IF stored[w].status = "active"
              THEN [pc |-> "receipt", op |-> "capture", ref |-> w,
                    content |-> stored[w].content]
              ELSE [pc |-> "slot", op |-> "capture", ref |-> w, content |-> CaptureOf(w)]]
   BY <1>10 DEF CaptureFind
 <2>2. stored[w].content \in Contents /\ CaptureOf(w) \in Contents
   BY <1>1, <1>6, EmptyContent DEF StoredRows
 <2>3. /\ [pc |-> "receipt", op |-> "capture", ref |-> w,
           content |-> stored[w].content] \in CallRecords
       /\ [pc |-> "slot", op |-> "capture", ref |-> w, content |-> CaptureOf(w)] \in CallRecords
   BY <2>2, <1>6 DEF CallRecords, PCs, AllOperations
 <2>4. QED
   BY <2>1, <2>3
<1>11. CASE RotateRead(r)
 <2>1. PICK x \in Active, s \in SUBSET Names \ {{}} :
          req' = [req EXCEPT ![r] = [pc |-> "replace", op |-> "rotate", ref |-> x,
                                     content |-> [n \in s |-> r]]]
   BY <1>11 DEF RotateRead
 <2>2. [n \in s |-> r] \in Contents
   BY <1>8
 <2>3. [pc |-> "replace", op |-> "rotate", ref |-> x,
        content |-> [n \in s |-> r]] \in CallRecords
   BY <2>2, <1>6 DEF CallRecords, PCs, AllOperations
 <2>4. QED
   BY <2>1, <2>3
<1>12. CASE AddRead(r)
 <2>1. PICK x \in Active, n \in Names :
          req' = [req EXCEPT ![r] = [pc |-> "replace", op |-> "add", ref |-> x,
              content |-> [k \in DOMAIN stored[x].content \union {n} |->
                              IF k = n THEN r ELSE stored[x].content[k]]]]
   BY <1>12 DEF AddRead
 <2> DEFINE seen == stored[x].content
            grown == [k \in DOMAIN seen \union {n} |-> IF k = n THEN r ELSE seen[k]]
 <2>2. seen \in Contents
   BY <1>1, <1>6 DEF StoredRows
 <2>3. DOMAIN seen \in SUBSET Names /\ seen \in [DOMAIN seen -> Values]
   BY <2>2, ContentsAre
 <2>4. DOMAIN seen \union {n} \in SUBSET Names /\ grown \in [DOMAIN seen \union {n} -> Values]
   BY <2>3, <1>6 DEF Values
 <2>5. grown \in Contents
   BY <2>4, ContentsHas
 <2>6. req' = [req EXCEPT ![r] = [pc |-> "replace", op |-> "add", ref |-> x,
                                  content |-> grown]]
   BY <2>1
 <2> HIDE DEF grown
 <2>7. [pc |-> "replace", op |-> "add", ref |-> x, content |-> grown] \in CallRecords
   BY <2>5, <1>6 DEF CallRecords, PCs, AllOperations
 <2>8. QED
   BY <2>6, <2>7
<1>13. CASE DeleteRead(r) \/ RestoreRead(r)
 <2>1. PICK x \in References, pc \in {"delete", "restore"} :
          req' = [req EXCEPT ![r] = [@ EXCEPT !.pc = pc, !.op = pc, !.ref = x]]
   BY <1>13, <1>6 DEF DeleteRead, RestoreRead
 <2>2. [req[r] EXCEPT !.pc = pc, !.op = pc, !.ref = x] \in CallRecords
   BY <1>2 DEF CallRecords, PCs, AllOperations
 <2>3. QED
   BY <1>1, <2>1, <2>2
<1>14. CASE Continue(r)
 <2>1. CASE StoreWinner(r)
  <3>1. req[r].content \in Contents
    BY <1>2 DEF CallRecords
  <3>2. CASE Active = {}
    BY <2>1, <3>2, <1>4 DEF StoreWinner, PCs
  <3>3. CASE Active # {}
    BY <2>1, <3>3, <3>1, <1>5, <1>7 DEF StoreWinner, PCs
  <3>4. QED
    BY <3>2, <3>3
 <2>2. CASE CaptureWinner(r)
  <3>1. CallSound(r) /\ req[r].pc = "winner" /\ req[r].op = "capture"
    BY <2>2 DEF CaptureWinner, CapInv
  <3>2. req[r].ref \in Captures
    BY <3>1 DEF CallSound
  <3>3. stored[req[r].ref].content \in Contents /\ req[r].ref \in References
    BY <1>1, <1>6, <3>2 DEF StoredRows
  <3>4. CASE stored[req[r].ref].status = "active"
    BY <2>2, <3>4, <3>3, <1>5 DEF CaptureWinner, PCs
  <3>5. CASE stored[req[r].ref].status # "active"
    BY <2>2, <3>5, <1>4 DEF CaptureWinner, PCs
  <3>6. QED
    BY <3>4, <3>5
 <2>3. ASSUME ~StoreWinner(r), ~CaptureWinner(r)
       PROVE  \E pc \in PCs : Goto(r, pc)
   BY <1>14, <2>3 DEF Continue, Insert, Replace, Audit, CaptureSlot, Receipt, DeleteRow,
      RestoreRow, Cut, PCs
 <2>4. QED
   BY <2>1, <2>2, <2>3, <1>4
<1>15. QED
  BY <1>9, <1>10, <1>11, <1>12, <1>13, <1>14 DEF Call

(* Nothing that is there vanishes: rows, insertions, the audit of a capture. *)
LEMMA StoreGrows ==
    ASSUME StoreAssumption, CapInv, NEW r \in Requests, Call(r) \/ Continue(r)
    PROVE  /\ stored' \in [References -> StoredRows]
           /\ audit' \in [References -> Nat] /\ inserted' \in SUBSET Captures
           /\ \A x \in References : stored[x].status # "absent" => stored'[x].status # "absent"
           /\ inserted \subseteq inserted'
           /\ \A w \in Captures : /\ audit[w] = 1 => audit'[w] = 1
                                  /\ audit'[w] <= 1
                                  /\ stored'[w].status # "absent" => w \in inserted'
<1>1. /\ stored \in [References -> StoredRows] /\ audit \in [References -> Nat]
      /\ inserted \in SUBSET Captures /\ req \in [Requests -> CallRecords]
  BY DEF CapInv, StoreTypeOK, StoredRows, CallRecords
<1>2. /\ \A w \in Captures : audit[w] <= 1 /\ (stored[w].status # "absent" => w \in inserted)
      /\ CallSound(r) /\ req[r].content \in Contents
  BY <1>1 DEF CapInv, CallRecords
<1>3. Captures \subseteq References /\ r \in References /\ r \notin Captures
  BY DEF References, StoreAssumption
<1>4. CASE UNCHANGED <<stored, audit, inserted>>
  BY <1>1, <1>2, <1>3, <1>4
<1>5. CASE Insert(r)
 <2> DEFINE x == req[r].ref
            w == [status |-> "active", content |-> req[r].content]
 <2>1. CASE UNCHANGED <<stored, inserted>>
   BY <2>1, <1>5, <1>4 DEF Insert
 <2>2. CASE ~ UNCHANGED <<stored, inserted>>
  <3>1. /\ stored' = [stored EXCEPT ![x] = w]
        /\ inserted' = inserted \union ({x} \cap Captures) /\ UNCHANGED audit
    BY <1>5, <2>2 DEF Insert
  <3>2. w \in StoredRows /\ x \in References /\ w.status = "active"
    BY <1>2, <1>5 DEF Insert, CallSound, StoredRows
  <3> HIDE DEF w, x
  <3>3. QED
    BY <3>1, <3>2, <1>1, <1>2, <1>3
 <2>3. QED
   BY <2>1, <2>2
<1>6. CASE Replace(r)
 <2> DEFINE x == req[r].ref
            w == [stored[x] EXCEPT !.content = req[r].content]
 <2>1. x \in References /\ stored[x] \in StoredRows
   BY <1>1, <1>2, <1>6 DEF Replace, CallSound
 <2>2. w \in StoredRows /\ w.status = stored[x].status
   BY <2>1, <1>2 DEF StoredRows
 <2>3. stored' = [stored EXCEPT ![x] = w] /\ UNCHANGED <<audit, inserted>>
   BY <1>6 DEF Replace
 <2> HIDE DEF w, x
 <2>4. QED
   BY <2>1, <2>2, <2>3, <1>1, <1>2, <1>3
<1>7. CASE DeleteRow(r)
 <2> DEFINE x == req[r].ref
            w == [stored[x] EXCEPT !.status = "deleted"]
 <2>1. x \in References /\ stored[x] \in StoredRows /\ stored[x].status # "absent"
   BY <1>1, <1>2, <1>7 DEF DeleteRow, CallSound
 <2>2. w \in StoredRows /\ w.status = "deleted"
   BY <2>1 DEF StoredRows
 <2>3. stored' = [stored EXCEPT ![x] = w] /\ UNCHANGED <<audit, inserted>>
   BY <1>7 DEF DeleteRow
 <2> HIDE DEF w, x
 <2>4. QED
   BY <2>1, <2>2, <2>3, <1>1, <1>2, <1>3
<1>8. CASE RestoreRow(r)
 <2> DEFINE x == req[r].ref
            w == [stored[x] EXCEPT !.status = "active"]
 <2>1. x \in References /\ stored[x] \in StoredRows /\ stored[x].status # "absent"
   BY <1>1, <1>2, <1>8 DEF RestoreRow, CallSound
 <2>2. w \in StoredRows /\ w.status = "active"
   BY <2>1 DEF StoredRows
 <2>3. stored' = [stored EXCEPT ![x] = w] \/ UNCHANGED stored
   BY <1>8 DEF RestoreRow
 <2>4. UNCHANGED <<audit, inserted>>
   BY <1>8 DEF RestoreRow
 <2> HIDE DEF w, x
 <2>5. QED
   BY <2>1, <2>2, <2>3, <2>4, <1>1, <1>2, <1>3
<1>9. CASE Audit(r)
 <2>1. audit' = [audit EXCEPT ![r] = audit[r] + 1] /\ UNCHANGED <<stored, inserted>>
   BY <1>9 DEF Audit
 <2>2. QED
   BY <2>1, <1>1, <1>2, <1>3
<1>10. CASE Receipt(r)
 <2>1. req[r].ref \in Captures
   BY <1>2, <1>10 DEF Receipt, CallSound
 <2>2. audit' = [audit EXCEPT ![req[r].ref] = 1] \/ UNCHANGED audit
   BY <1>10 DEF Receipt
 <2>3. UNCHANGED <<stored, inserted>>
   BY <1>10 DEF Receipt
 <2>4. QED
   BY <2>1, <2>2, <2>3, <1>1, <1>2, <1>3
<1>11. QED
  BY <1>4, <1>5, <1>6, <1>7, <1>8, <1>9, <1>10
     DEF Call, Continue, StoreFind, CaptureFind, RotateRead, AddRead, DeleteRead, RestoreRead,
         StoreWinner, CaptureSlot, CaptureWinner, Cut

(* What a call knows stays true while others work. *)
LEMMA CallKept ==
    ASSUME NEW q \in Requests, CallSound(q), req'[q] = req[q],
           \A x \in References : stored[x].status # "absent" => stored'[x].status # "absent",
           inserted \subseteq inserted',
           \A w \in Captures : audit[w] = 1 => audit'[w] = 1
    PROVE  CallSound(q)'
BY DEF CallSound

LEMMA CallFinds ==
    ASSUME StoreAssumption, CapInv, NEW r \in Requests, Call(r)
    PROVE  CallSound(r)'
<1>1. req \in [Requests -> CallRecords] /\ UNCHANGED <<stored, audit, inserted>>
  BY DEF CapInv, StoreTypeOK, CallRecords, Call, StoreFind, CaptureFind, RotateRead, AddRead,
         DeleteRead, RestoreRead
<1>2. /\ Active \subseteq References /\ \A x \in Active : stored[x].status = "active"
      /\ r \in References /\ r \notin Captures
      /\ \A w \in Captures : stored[w].status # "absent" => w \in inserted
  BY DEF Active, References, StoreAssumption, CapInv
<1>3. Active # {} => (CHOOSE x \in Active : TRUE) \in Active
  OBVIOUS
<1>4. CASE StoreFind(r)
 <2>1. /\ req'[r].op = "store"
       /\ \/ req'[r].pc = "insert" /\ req'[r].ref = r
          \/ req'[r].pc = "replace" /\ req'[r].ref \in Active
   BY <1>1, <1>3, <1>4 DEF StoreFind
 <2>2. QED
   BY <2>1, <1>1, <1>2 DEF CallSound, AllOperations
<1>5. CASE CaptureFind(r)
 <2>1. PICK w \in Captures :
         /\ req'[r].op = "capture" /\ req'[r].ref = w
         /\ \/ req'[r].pc = "receipt" /\ stored[w].status = "active"
            \/ req'[r].pc = "slot"
   BY <1>1, <1>5 DEF CaptureFind
 <2>2. QED
   BY <2>1, <1>1, <1>2 DEF CallSound, AllOperations
<1>6. CASE RotateRead(r) \/ AddRead(r)
 <2>1. /\ req'[r].op \in {"rotate", "add"} /\ req'[r].pc = "replace"
       /\ req'[r].ref \in Active
  <3>1. CASE RotateRead(r)
   <4>1. PICK x \in Active, s \in SUBSET Names \ {{}} :
            req' = [req EXCEPT ![r] = [pc |-> "replace", op |-> "rotate", ref |-> x,
                                       content |-> [n \in s |-> r]]]
     BY <3>1 DEF RotateRead
   <4>2. QED
     BY <1>1, <4>1
  <3>2. CASE AddRead(r)
   <4>1. PICK x \in Active, n \in Names :
            req' = [req EXCEPT ![r] = [pc |-> "replace", op |-> "add", ref |-> x,
                content |-> [k \in DOMAIN stored[x].content \union {n} |->
                                IF k = n THEN r ELSE stored[x].content[k]]]]
     BY <3>2 DEF AddRead
   <4>2. QED
     BY <1>1, <4>1
  <3>3. QED
    BY <1>6, <3>1, <3>2
 <2>2. QED
   BY <2>1, <1>1, <1>2 DEF CallSound, AllOperations
<1>7. CASE DeleteRead(r) \/ RestoreRead(r)
 <2>1. /\ req'[r].op \in {"delete", "restore"} /\ req'[r].pc = req'[r].op
       /\ req'[r].ref \in References /\ stored[req'[r].ref].status # "absent"
  <3>1. req[r] \in CallRecords
    BY <1>1
  <3>2. PICK x \in References, pc \in {"delete", "restore"} :
           /\ stored[x].status # "absent"
           /\ req' = [req EXCEPT ![r] = [@ EXCEPT !.pc = pc, !.op = pc, !.ref = x]]
    BY <1>2, <1>7 DEF DeleteRead, RestoreRead
  <3>3. req'[r] = [req[r] EXCEPT !.pc = pc, !.op = pc, !.ref = x]
    BY <1>1, <3>2
  <3>4. req'[r].pc = pc /\ req'[r].op = pc /\ req'[r].ref = x
    BY <3>1, <3>3 DEF CallRecords
  <3>5. QED
    BY <3>2, <3>4
 <2>2. QED
   BY <2>1, <1>1 DEF CallSound, AllOperations
<1>8. QED
  BY <1>4, <1>5, <1>6, <1>7 DEF Call

(* A line that only moves the call on keeps its operation and its row. *)
LEMMA GoesOn ==
    ASSUME CapInv, NEW r \in Requests, NEW pc, Goto(r, pc)
    PROVE  req'[r].pc = pc /\ req'[r].op = req[r].op /\ req'[r].ref = req[r].ref
<1>1. req \in [Requests -> CallRecords] /\ req[r] \in CallRecords
  BY DEF CapInv, StoreTypeOK, CallRecords
<1>2. QED
  BY <1>1 DEF Goto, CallRecords

LEMMA CallContinues ==
    ASSUME StoreAssumption, CapInv, NEW r \in Requests, Continue(r)
    PROVE  CallSound(r)'
<1>1. /\ req \in [Requests -> CallRecords] /\ req[r] \in CallRecords
      /\ stored \in [References -> StoredRows] /\ audit \in [References -> Nat]
      /\ inserted \in SUBSET Captures
  BY DEF CapInv, StoreTypeOK, CallRecords, StoredRows
<1>2. /\ CallSound(r)
      /\ \A w \in Captures : stored[w].status # "absent" => w \in inserted
      /\ Captures \subseteq References
      /\ Active \subseteq References /\ \A x \in Active : stored[x].status = "active"
  BY DEF CapInv, References, Active
<1>3. CASE Insert(r)
 <2>1. req'[r].op = req[r].op /\ req'[r].ref = req[r].ref
   BY <1>3, GoesOn DEF Insert
 <2>2. CASE req'[r].pc = "winner"
   BY <1>2, <1>3, <2>1, <2>2 DEF Insert, CallSound
 <2>3. CASE req'[r].pc # "winner"
  <3>1. /\ req'[r].pc = IF req[r].op = "capture" THEN "receipt" ELSE "audit"
        /\ inserted' = inserted \union ({req[r].ref} \cap Captures)
    BY <1>3, <2>3, GoesOn DEF Insert
  <3>2. QED
    BY <1>2, <1>3, <2>1, <3>1 DEF Insert, CallSound
 <2>4. QED
   BY <2>2, <2>3
<1>4. CASE StoreWinner(r)
 <2>1. req[r].op = "store" /\ UNCHANGED <<stored, audit, inserted>>
   BY <1>4 DEF StoreWinner
 <2>2. CASE Active = {}
  <3>1. req'[r].pc = "refused" /\ req'[r].op = req[r].op
    BY <1>4, <2>2, GoesOn DEF StoreWinner
  <3>2. QED
    BY <2>1, <3>1 DEF CallSound, AllOperations
 <2>3. CASE Active # {}
  <3>1. (CHOOSE x \in Active : TRUE) \in Active
    BY <2>3
  <3>2. req'[r].pc = "replace" /\ req'[r].op = "store" /\ req'[r].ref \in Active
   <4> DEFINE x == CHOOSE y \in Active : TRUE
   <4>1. With(r, "replace", x, req[r].content)
     BY <1>4, <2>3 DEF StoreWinner
   <4>2. req'[r] = [req[r] EXCEPT !.pc = "replace", !.ref = x, !.content = req[r].content]
     BY <1>1, <4>1 DEF With
   <4>3. req'[r].pc = "replace" /\ req'[r].op = req[r].op /\ req'[r].ref = x
     BY <1>1, <4>2 DEF CallRecords
   <4>4. QED
     BY <2>1, <3>1, <4>3
  <3>3. QED
    BY <1>2, <2>1, <3>2 DEF CallSound, AllOperations
 <2>4. QED
   BY <2>2, <2>3
<1>5. CASE CaptureWinner(r)
 <2>1. req[r].op = "capture" /\ req[r].ref \in Captures /\ UNCHANGED <<stored, audit, inserted>>
   BY <1>2, <1>5 DEF CaptureWinner, CallSound
 <2>2. req'[r].op = "capture" /\ req'[r].ref = req[r].ref
   BY <1>1, <1>5, <2>1 DEF CaptureWinner, With, Goto, CallRecords
 <2>3. req'[r].pc = "refused" \/ (req'[r].pc = "receipt" /\ stored[req[r].ref].status = "active")
   BY <1>1, <1>5 DEF CaptureWinner, With, Goto, CallRecords
 <2>4. QED
   BY <1>2, <2>1, <2>2, <2>3 DEF CallSound, AllOperations
<1>6. CASE Receipt(r)
 <2>1. /\ req'[r].op = req[r].op /\ req'[r].ref = req[r].ref
       /\ req[r].op = "capture" /\ req[r].ref \in Captures /\ req[r].ref \in inserted
       /\ UNCHANGED <<stored, inserted>>
   BY <1>2, <1>6, GoesOn DEF Receipt, CallSound
 <2>2. CASE req[r].content # CaptureOf(req[r].ref)
  <3>1. req'[r].pc = "refused" /\ UNCHANGED audit
    BY <1>6, <2>2, GoesOn DEF Receipt
  <3>2. QED
    BY <2>1, <3>1 DEF CallSound, AllOperations
 <2>3. CASE req[r].content = CaptureOf(req[r].ref)
  <3>1. req'[r].pc = "ok" /\ audit' = [audit EXCEPT ![req[r].ref] = 1]
    BY <1>6, <2>3, GoesOn DEF Receipt
  <3>2. audit'[req[r].ref] = 1
    BY <1>1, <1>2, <2>1, <3>1
  <3>3. QED
    BY <2>1, <3>1, <3>2 DEF CallSound, AllOperations
 <2>4. QED
   BY <2>2, <2>3
<1>7. CASE Replace(r) \/ DeleteRow(r) \/ RestoreRow(r) \/ Audit(r)
 <2>1. req[r].op # "capture" /\ req[r].op \in AllOperations
   BY <1>2, <1>7 DEF Replace, DeleteRow, RestoreRow, Audit, CallSound
 <2>2. req'[r].op = req[r].op /\ req'[r].pc \in {"audit", "refused", "ok"}
   BY <1>7, GoesOn DEF Replace, DeleteRow, RestoreRow, Audit
 <2>3. QED
   BY <2>1, <2>2 DEF CallSound
<1>8. CASE CaptureSlot(r)
 <2>1. /\ req'[r].op = req[r].op /\ req'[r].ref = req[r].ref
       /\ req'[r].pc \in {"insert", "refused"} /\ UNCHANGED <<stored, audit, inserted>>
   BY <1>8, GoesOn DEF CaptureSlot
 <2>2. req[r].op = "capture" /\ req[r].ref \in Captures
   BY <1>2, <1>8 DEF CaptureSlot, CallSound
 <2>3. QED
   BY <1>2, <2>1, <2>2 DEF CallSound, AllOperations
<1>9. CASE Cut(r)
 <2>1. req'[r].op = req[r].op /\ req'[r].ref = req[r].ref /\ req'[r].pc = "dead"
   BY <1>9, GoesOn DEF Cut
 <2>2. QED
   BY <1>2, <1>9, <2>1 DEF Cut, CallSound
<1>10. QED
  BY <1>3, <1>4, <1>5, <1>6, <1>7, <1>8, <1>9 DEF Continue

LEMMA StoreStep ==
    ASSUME StoreAssumption, CapInv, [StoreNext]_storeVars
    PROVE  CapInv'
<1>1. CASE UNCHANGED storeVars
  BY <1>1 DEF CapInv, storeVars, StoreTypeOK, CallSound
<1>2. CASE StoreNext
 <2>1. PICK r \in Requests : Call(r) \/ Continue(r)
   BY <1>2 DEF StoreNext
 <2>2. /\ stored' \in [References -> StoredRows]
       /\ audit' \in [References -> Nat] /\ inserted' \in SUBSET Captures
       /\ \A x \in References : stored[x].status # "absent" => stored'[x].status # "absent"
       /\ inserted \subseteq inserted'
       /\ \A w \in Captures : /\ audit[w] = 1 => audit'[w] = 1
                              /\ audit'[w] <= 1
                              /\ stored'[w].status # "absent" => w \in inserted'
   BY <2>1, StoreGrows
 <2>3. req' \in [Requests -> CallRecords] /\ \A q \in Requests \ {r} : req'[q] = req[q]
   BY <2>1, CallTypes
 <2>4. CallSound(r)'
   BY <2>1, CallFinds, CallContinues
 <2>5. ASSUME NEW q \in Requests, q # r
       PROVE  CallSound(q)'
  <3>1. CallSound(q) /\ req'[q] = req[q]
    BY <2>3, <2>5 DEF CapInv
  <3>2. QED
    BY <3>1, <2>2, CallKept
 <2>6. QED
   BY <2>2, <2>3, <2>4, <2>5 DEF CapInv, StoreTypeOK, StoredRows, CallRecords
<1>3. QED
  BY <1>1, <1>2

LEMMA StoreStarts == StoreAssumption /\ StoreInit => CapInv
<1> SUFFICES ASSUME StoreAssumption, StoreInit
             PROVE  CapInv
  OBVIOUS
<1>1. Captures \subseteq References
  BY DEF References
<1>2. StoreTypeOK
  BY EmptyContent DEF StoreInit, StoreTypeOK, PCs
<1>3. QED
  BY <1>1, <1>2 DEF StoreInit, CapInv, CallSound

(* A call is what the store knows of it: the row it names was there, and a   *)
(* capture answered or about to be was inserted, under the id its retries    *)
(* share.                                                                    *)
THEOREM StoreIsSound == StoreAssumption => (StoreSpec => []CapInv)
<1> SUFFICES ASSUME StoreAssumption
             PROVE  StoreSpec => []CapInv
  OBVIOUS
<1>1. StoreInit => CapInv
  BY StoreStarts
<1>2. CapInv /\ [StoreNext]_storeVars => CapInv'
  BY StoreStep
<1>3. QED
  BY <1>1, <1>2, PTL DEF StoreSpec

LEMMA CaptureInsertsOnly ==
    ASSUME StoreAssumption, CapInv, [StoreNext]_storeVars, NEW r \in Requests,
           req'[r] # req[r], req[r].op = "capture", NEW x \in References,
           stored'[x] # stored[x]
    PROVE  stored[x].status = "absent"
<1>1. ~ UNCHANGED storeVars
  BY DEF storeVars
<1>2. PICK q \in Requests : Call(q) \/ Continue(q)
  BY <1>1 DEF StoreNext
<1>3. q = r
  BY <1>2, CallTypes
<1>4. req[r].pc \notin {"replace", "delete", "restore"}
  BY DEF CapInv, CallSound
<1>5. Insert(r)
  BY <1>2, <1>3, <1>4 DEF Call, Continue, StoreFind, CaptureFind, RotateRead, AddRead,
     DeleteRead, RestoreRead, StoreWinner, Replace, Audit, CaptureSlot, CaptureWinner, Receipt,
     DeleteRow, RestoreRow, Cut
<1>6. stored \in [References -> StoredRows]
  BY DEF CapInv, StoreTypeOK, StoredRows
<1>7. QED
  BY <1>5, <1>6 DEF Insert

(* However captures are retried, raced with other writers of the slot, or    *)
(* cut off: each is inserted once and audited once before it is answered,    *)
(* and changes no credential that is there.                                  *)
THEOREM CapturesAreSafe == StoreAssumption => (StoreSpec => CapturesSafe)
<1> SUFFICES ASSUME StoreAssumption
             PROVE  StoreSpec => CapturesSafe
  OBVIOUS
<1>1. CapInv => StoreTypeOK /\ CaptureIsAuditedOnce
  BY DEF CapInv, CaptureIsAuditedOnce, Captured, CallSound
<1>2. CapInv /\ [StoreNext]_storeVars =>
        [\A r \in Requests : req'[r] # req[r] /\ req[r].op = "capture" =>
            \A x \in References : stored'[x] # stored[x] => stored[x].status = "absent"]_storeVars
  BY CaptureInsertsOnly
<1>3. QED
  BY <1>1, <1>2, StoreIsSound, PTL DEF StoreSpec, CapturesSafe, CaptureNeverRotates

-----------------------------------------------------------------------------
(* Webhooks: announcing.  An event is announced by comparing what a task    *)
(* read with the subscription; the argument is that everything a task read  *)
(* is no further than the approval is now, on one scale of ranks.           *)

Open == {"pending", "approved", "processing"}

(* How far the approval is, on the scale of Rank. *)
Progress(r) == IF r \in {"absent", "pending"} THEN 0
               ELSE IF r = "signed" THEN 1 ELSE IF r \in {"delivered", "approved"} THEN 2 ELSE 3

Moved == {"signed", "delivered", "approved"}
Between == {"approved", "processing"}

SyncTypes ==
    /\ record \in Records
    /\ lapsed \in BOOLEAN
    /\ decision \in Records
    /\ endpoint \in 0..MaxEndpoint /\ registered \in 0..MaxEndpoint
    /\ sub \in [last : Statuses \cup {"unset"}, open : BOOLEAN, endpoint : 0..MaxEndpoint]
    /\ queue \in Seq(Statuses)
    /\ task \in [Tasks -> [pc : TaskPCs, last : Statuses \cup {"unset"},
                         card : Statuses \cup {"unset", "none"}, endpoint : 0..MaxEndpoint]]
    /\ faults \in 0..MaxFaults

TaskRecords == [pc : TaskPCs, last : Statuses \cup {"unset"},
                card : Statuses \cup {"unset", "none"}, endpoint : 0..MaxEndpoint]
Subscriptions == [last : Statuses \cup {"unset"}, open : BOOLEAN, endpoint : 0..MaxEndpoint]

(* What a task has read of an approval that is now at r. *)
ReadBefore(x, r) ==
    /\ x.last \in Open \cup {"unset"}
    /\ x.last \in Open => Rank(x.last) <= Progress(r)
    /\ x.card \in Open => Rank(x.card) <= Progress(r)
    /\ x.pc \in {"endpoint", "advance"} => x.card \in Statuses
    /\ x.pc = "endpoint" /\ x.last \in Open => Rank(x.last) <= Rank(x.card)
    /\ x.pc = "advance" /\ x.last \in Open => Rank(x.last) < Rank(x.card)
    /\ Kind = "mutation" => x.card \notin Between

(* What was announced of it. *)
Announced(s, q, r) ==
    /\ s.last = "unset" => q = <<>>
    /\ s.open => s.last \in Open \cup {"unset"}
    /\ s.open /\ s.last \in Open => Rank(s.last) <= Progress(r) /\ q # <<>> /\ q[Len(q)] = s.last
    /\ \A e, f \in DOMAIN q : e < f => Rank(q[e]) < Rank(q[f])
    /\ Kind = "mutation" => \A e \in DOMAIN q : q[e] \notin Between

SyncInv ==
    /\ SyncTypes
    /\ Kind = "mutation" => record \notin Moved
    /\ \A j \in Tasks : ReadBefore(task[j], record)
    /\ Announced(sub, queue, record)

LEMMA Ranks ==
    /\ Rank("pending") = 0 /\ Rank("approved") = 1 /\ Rank("processing") = 2
    /\ \A s \in Terminal : Rank(s) = 3
    /\ \A s \in Statuses : Rank(s) \in 0..3 /\ (Rank(s) = 3 <=> s \in Terminal)
    /\ Open \cap Terminal = {} /\ Statuses = Open \cup Terminal /\ "unset" \notin Statuses
  BY DEF Rank, Terminal, Statuses, Open

LEMMA ProgressIsRank == \A r : Progress(r) \in 0..3
  BY DEF Progress

LEMMA DecisionsMove ==
    ASSUME WebhookAssumption, NEW r, r \in DOMAIN Decisions, NEW d \in Decisions[r]
    PROVE  /\ r \in Records /\ d \in Records
           /\ Progress(r) <= Progress(d)
           /\ Kind = "mutation" => d \notin Moved
<1>1. CASE Kind = "payment"
 <2>1. Decisions = [pending |-> {"signed", "denied"}, signed |-> {"delivered", "denied"},
                    delivered |-> {"approved", "denied"}]
   BY <1>1 DEF Decisions
 <2>2. r \in {"pending", "signed", "delivered"}
   BY <2>1
 <2>3. /\ r = "pending" => d \in {"signed", "denied"}
       /\ r = "signed" => d \in {"delivered", "denied"}
       /\ r = "delivered" => d \in {"approved", "denied"}
   BY <2>1, <2>2
 <2> QED
   BY <1>1, <2>2, <2>3 DEF Progress, Records
<1>2. CASE Kind = "mutation"
 <2>1. Decisions = [pending |-> {"completed", "failed", "denied"}]
   BY <1>2 DEF Decisions
 <2>2. r = "pending" /\ d \in {"completed", "failed", "denied"}
   BY <2>1
 <2> QED
   BY <2>2 DEF Progress, Records, Moved
<1> QED
  BY <1>1, <1>2 DEF WebhookAssumption

LEMMA OneTask ==
    ASSUME NEW T, task \in [Tasks -> T], NEW j \in Tasks, NEW w \in T, task' = [task EXCEPT ![j] = w]
    PROVE  task' \in [Tasks -> T] /\ task'[j] = w /\ \A k \in Tasks : k # j => task'[k] = task[k]
  OBVIOUS

LEMMA Turned ==
    ASSUME WebhookAssumption, NEW pc \in TaskPCs
    PROVE  /\ [IdleTask EXCEPT !.pc = pc] \in TaskRecords
           /\ [IdleTask EXCEPT !.pc = pc].pc = pc
           /\ pc \notin {"endpoint", "advance"} => \A r : ReadBefore([IdleTask EXCEPT !.pc = pc], r)
<1>1. [IdleTask EXCEPT !.pc = pc] = [pc |-> pc, last |-> "unset", card |-> "unset", endpoint |-> 0]
  BY DEF IdleTask
<1>2. 0 \in 0..MaxEndpoint
  BY DEF WebhookAssumption
<1> QED
  BY <1>1, <1>2 DEF TaskRecords, ReadBefore, Open, Between

LEMMA StillRead ==
    ASSUME NEW x, NEW r, NEW q, ReadBefore(x, r), Progress(r) <= Progress(q)
    PROVE  ReadBefore(x, q)
<1>1. \A s \in Open : Rank(s) \in 0..3
  BY Ranks
<1>2. Progress(r) \in 0..3 /\ Progress(q) \in 0..3
  BY ProgressIsRank
<1> QED
  BY <1>1, <1>2 DEF ReadBefore

LEMMA StillAnnounced ==
    ASSUME NEW s, NEW e, NEW r, NEW q, Announced(s, e, r), Progress(r) <= Progress(q)
    PROVE  Announced(s, e, q)
<1>1. \A t \in Open : Rank(t) \in 0..3
  BY Ranks
<1>2. Progress(r) \in 0..3 /\ Progress(q) \in 0..3
  BY ProgressIsRank
<1> QED
  BY <1>1, <1>2 DEF Announced

LEMMA ApprovalMoves ==
    ASSUME SyncInv, SyncTypes', Kind = "mutation" => record' \notin Moved,
           Progress(record) <= Progress(record'), UNCHANGED <<sub, queue, task>>
    PROVE  SyncInv'
<1>1. ASSUME NEW j \in Tasks PROVE ReadBefore(task'[j], record')
  BY StillRead DEF SyncInv
<1>2. Announced(sub', queue', record')
  BY StillAnnounced DEF SyncInv
<1> QED
  BY <1>1, <1>2 DEF SyncInv

LEMMA TaskMoves ==
    ASSUME SyncInv, NEW j \in Tasks, NEW w \in TaskRecords, task' = [task EXCEPT ![j] = w],
           ReadBefore(w, record), UNCHANGED <<record, sub, queue>>,
           lapsed' \in BOOLEAN, decision' \in Records, endpoint' \in 0..MaxEndpoint,
           registered' \in 0..MaxEndpoint, faults' \in 0..MaxFaults
    PROVE  SyncInv'
<1>1. task \in [Tasks -> TaskRecords]
  BY DEF SyncInv, SyncTypes, TaskRecords
<1>2. task' \in [Tasks -> TaskRecords] /\ task'[j] = w /\ \A k \in Tasks : k # j => task'[k] = task[k]
  BY <1>1, OneTask
<1>3. SyncTypes'
  BY <1>2 DEF SyncInv, SyncTypes, TaskRecords
<1>4. ASSUME NEW k \in Tasks PROVE ReadBefore(task'[k], record')
  BY <1>2 DEF SyncInv
<1> QED
  BY <1>3, <1>4 DEF SyncInv

LEMMA SyncInitially ==
    ASSUME WebhookAssumption, SyncInit
    PROVE  SyncInv
<1>0. 0 \in 0..MaxEndpoint /\ 0 \in 0..MaxFaults
  BY DEF WebhookAssumption
<1>1. IdleTask \in TaskRecords /\ ReadBefore(IdleTask, record)
  BY <1>0 DEF IdleTask, TaskRecords, TaskPCs, ReadBefore, Open, Between
<1>2. SyncTypes
 <2>1. task \in [Tasks -> TaskRecords]
   BY <1>1 DEF SyncInit
 <2>2. sub \in Subscriptions /\ queue \in Seq(Statuses)
   BY <1>0 DEF SyncInit, NoSub, Subscriptions
 <2> QED
   BY <1>0, <2>1, <2>2 DEF SyncInit, SyncTypes, Records, TaskRecords, Subscriptions
<1>3. Announced(sub, queue, record)
  BY DEF SyncInit, NoSub, Announced, Open
<1>4. \A j \in Tasks : ReadBefore(task[j], record)
  BY <1>1 DEF SyncInit
<1> QED
  BY <1>2, <1>3, <1>4 DEF SyncInit, SyncInv, Moved

LEMMA CardRead ==
    ASSUME SyncInv
    PROVE  /\ CardStatus \in Statuses \cup {"none"}
           /\ CardStatus \in Open => Rank(CardStatus) = Progress(record)
           /\ Kind = "mutation" => CardStatus \notin Between
<1>1. record \in Records /\ lapsed \in BOOLEAN /\ (Kind = "mutation" => record \notin Moved)
  BY DEF SyncInv, SyncTypes
<1>2. CASE record \in {"absent", "swept"}
  BY <1>2 DEF CardStatus, Open, Between
<1>3. CASE record \in {"denied", "completed", "failed"}
  BY <1>3 DEF CardStatus, Open, Between, Statuses, Terminal
<1>4. CASE record = "approved"
  BY <1>1, <1>4, Ranks DEF CardStatus, Statuses, Progress, Moved
<1>5. CASE record = "delivered"
  BY <1>1, <1>5, Ranks DEF CardStatus, Statuses, Terminal, Progress, Moved, Open
<1>6. CASE record = "signed"
  BY <1>1, <1>6, Ranks DEF CardStatus, Statuses, Terminal, Progress, Moved, Open
<1>7. CASE record = "pending"
  BY <1>1, <1>7, Ranks DEF CardStatus, Statuses, Terminal, Progress, Open, Between
<1> QED
  BY <1>1, <1>2, <1>3, <1>4, <1>5, <1>6, <1>7 DEF Records

LEMMA AdvanceKeeps ==
    ASSUME WebhookAssumption, SyncInv, NEW j \in Tasks, Advance(j)
    PROVE  SyncInv'
<1>t. /\ task[j] \in TaskRecords /\ sub \in Subscriptions /\ queue \in Seq(Statuses)
      /\ ReadBefore(task[j], record) /\ Announced(sub, queue, record) /\ task[j].pc = "advance"
      /\ task \in [Tasks -> TaskRecords]
  BY DEF SyncInv, SyncTypes, TaskRecords, Subscriptions, Advance
<1> DEFINE w == [IdleTask EXCEPT !.pc = "deliver"]
           c == task[j].card
<1>1. w \in TaskRecords /\ ReadBefore(w, record)
  BY Turned DEF TaskPCs
<1>2. task' = [task EXCEPT ![j] = w] /\ UNCHANGED <<approvalVars, endpointVars, faults>>
  BY DEF Advance, Turn
<1> HIDE DEF w
<1>3. CASE ~Unmoved(task[j].last)
 <2>1. UNCHANGED <<sub, queue>>
   BY <1>3 DEF Advance
 <2>2. /\ lapsed' \in BOOLEAN /\ decision' \in Records /\ endpoint' \in 0..MaxEndpoint
       /\ registered' \in 0..MaxEndpoint /\ faults' \in 0..MaxFaults /\ record' = record
   BY <1>2 DEF SyncInv, SyncTypes, approvalVars, endpointVars
 <2> QED
   BY <1>1, <1>2, <2>1, <2>2, TaskMoves
<1>4. CASE Unmoved(task[j].last)
 <2> DEFINE s == [sub EXCEPT !.last = c, !.open = c \notin Terminal]
            q == Append(queue, c)
 <2>1. sub' = s /\ queue' = q /\ sub.open /\ sub.last = task[j].last
   BY <1>4 DEF Advance, Unmoved
 <2>2. c \in Statuses /\ (Kind = "mutation" => c \notin Between)
       /\ (c \in Open => Rank(c) <= Progress(record))
       /\ (sub.last \in Open => Rank(sub.last) < Rank(c)) /\ sub.last \in Open \cup {"unset"}
   BY <1>t, <2>1 DEF ReadBefore
 <2> HIDE DEF c
 <2>3. s \in Subscriptions /\ s.last = c /\ s.open = (c \notin Terminal)
   BY <1>t, <2>2 DEF Subscriptions
 <2>4. q \in Seq(Statuses) /\ Len(q) = Len(queue) + 1 /\ q[Len(q)] = c /\ q # <<>>
       /\ DOMAIN q = 1..Len(queue) + 1 /\ Len(queue) \in Nat /\ DOMAIN queue = 1..Len(queue)
       /\ \A e \in DOMAIN queue : q[e] = queue[e] /\ queue[e] \in Statuses
   BY <1>t, <2>2
 <2> HIDE DEF s, q
 <2>5. ASSUME NEW e \in DOMAIN queue PROVE Rank(queue[e]) < Rank(c)
  <3>1. sub.last \in Open
    BY <1>t, <2>1, <2>2, <2>4 DEF Announced
  <3>2. queue[Len(queue)] = sub.last /\ Len(queue) \in DOMAIN queue
    BY <1>t, <2>1, <2>4, <3>1 DEF Announced
  <3>3. e = Len(queue) \/ Rank(queue[e]) < Rank(queue[Len(queue)])
    BY <1>t, <2>4, <3>2 DEF Announced
  <3>4. Rank(queue[e]) \in Nat /\ Rank(queue[Len(queue)]) \in Nat /\ Rank(c) \in Nat
    BY <2>2, <2>4, <3>2, Ranks
  <3> QED
    BY <2>2, <3>1, <3>2, <3>3, <3>4
 <2>6. \A e, f \in DOMAIN q : e < f => Rank(q[e]) < Rank(q[f])
  <3> SUFFICES ASSUME NEW e \in DOMAIN q, NEW f \in DOMAIN q, e < f PROVE Rank(q[e]) < Rank(q[f])
    OBVIOUS
  <3>1. e \in DOMAIN queue
    BY <2>4
  <3>2. CASE f \in DOMAIN queue
    BY <3>1, <3>2, <2>4, <1>t DEF Announced
  <3>3. CASE f = Len(queue) + 1
    BY <3>1, <3>3, <2>4, <2>5
  <3> QED
    BY <3>2, <3>3, <2>4
 <2>7. Kind = "mutation" => \A e \in DOMAIN q : q[e] \notin Between
  <3> SUFFICES ASSUME Kind = "mutation", NEW e \in DOMAIN q PROVE q[e] \notin Between
    OBVIOUS
  <3>1. CASE e \in DOMAIN queue
    BY <3>1, <2>4, <1>t DEF Announced
  <3>2. CASE e = Len(queue) + 1
    BY <3>2, <2>2, <2>4
  <3> QED
    BY <3>1, <3>2, <2>4
 <2>8. Announced(s, q, record)
  <3>1. s.last # "unset"
    BY <2>2, <2>3, Ranks
  <3>2. s.open => c \in Open
    BY <2>2, <2>3, Ranks
  <3> QED
    BY <3>1, <3>2, <2>2, <2>3, <2>4, <2>6, <2>7 DEF Announced
 <2>9. task' \in [Tasks -> TaskRecords] /\ task'[j] = w /\ \A k \in Tasks : k # j => task'[k] = task[k]
   BY <1>t, <1>1, <1>2, OneTask
 <2>10. record' = record
   BY <1>2 DEF approvalVars
 <2>11. SyncTypes'
   BY <1>2, <2>1, <2>3, <2>4, <2>9 DEF SyncInv, SyncTypes, approvalVars, endpointVars, TaskRecords, Subscriptions
 <2>12. \A k \in Tasks : ReadBefore(task'[k], record')
   BY <1>1, <2>9, <2>10 DEF SyncInv
 <2> QED
   BY <2>1, <2>8, <2>10, <2>11, <2>12 DEF SyncInv
<1> QED
  BY <1>3, <1>4

LEMMA SubscriptionMoves ==
    ASSUME WebhookAssumption, SyncInv, NEW j \in Tasks, NEW pc \in TaskPCs \ {"endpoint", "advance"},
           Turn(j, pc), NEW s \in Subscriptions, sub' = s, Announced(s, queue, record),
           UNCHANGED <<approvalVars, endpointVars, queue, faults>>
    PROVE  SyncInv'
<1> DEFINE w == [IdleTask EXCEPT !.pc = pc]
<1>t. task \in [Tasks -> TaskRecords]
  BY DEF SyncInv, SyncTypes, TaskRecords
<1>1. w \in TaskRecords /\ ReadBefore(w, record)
  BY Turned
<1>2. task' = [task EXCEPT ![j] = w] /\ record' = record
  BY DEF Turn, approvalVars
<1> HIDE DEF w
<1>3. task' \in [Tasks -> TaskRecords] /\ task'[j] = w /\ \A k \in Tasks : k # j => task'[k] = task[k]
  BY <1>t, <1>1, <1>2, OneTask
<1>4. SyncTypes'
  BY <1>3 DEF SyncInv, SyncTypes, approvalVars, endpointVars, TaskRecords, Subscriptions
<1>5. \A k \in Tasks : ReadBefore(task'[k], record')
  BY <1>1, <1>2, <1>3 DEF SyncInv
<1> QED
  BY <1>2, <1>4, <1>5 DEF SyncInv

LEMMA TurnKeeps ==
    ASSUME WebhookAssumption, SyncInv, NEW j \in Tasks, NEW pc \in TaskPCs \ {"endpoint", "advance"},
           Turn(j, pc), UNCHANGED <<approvalVars, endpointVars, sub, queue>>, faults' \in 0..MaxFaults
    PROVE  SyncInv'
<1> DEFINE w == [IdleTask EXCEPT !.pc = pc]
<1>1. w \in TaskRecords /\ ReadBefore(w, record)
  BY Turned
<1>2. task' = [task EXCEPT ![j] = w] /\ record' = record /\ UNCHANGED <<sub, queue>>
  BY DEF Turn, approvalVars
<1>3. /\ lapsed' \in BOOLEAN /\ decision' \in Records /\ endpoint' \in 0..MaxEndpoint
      /\ registered' \in 0..MaxEndpoint
  BY DEF SyncInv, SyncTypes, approvalVars, endpointVars
<1> HIDE DEF w
<1> QED
  BY <1>1, <1>2, <1>3, TaskMoves

LEMMA TaskToKeeps ==
    ASSUME WebhookAssumption, SyncInv, NEW j \in Tasks, NEW pc \in TaskPCs \ {"endpoint"},
           TaskTo(j, pc),
           pc = "advance" => /\ task[j].card \in Statuses
                             /\ task[j].last \in Open => Rank(task[j].last) < Rank(task[j].card),
           UNCHANGED <<approvalVars, endpointVars, sub, queue, faults>>
    PROVE  SyncInv'
<1> DEFINE w == [task[j] EXCEPT !.pc = pc]
<1>t. task[j] \in TaskRecords /\ ReadBefore(task[j], record)
  BY DEF SyncInv, SyncTypes, TaskRecords
<1>1. w \in TaskRecords /\ w.pc = pc /\ w.last = task[j].last /\ w.card = task[j].card
  BY <1>t DEF TaskRecords
<1>2. task' = [task EXCEPT ![j] = w] /\ record' = record /\ UNCHANGED <<sub, queue>>
  BY DEF TaskTo, approvalVars
<1>3. /\ lapsed' \in BOOLEAN /\ decision' \in Records /\ endpoint' \in 0..MaxEndpoint
      /\ registered' \in 0..MaxEndpoint /\ faults' \in 0..MaxFaults
  BY DEF SyncInv, SyncTypes, approvalVars, endpointVars
<1> HIDE DEF w
<1>4. ReadBefore(w, record)
  BY <1>t, <1>1 DEF ReadBefore
<1> QED
  BY <1>1, <1>2, <1>3, <1>4, TaskMoves

LEMMA CloseKeeps ==
    ASSUME WebhookAssumption, SyncInv, NEW j \in Tasks, CloseQuietly(j)
    PROVE  SyncInv'
<1> DEFINE s == IF Unmoved(task[j].last)
                THEN [sub EXCEPT !.open = FALSE, !.last = IF @ = "unset" THEN "expired" ELSE @]
                ELSE sub
<1>t. sub \in Subscriptions /\ Announced(sub, queue, record)
  BY DEF SyncInv, SyncTypes, Subscriptions
<1>1. s \in Subscriptions /\ (s = sub \/ (s.open = FALSE /\ s.last = (IF sub.last = "unset" THEN "expired" ELSE sub.last)))
  BY <1>t DEF Subscriptions, Statuses, Terminal
<1>2. sub' = s /\ Turn(j, "deliver") /\ UNCHANGED <<approvalVars, endpointVars, queue, faults>>
  BY DEF CloseQuietly
<1> HIDE DEF s
<1>3. Announced(s, queue, record)
  BY <1>t, <1>1 DEF Announced
<1>4. "deliver" \in TaskPCs \ {"endpoint", "advance"}
  BY DEF TaskPCs
<1> QED
  BY <1>1, <1>2, <1>3, <1>4, SubscriptionMoves

LEMMA SubscribeKeeps ==
    ASSUME WebhookAssumption, SyncInv, NEW j \in Tasks, Subscribe(j)
    PROVE  SyncInv'
<1> DEFINE s == IF sub = NoSub THEN [last |-> "unset", open |-> TRUE, endpoint |-> task[j].endpoint] ELSE sub
<1>t. sub \in Subscriptions /\ Announced(sub, queue, record) /\ task[j] \in TaskRecords
  BY DEF SyncInv, SyncTypes, Subscriptions, TaskRecords
<1>1. s \in Subscriptions
  BY <1>t DEF Subscriptions, TaskRecords
<1>2. s = sub \/ (s.last = "unset" /\ sub.last = "unset")
  BY DEF NoSub
<1>3. sub' = s /\ Turn(j, "sync") /\ UNCHANGED <<approvalVars, endpointVars, queue, faults>>
  BY DEF Subscribe
<1> HIDE DEF s
<1>4. Announced(s, queue, record)
  BY <1>t, <1>2 DEF Announced, Open
<1>5. "sync" \in TaskPCs \ {"endpoint", "advance"}
  BY DEF TaskPCs
<1> QED
  BY <1>1, <1>3, <1>4, <1>5, SubscriptionMoves

LEMMA ReadSubscriptionKeeps ==
    ASSUME WebhookAssumption, SyncInv, NEW j \in Tasks, ReadSubscription(j)
    PROVE  SyncInv'
<1>t. /\ task[j] \in TaskRecords /\ ReadBefore(task[j], record)
      /\ sub \in Subscriptions /\ Announced(sub, queue, record)
  BY DEF SyncInv, SyncTypes, TaskRecords, Subscriptions
<1>u. UNCHANGED <<approvalVars, endpointVars, sub, queue, faults>>
  BY DEF ReadSubscription
<1>1. CASE ~sub.open
 <2>1. Turn(j, "deliver")
   BY <1>1 DEF ReadSubscription, Turn
 <2>2. "deliver" \in TaskPCs \ {"endpoint", "advance"} /\ faults' \in 0..MaxFaults
   BY <1>u DEF TaskPCs, SyncInv, SyncTypes
 <2> QED
   BY <1>u, <2>1, <2>2, TurnKeeps
<1>2. CASE sub.open
 <2> DEFINE w == [task[j] EXCEPT !.pc = "card", !.last = sub.last, !.endpoint = sub.endpoint]
 <2>1. w \in TaskRecords /\ w.pc = "card" /\ w.last = sub.last /\ w.card = task[j].card
   BY <1>t DEF TaskRecords, Subscriptions, TaskPCs
 <2>2. task' = [task EXCEPT ![j] = w] /\ record' = record /\ UNCHANGED <<sub, queue>>
   BY <1>2, <1>u DEF ReadSubscription, approvalVars
 <2>3. /\ lapsed' \in BOOLEAN /\ decision' \in Records /\ endpoint' \in 0..MaxEndpoint
       /\ registered' \in 0..MaxEndpoint /\ faults' \in 0..MaxFaults
   BY <1>u DEF SyncInv, SyncTypes, approvalVars, endpointVars
 <2> HIDE DEF w
 <2>4. ReadBefore(w, record)
   BY <1>t, <1>2, <2>1 DEF ReadBefore, Announced
 <2> QED
   BY <2>1, <2>2, <2>3, <2>4, TaskMoves
<1> QED
  BY <1>1, <1>2

LEMMA ReadCardKeeps ==
    ASSUME WebhookAssumption, SyncInv, NEW j \in Tasks, ReadCard(j)
    PROVE  SyncInv'
<1>t. task[j] \in TaskRecords /\ ReadBefore(task[j], record)
  BY DEF SyncInv, SyncTypes, TaskRecords
<1>u. UNCHANGED <<approvalVars, endpointVars, sub, queue, faults>>
  BY DEF ReadCard
<1>c. /\ CardStatus \in Statuses \cup {"none"}
      /\ CardStatus \in Open => Rank(CardStatus) = Progress(record)
      /\ Kind = "mutation" => CardStatus \notin Between
  BY CardRead
<1> DEFINE c == CardStatus
           w == [task[j] EXCEPT !.card = c, !.pc = IF c = "none" THEN "close" ELSE "endpoint"]
<1>0. task' = [task EXCEPT ![j] = w]
  BY DEF ReadCard
<1> HIDE DEF c
<1>1. w \in TaskRecords /\ w.last = task[j].last /\ w.card = c
      /\ w.pc = IF c = "none" THEN "close" ELSE "endpoint"
  BY <1>t, <1>c DEF TaskRecords, TaskPCs, c
<1>3. /\ lapsed' \in BOOLEAN /\ decision' \in Records /\ endpoint' \in 0..MaxEndpoint
      /\ registered' \in 0..MaxEndpoint /\ faults' \in 0..MaxFaults
      /\ record' = record /\ UNCHANGED <<sub, queue>>
  BY <1>u DEF SyncInv, SyncTypes, approvalVars, endpointVars
<1> HIDE DEF w
<1>4. c \in Statuses /\ task[j].last \in Open => Rank(task[j].last) <= Rank(c)
 <2> SUFFICES ASSUME c \in Statuses, task[j].last \in Open PROVE Rank(task[j].last) <= Rank(c)
   OBVIOUS
 <2>1. CASE c \in Open
   BY <2>1, <1>t, <1>c DEF ReadBefore, c
 <2>2. CASE c \in Terminal
   BY <2>2, Ranks
 <2> QED
   BY <2>1, <2>2, Ranks
<1>5. c \in Open => Rank(c) <= Progress(record)
  BY <1>c, ProgressIsRank DEF c
<1>6. Kind = "mutation" => c \notin Between
  BY <1>c DEF c
<1>7. c # "none" => c \in Statuses
  BY <1>c DEF c
<1>8. ReadBefore(w, record)
  BY <1>t, <1>1, <1>4, <1>5, <1>6, <1>7 DEF ReadBefore
<1> QED
  BY <1>0, <1>1, <1>3, <1>8, TaskMoves

LEMMA ReadEndpointKeeps ==
    ASSUME WebhookAssumption, SyncInv, NEW j \in Tasks, ReadEndpoint(j)
    PROVE  SyncInv'
<1>t. task[j] \in TaskRecords /\ ReadBefore(task[j], record) /\ task[j].pc = "endpoint"
  BY DEF SyncInv, SyncTypes, TaskRecords, ReadEndpoint
<1>u. UNCHANGED <<approvalVars, endpointVars, sub, queue, faults>> /\ faults' \in 0..MaxFaults
  BY DEF ReadEndpoint, SyncInv, SyncTypes
<1>p. "close" \in TaskPCs \ {"endpoint"} /\ "advance" \in TaskPCs \ {"endpoint"}
      /\ "deliver" \in TaskPCs \ {"endpoint", "advance"}
  BY DEF TaskPCs
<1>1. CASE TaskTo(j, "close")
  BY <1>1, <1>p, <1>u, TaskToKeeps
<1>2. CASE Turn(j, "deliver")
  BY <1>2, <1>p, <1>u, TurnKeeps
<1>3. CASE TaskTo(j, "advance") /\ task[j].card # task[j].last
 <2>1. task[j].card \in Statuses
   BY <1>t DEF ReadBefore
 <2>2. task[j].last \in Open => Rank(task[j].last) < Rank(task[j].card)
  <3> DEFINE c == task[j].card
             l == task[j].last
  <3>1. c # l /\ c \in Statuses /\ (l \in Open => Rank(l) <= Rank(c))
    BY <1>3, <1>t, <2>1 DEF ReadBefore
  <3> HIDE DEF c, l
  <3>2. l \in Open => Rank(l) < Rank(c)
    BY <3>1, Ranks DEF Open
  <3> QED
    BY <3>2 DEF c, l
 <2> QED
   BY <1>3, <1>p, <1>u, <2>1, <2>2, TaskToKeeps
<1> QED
  BY <1>1, <1>2, <1>3 DEF ReadEndpoint

LEMMA TrackKeeps ==
    ASSUME WebhookAssumption, SyncInv, NEW j \in Tasks, Track(j)
    PROVE  SyncInv'
<1> DEFINE pc == IF endpoint = 0 THEN "idle" ELSE "subscribe"
           w == [IdleTask EXCEPT !.pc = pc, !.endpoint = endpoint]
<1>p. pc \in {"idle", "subscribe"}
  OBVIOUS
<1>1. endpoint \in 0..MaxEndpoint
  BY DEF SyncInv, SyncTypes
<1>4. task' = [task EXCEPT ![j] = w]
  BY DEF Track
<1> HIDE DEF pc
<1>i. IdleTask \in TaskRecords /\ IdleTask.last = "unset" /\ IdleTask.card = "unset"
  BY DEF IdleTask, TaskRecords, TaskPCs, WebhookAssumption
<1>2. w \in TaskRecords
  BY <1>i, <1>1, <1>p DEF TaskRecords, TaskPCs
<1>0. w.pc = pc /\ w.last = "unset" /\ w.card = "unset"
  BY <1>i DEF TaskRecords
<1>3. ReadBefore(w, record)
  BY <1>0, <1>p DEF ReadBefore, Open, Between
<1>5. /\ lapsed' \in BOOLEAN /\ decision' \in Records /\ endpoint' \in 0..MaxEndpoint
      /\ registered' \in 0..MaxEndpoint /\ faults' \in 0..MaxFaults
      /\ record' = record /\ UNCHANGED <<sub, queue>>
  BY DEF Track, SyncInv, SyncTypes, approvalVars, endpointVars
<1> HIDE DEF w
<1> QED
  BY <1>2, <1>3, <1>4, <1>5, TaskMoves

LEMMA RequestKeeps ==
    ASSUME WebhookAssumption, SyncInv, NEW p \in Procs, Request(p)
    PROVE  SyncInv'
<1> DEFINE j == <<p, "background">>
           w == [task[j] EXCEPT !.pc = "track"]
<1>0. j \in Tasks
  BY DEF Tasks
<1>t. task \in [Tasks -> TaskRecords] /\ task[j] \in TaskRecords /\ ReadBefore(task[j], record)
  BY <1>0 DEF SyncInv, SyncTypes, TaskRecords
<1>1. w \in TaskRecords /\ w.pc = "track" /\ w.last = task[j].last /\ w.card = task[j].card
  BY <1>t DEF TaskRecords, TaskPCs
<1>2. task' = [task EXCEPT ![j] = w] /\ record = "absent" /\ record' = "pending"
      /\ UNCHANGED <<lapsed, decision, endpointVars, sub, queue, faults>>
  BY DEF Request, TaskTo
<1> HIDE DEF w, j
<1>3. task' \in [Tasks -> TaskRecords] /\ task'[j] = w /\ \A k \in Tasks : k # j => task'[k] = task[k]
  BY <1>t, <1>0, <1>1, <1>2, OneTask
<1>4. SyncTypes'
  BY <1>2, <1>3 DEF SyncInv, SyncTypes, endpointVars, TaskRecords, Records
<1>5. Progress(record) <= Progress(record')
  BY <1>2 DEF Progress
<1>6. ReadBefore(w, record)
  BY <1>t, <1>1 DEF ReadBefore
<1>7. ASSUME NEW k \in Tasks PROVE ReadBefore(task'[k], record')
 <2>1. ReadBefore(task'[k], record)
   BY <1>3, <1>6 DEF SyncInv
 <2> QED
   BY <2>1, <1>5, StillRead
<1>8. Announced(sub', queue', record')
  BY <1>2, <1>5, StillAnnounced DEF SyncInv
<1> QED
  BY <1>2, <1>4, <1>7, <1>8 DEF SyncInv, Moved

LEMMA ApprovalKeeps ==
    ASSUME WebhookAssumption, SyncInv, Decide \/ WriteDecision \/ Outcome \/ Lapse \/ Sweep
    PROVE  SyncInv'
<1>0. UNCHANGED <<endpoint, registered, sub, queue, task, faults>>
  BY DEF Decide, WriteDecision, Outcome, Lapse, Sweep, endpointVars
<1>1. /\ record' \in Records /\ lapsed' \in BOOLEAN /\ decision' \in Records
      /\ Progress(record) <= Progress(record')
      /\ Kind = "mutation" => record' \notin Moved
 <2>t. record \in Records /\ lapsed \in BOOLEAN /\ decision \in Records
       /\ (Kind = "mutation" => record \notin Moved) /\ Progress(record) <= Progress(record)
   BY ProgressIsRank DEF SyncInv, SyncTypes
 <2>1. CASE Decide
   BY <2>t, <2>1, DecisionsMove DEF Decide
 <2>2. CASE WriteDecision
  <3>1. decision' = "absent" /\ lapsed' = lapsed
    BY <2>2 DEF WriteDecision
  <3>2. CASE record \in DOMAIN Decisions /\ decision \in Decisions[record]
   <4>1. record' = decision
     BY <2>2, <3>2 DEF WriteDecision
   <4> QED
     BY <2>t, <3>1, <3>2, <4>1, DecisionsMove DEF Records
  <3>3. CASE ~(record \in DOMAIN Decisions /\ decision \in Decisions[record])
   <4>1. record' = record
     BY <2>2, <3>3 DEF WriteDecision
   <4> QED
     BY <2>t, <3>1, <4>1 DEF Records
  <3> QED
    BY <3>2, <3>3
 <2>3. CASE Outcome
   BY <2>t, <2>3 DEF Outcome, Records, Progress, Moved
 <2>4. CASE Lapse
   BY <2>t, <2>4 DEF Lapse
 <2>5. CASE Sweep
  <3>1. record' = "swept" /\ UNCHANGED <<lapsed, decision>>
    BY <2>5 DEF Sweep
  <3>2. Progress("swept") = 3
    BY DEF Progress
  <3> QED
    BY <2>t, <3>1, <3>2, ProgressIsRank DEF Records, Moved
 <2> QED
   BY <2>1, <2>2, <2>3, <2>4, <2>5
<1>2. SyncTypes'
  BY <1>0, <1>1 DEF SyncInv, SyncTypes
<1> QED
  BY <1>0, <1>1, <1>2, ApprovalMoves

LEMMA SyncPreserved ==
    ASSUME WebhookAssumption, SyncInv, [SyncNext]_syncVars
    PROVE  SyncInv'
<1>f. \A pc \in {"idle", "deliver", "sync"} : pc \in TaskPCs \ {"endpoint", "advance"}
  BY DEF TaskPCs
<1>0. faults \in 0..MaxFaults /\ MaxFaults \in Nat /\ Progress(record) <= Progress(record)
      /\ (Kind = "mutation" => record \notin Moved)
  BY ProgressIsRank DEF SyncInv, SyncTypes, WebhookAssumption
<1>1. CASE Decide \/ WriteDecision \/ Outcome \/ Lapse \/ Sweep
  BY <1>1, ApprovalKeeps
<1>2. CASE Register \/ Unregister
 <2>1. UNCHANGED <<record, lapsed, decision, sub, queue, task, faults>>
   BY <1>2 DEF Register, Unregister, approvalVars
 <2>2. endpoint' \in 0..MaxEndpoint /\ registered' \in 0..MaxEndpoint
   BY <1>2 DEF Register, Unregister, SyncInv, SyncTypes, WebhookAssumption
 <2>3. SyncTypes'
   BY <2>1, <2>2 DEF SyncInv, SyncTypes
 <2> QED
   BY <1>0, <2>1, <2>3, ApprovalMoves
<1>3. ASSUME NEW p \in Procs, Notify(p) \/ SyncTick(p) PROVE SyncInv'
 <2>1. PICK j \in Tasks : TaskTo(j, "sync")
   BY <1>3 DEF Notify, SyncTick, Tasks
 <2>2. UNCHANGED <<approvalVars, endpointVars, sub, queue, faults>>
   BY <1>3 DEF Notify, SyncTick
 <2>3. "sync" \in TaskPCs \ {"endpoint"} /\ "sync" # "advance"
   BY DEF TaskPCs
 <2> QED
   BY <2>1, <2>2, <2>3, TaskToKeeps
<1>4. ASSUME NEW p \in Procs, ProcessDies(p) PROVE SyncInv'
 <2>1. task' = [j \in Tasks |-> IF j[1] = p THEN IdleTask ELSE task[j]]
       /\ UNCHANGED <<approvalVars, endpointVars, sub, queue>>
   BY <1>4 DEF ProcessDies
 <2>2. faults' \in 0..MaxFaults
   BY <1>0, <1>4 DEF ProcessDies
 <2>3. IdleTask \in TaskRecords /\ ReadBefore(IdleTask, record)
   BY DEF IdleTask, TaskRecords, TaskPCs, ReadBefore, Open, Between, WebhookAssumption
 <2>4. task' \in [Tasks -> TaskRecords] /\ \A k \in Tasks : ReadBefore(task'[k], record)
   BY <2>1, <2>3 DEF SyncInv, SyncTypes, TaskRecords
 <2>5. record' = record
   BY <2>1 DEF approvalVars
 <2>6. SyncTypes'
   BY <2>1, <2>2, <2>4 DEF SyncInv, SyncTypes, TaskRecords, approvalVars, endpointVars
 <2> QED
   BY <2>1, <2>4, <2>5, <2>6 DEF SyncInv
<1>5. ASSUME NEW j \in Tasks, SyncFails(j) PROVE SyncInv'
 <2>1. PICK pc \in {"idle", "deliver"} : Turn(j, pc)
   BY <1>5 DEF SyncFails
 <2>2. UNCHANGED <<approvalVars, endpointVars, sub, queue>> /\ faults' \in 0..MaxFaults
   BY <1>0, <1>5 DEF SyncFails
 <2> QED
   BY <1>f, <2>1, <2>2, TurnKeeps
<1>6. ASSUME NEW j \in Tasks, NothingDue(j) \/ ReceiversEnd(j) PROVE SyncInv'
 <2>1. Turn(j, "idle") /\ UNCHANGED <<approvalVars, endpointVars, sub, queue, faults>>
   BY <1>6 DEF NothingDue, ReceiversEnd
 <2> QED
   BY <1>0, <1>f, <2>1, TurnKeeps
<1>7. CASE UNCHANGED syncVars
 <2>1. UNCHANGED <<record, lapsed, decision, endpoint, registered, sub, queue, task, faults>>
   BY <1>7 DEF syncVars
 <2>2. SyncTypes'
   BY <2>1 DEF SyncInv, SyncTypes
 <2> QED
   BY <1>0, <2>1, <2>2, ApprovalMoves
<1> QED
  BY <1>1, <1>2, <1>3, <1>4, <1>5, <1>6, <1>7, RequestKeeps, TrackKeeps, SubscribeKeeps,
     ReadSubscriptionKeeps, ReadCardKeeps, ReadEndpointKeeps, AdvanceKeeps, CloseKeeps
     DEF SyncNext, SyncStep

(* Strict ranks between 0 and 3 leave room for four events, and for two if  *)
(* nothing lies between the pending state and the end.                      *)
LEMMA FewEvents ==
    ASSUME WebhookAssumption, SyncInv
    PROVE  Len(queue) <= MaxEvents
<1>t. /\ queue \in Seq(Statuses) /\ Len(queue) \in Nat /\ DOMAIN queue = 1..Len(queue)
      /\ \A e \in DOMAIN queue : queue[e] \in Statuses
  BY DEF SyncInv, SyncTypes
<1>1. \A e, f \in DOMAIN queue : e < f => Rank(queue[e]) < Rank(queue[f])
  BY DEF SyncInv, Announced
<1>2. \A e \in DOMAIN queue : Rank(queue[e]) \in 0..3
  BY <1>t, Ranks
<1>3. CASE Kind = "payment"
 <2>1. ASSUME Len(queue) > 4 PROVE FALSE
  <3>1. 1 \in DOMAIN queue /\ 2 \in DOMAIN queue /\ 3 \in DOMAIN queue /\ 4 \in DOMAIN queue /\ 5 \in DOMAIN queue
    BY <1>t, <2>1
  <3>2. /\ Rank(queue[1]) < Rank(queue[2]) /\ Rank(queue[2]) < Rank(queue[3])
        /\ Rank(queue[3]) < Rank(queue[4]) /\ Rank(queue[4]) < Rank(queue[5])
    BY <1>1, <3>1
  <3> QED
    BY <1>2, <3>1, <3>2
 <2> QED
   BY <1>3, <1>t, <2>1 DEF MaxEvents
<1>4. CASE Kind = "mutation"
 <2>1. ASSUME Len(queue) > 2 PROVE FALSE
  <3>1. 1 \in DOMAIN queue /\ 2 \in DOMAIN queue /\ 3 \in DOMAIN queue
    BY <1>t, <2>1
  <3>2. Rank(queue[1]) < Rank(queue[2]) /\ Rank(queue[2]) < Rank(queue[3])
    BY <1>1, <3>1
  <3>3. queue[2] \notin Between /\ queue[2] \in Statuses
    BY <1>4, <1>t, <3>1 DEF SyncInv, Announced
  <3>4. Rank(queue[2]) \in {0, 3}
    BY <3>3, Ranks DEF Between, Open
  <3> QED
    BY <1>2, <3>1, <3>2, <3>4
 <2> QED
   BY <1>4, <1>t, <2>1 DEF MaxEvents
<1> QED
  BY <1>3, <1>4 DEF WebhookAssumption

LEMMA SyncSound ==
    ASSUME WebhookAssumption, SyncInv
    PROVE  SyncTypeOK /\ EventsFollowProgress
<1>1. SyncTypeOK
  BY FewEvents DEF SyncInv, SyncTypes, SyncTypeOK
<1>2. EventsFollowProgress
 <2>1. \A e, f \in DOMAIN queue : e < f => Rank(queue[e]) < Rank(queue[f])
   BY DEF SyncInv, Announced
 <2>2. sub.open /\ sub.last # "unset" => queue # <<>> /\ queue[Len(queue)] = sub.last
   BY DEF SyncInv, Announced
 <2> QED
   BY <2>1, <2>2 DEF EventsFollowProgress
<1> QED
  BY <1>1, <1>2

(* What each task of each process has read of the approval is no further    *)
(* than the approval is, and what was announced ends in what is subscribed. *)
THEOREM SyncIsSound == WebhookAssumption => (SyncSpec => []SyncInv)
<1> SUFFICES ASSUME WebhookAssumption
             PROVE  SyncSpec => []SyncInv
  OBVIOUS
<1>1. SyncInit => SyncInv
  BY SyncInitially
<1>2. SyncInv /\ [SyncNext]_syncVars => SyncInv'
  BY SyncPreserved
<1>3. QED
  BY <1>1, <1>2, PTL DEF SyncSpec

-----------------------------------------------------------------------------
(* Webhooks: sending.  The posts of an event and the attempts at it that    *)
(* have not posted yet are no more than the attempts that were taken.       *)

Attempts == [pc : AttemptPCs, n : 0..MaxAttempts]
Deliveries == [queued : BOOLEAN, attempts : 0..MaxAttempts, due : BOOLEAN,
               delivered : BOOLEAN, abandoned : {"no", "exhausted", "removed"}]

Unposted(e) == {att[s][e].n : s \in {t \in Senders : att[t][e].pc \in {"send", "post"}}}

HoldsTaken ==
    \A s \in Senders, e \in Events :
        Attempting(s, e) => 1 <= att[s][e].n /\ att[s][e].n <= delivery[e].attempts
HoldsApart ==
    \A e \in Events : \A s, t \in Senders :
        s # t /\ Attempting(s, e) /\ Attempting(t, e) => att[s][e].n # att[t][e].n
PostsCounted ==
    \A e \in Events : wire[e] + Cardinality(Unposted(e)) <= delivery[e].attempts

DeliveryInv == DeliveryTypeOK /\ HoldsTaken /\ HoldsApart /\ PostsCounted /\ GivenUpAfterBackoff

LEMMA OneAttempt ==
    ASSUME NEW A, att \in [Senders -> [Events -> A]], NEW s \in Senders, NEW e \in Events,
           NEW a \in A, att' = [att EXCEPT ![s][e] = a]
    PROVE  /\ att' \in [Senders -> [Events -> A]]
           /\ att'[s][e] = a
           /\ \A t \in Senders, f \in Events : t # s \/ f # e => att'[t][f] = att[t][f]
<1> DEFINE w == [att[s] EXCEPT ![e] = a]
<1>1. att[s] \in [Events -> A]
  OBVIOUS
<1>2. w \in [Events -> A] /\ w[e] = a /\ \A f \in Events : f # e => w[f] = att[s][f]
  BY <1>1
<1>3. att' = [att EXCEPT ![s] = w]
  OBVIOUS
<1> HIDE DEF w
<1>4. att' \in [Senders -> [Events -> A]] /\ att'[s] = w
      /\ \A t \in Senders : t # s => att'[t] = att[t]
  BY <1>2, <1>3
<1> QED
  BY <1>2, <1>4

LEMMA OneDelivery ==
    ASSUME NEW D, delivery \in [Events -> D], NEW e \in Events, NEW d \in D,
           delivery' = [delivery EXCEPT ![e] = d]
    PROVE  /\ delivery' \in [Events -> D]
           /\ delivery'[e] = d
           /\ \A f \in Events : f # e => delivery'[f] = delivery[f]
  OBVIOUS

LEMMA UnpostedFinite ==
    ASSUME DeliveryAssumption, DeliveryTypeOK, HoldsTaken, NEW e \in Events
    PROVE  /\ IsFiniteSet(Unposted(e))
           /\ \A k \in Unposted(e) : k \in 1..delivery[e].attempts
           /\ Cardinality(Unposted(e)) \in Nat
<1>1. delivery[e].attempts \in Nat
  BY DEF DeliveryAssumption, DeliveryTypeOK
<1>2. ASSUME NEW k \in Unposted(e) PROVE k \in 1..delivery[e].attempts
 <2>1. PICK s \in Senders : att[s][e].pc \in {"send", "post"} /\ k = att[s][e].n
   BY <1>2 DEF Unposted
 <2>2. att[s][e].n \in 0..MaxAttempts
   BY DEF DeliveryTypeOK
 <2> QED
   BY <1>1, <2>1, <2>2 DEF HoldsTaken, Attempting, DeliveryAssumption
<1>3. Unposted(e) \subseteq 1..delivery[e].attempts
  BY <1>2
<1>4. IsFiniteSet(1..delivery[e].attempts)
  BY <1>1, FS_Interval
<1> QED
  BY <1>2, <1>3, <1>4, FS_Subset, FS_CardinalityType

Steady ==
    /\ \A s \in Senders, e \in Events :
          /\ att'[s][e].pc \in {"send", "post", "ok", "error"} =>
                Attempting(s, e) /\ att'[s][e].n = att[s][e].n
          /\ att'[s][e].pc \in {"send", "post"} => att[s][e].pc \in {"send", "post"}
    /\ \A e \in Events : delivery'[e].attempts = delivery[e].attempts
    /\ wire' = wire

LEMMA SteadyKeeps ==
    ASSUME DeliveryAssumption, DeliveryInv, Steady
    PROVE  HoldsTaken' /\ HoldsApart' /\ PostsCounted'
<1>1. HoldsTaken'
  BY DEF HoldsTaken, DeliveryInv, Steady, Attempting
<1>2. HoldsApart'
  BY DEF HoldsApart, DeliveryInv, Steady, Attempting
<1>3. ASSUME NEW e \in Events
      PROVE  wire'[e] + Cardinality(Unposted(e)') <= delivery'[e].attempts
 <2>1. Unposted(e)' \subseteq Unposted(e)
  <3> SUFFICES ASSUME NEW k \in Unposted(e)' PROVE k \in Unposted(e)
    OBVIOUS
  <3>1. PICK s \in Senders : att'[s][e].pc \in {"send", "post"} /\ k = att'[s][e].n
    BY DEF Unposted
  <3>2. att[s][e].pc \in {"send", "post"} /\ k = att[s][e].n
    BY <3>1 DEF Steady
  <3> QED
    BY <3>2 DEF Unposted
 <2>2. IsFiniteSet(Unposted(e)) /\ Cardinality(Unposted(e)) \in Nat
   BY UnpostedFinite DEF DeliveryInv
 <2>3. Cardinality(Unposted(e)') \in Nat /\ Cardinality(Unposted(e)') <= Cardinality(Unposted(e))
   BY <2>1, <2>2, FS_Subset, FS_CardinalityType
 <2>4. wire'[e] = wire[e] /\ delivery'[e].attempts = delivery[e].attempts
   BY DEF Steady
 <2>5. wire[e] + Cardinality(Unposted(e)) <= delivery[e].attempts
   BY DEF DeliveryInv, PostsCounted
 <2>6. wire[e] \in Nat /\ delivery[e].attempts \in Nat
   BY DEF DeliveryInv, DeliveryTypeOK, DeliveryAssumption
 <2> QED
   BY <2>2, <2>3, <2>4, <2>5, <2>6
<1>4. PostsCounted'
  BY <1>3 DEF PostsCounted
<1> QED
  BY <1>1, <1>2, <1>4

LEMMA DeliveryInitially ==
    ASSUME DeliveryAssumption, DeliveryInit
    PROVE  DeliveryInv
<1>1. DeliveryTypeOK
  BY DEF DeliveryAssumption, DeliveryInit, DeliveryTypeOK, Idle, AttemptPCs
<1>2. HoldsTaken /\ HoldsApart
  BY DEF DeliveryInit, HoldsTaken, HoldsApart, Attempting, Idle
<1>3. ASSUME NEW e \in Events PROVE wire[e] + Cardinality(Unposted(e)) <= delivery[e].attempts
 <2>1. Unposted(e) = {}
   BY DEF Unposted, DeliveryInit, Idle
 <2>2. wire[e] = 0 /\ delivery[e].attempts = 0
   BY DEF DeliveryInit
 <2> QED
   BY <2>1, <2>2, FS_EmptySet
<1>4. GivenUpAfterBackoff
  BY DEF DeliveryInit, GivenUpAfterBackoff
<1> QED
  BY <1>1, <1>2, <1>3, <1>4 DEF DeliveryInv, PostsCounted

LEMMA ClaimKeeps ==
    ASSUME DeliveryAssumption, DeliveryInv, NEW s \in Senders, NEW e \in Events, Claim(s, e)
    PROVE  DeliveryInv'
<1> DEFINE n == att[s][e].n
           d == [delivery[e] EXCEPT !.attempts = n + 1, !.due = FALSE]
<1>t. /\ delivery \in [Events -> Deliveries] /\ att \in [Senders -> [Events -> Attempts]]
      /\ MaxAttempts \in Nat /\ Waits \in Nat
  BY DEF DeliveryInv, DeliveryTypeOK, DeliveryAssumption, Attempts, Deliveries
<1>0. delivery[e] \in Deliveries /\ att[s][e] \in Attempts /\ n \in 0..MaxAttempts /\ n < MaxAttempts
  BY <1>t DEF Claim, Attempts
<1>u. UNCHANGED <<reachable, wire, crashes>>
  BY DEF Claim
<1>1. CASE Claimable(e, n)
 <2>1. /\ delivery' = [delivery EXCEPT ![e] = d]
       /\ att' = [att EXCEPT ![s][e] = [pc |-> "send", n |-> n + 1]]
   BY <1>1 DEF Claim
 <2>2. /\ d \in Deliveries /\ d.attempts = n + 1 /\ d.abandoned = delivery[e].abandoned
       /\ delivery[e].attempts = n
  <3>1. n + 1 \in 0..MaxAttempts
    BY <1>0, <1>t
  <3>2. delivery[e].attempts = n
    BY <1>1 DEF Claimable
  <3> HIDE DEF n
  <3> QED
    BY <1>0, <3>1, <3>2 DEF Deliveries
 <2>3. [pc |-> "send", n |-> n + 1] \in Attempts
   BY <1>0, <1>t DEF Attempts, AttemptPCs
 <2> HIDE DEF d
 <2>4. /\ delivery' \in [Events -> Deliveries] /\ delivery'[e] = d
       /\ \A f \in Events : f # e => delivery'[f] = delivery[f]
   BY <1>t, <2>1, <2>2, OneDelivery
 <2>5. /\ att' \in [Senders -> [Events -> Attempts]]
       /\ att'[s][e] = [pc |-> "send", n |-> n + 1]
       /\ \A t \in Senders, f \in Events : t # s \/ f # e => att'[t][f] = att[t][f]
   BY <1>t, <2>1, <2>3, OneAttempt
 <2>6. DeliveryTypeOK'
   BY <2>4, <2>5, <1>u DEF DeliveryInv, DeliveryTypeOK, Attempts, Deliveries
 <2>7. ASSUME NEW t \in Senders, NEW f \in Events, Attempting(t, f)'
       PROVE  1 <= att'[t][f].n /\ att'[t][f].n <= delivery'[f].attempts
  <3>1. CASE t = s /\ f = e
    BY <3>1, <2>2, <2>4, <2>5, <1>0
  <3>2. CASE ~(t = s /\ f = e)
   <4>1. Attempting(t, f) /\ att'[t][f] = att[t][f]
     BY <3>2, <2>5, <2>7 DEF Attempting
   <4>2. 1 <= att[t][f].n /\ att[t][f].n <= delivery[f].attempts
     BY <4>1 DEF DeliveryInv, HoldsTaken
   <4>3. delivery[f].attempts <= delivery'[f].attempts /\ att[t][f].n \in Nat
         /\ delivery[f].attempts \in Nat /\ delivery'[f].attempts \in Nat
    <5>1. att[t][f] \in Attempts /\ delivery[f] \in Deliveries /\ delivery'[f] \in Deliveries
      BY <1>t, <2>4
    <5>2. delivery'[f].attempts = IF f = e THEN n + 1 ELSE delivery[f].attempts
      BY <2>2, <2>4
    <5>3. f = e => delivery[f].attempts = n
      BY <2>2
    <5> HIDE DEF n
    <5> QED
      BY <1>0, <1>t, <5>1, <5>2, <5>3 DEF Attempts, Deliveries
   <4> QED
     BY <4>1, <4>2, <4>3
  <3> QED
    BY <3>1, <3>2
 <2>8. ASSUME NEW f \in Events, NEW t \in Senders, NEW u \in Senders, t # u,
              Attempting(t, f)', Attempting(u, f)'
       PROVE  att'[t][f].n # att'[u][f].n
  <3>1. ASSUME NEW r \in Senders, r # s, f = e, Attempting(r, e)' PROVE att'[r][e].n <= n /\ att'[r][e].n \in Nat
   <4>1. Attempting(r, e) /\ att'[r][e] = att[r][e]
     BY <3>1, <2>5 DEF Attempting
   <4> QED
     BY <4>1, <2>2, <1>t DEF DeliveryInv, HoldsTaken, Attempts
  <3>2. CASE f # e
    BY <3>2, <2>5, <2>8 DEF DeliveryInv, HoldsApart, Attempting
  <3>3. CASE f = e /\ t = s
    BY <3>1, <3>3, <2>5, <2>8, <1>0
  <3>4. CASE f = e /\ u = s
    BY <3>1, <3>4, <2>5, <2>8, <1>0
  <3>5. CASE f = e /\ t # s /\ u # s
    BY <3>5, <2>5, <2>8 DEF DeliveryInv, HoldsApart, Attempting
  <3> QED
    BY <3>2, <3>3, <3>4, <3>5
 <2>9. ASSUME NEW f \in Events
       PROVE  wire'[f] + Cardinality(Unposted(f)') <= delivery'[f].attempts
  <3>0. /\ IsFiniteSet(Unposted(f)) /\ Cardinality(Unposted(f)) \in Nat
        /\ \A k \in Unposted(f) : k \in 1..delivery[f].attempts
    BY UnpostedFinite DEF DeliveryInv
  <3>1. wire[f] + Cardinality(Unposted(f)) <= delivery[f].attempts /\ wire[f] \in Nat
        /\ wire'[f] = wire[f] /\ delivery[f].attempts \in Nat
    BY <1>u, <1>t DEF DeliveryInv, PostsCounted, DeliveryTypeOK, Deliveries
  <3>2. CASE f # e
   <4>1. Unposted(f)' = Unposted(f)
     BY <3>2, <2>5 DEF Unposted
   <4> QED
     BY <4>1, <3>1, <3>2, <2>4
  <3>3. CASE f = e
   <4>1. Unposted(f)' \subseteq Unposted(f) \cup {n + 1}
    <5> SUFFICES ASSUME NEW k \in Unposted(f)', k # n + 1 PROVE k \in Unposted(f)
      OBVIOUS
    <5>1. PICK t \in Senders : att'[t][f].pc \in {"send", "post"} /\ k = att'[t][f].n
      BY DEF Unposted
    <5>2. t # s
      BY <5>1, <3>3, <2>5
    <5>3. att[t][f].pc \in {"send", "post"} /\ k = att[t][f].n
      BY <5>1, <5>2, <2>5
    <5> QED
      BY <5>3 DEF Unposted
   <4>2. n + 1 \notin Unposted(f)
     BY <3>0, <3>3, <2>2, <1>0
   <4>3. IsFiniteSet(Unposted(f) \cup {n + 1})
         /\ Cardinality(Unposted(f) \cup {n + 1}) = Cardinality(Unposted(f)) + 1
     BY <3>0, <4>2, FS_AddElement
   <4>4. Cardinality(Unposted(f)') \in Nat
         /\ Cardinality(Unposted(f)') <= Cardinality(Unposted(f) \cup {n + 1})
     BY <4>1, <4>3, FS_Subset, FS_CardinalityType
   <4> QED
     BY <3>0, <3>1, <3>3, <4>3, <4>4, <2>2, <2>4, <1>0
  <3> QED
    BY <3>2, <3>3
 <2>10. GivenUpAfterBackoff'
  <3> SUFFICES ASSUME NEW f \in Events
               PROVE  /\ delivery'[f].abandoned = "exhausted" => delivery'[f].attempts > Waits
                      /\ delivery'[f].abandoned = "removed" => ~reachable'
    BY DEF GivenUpAfterBackoff
  <3>1. delivery'[f].abandoned = delivery[f].abandoned /\ delivery'[f].attempts >= delivery[f].attempts
        /\ delivery[f].attempts \in Nat /\ delivery'[f].attempts \in Nat
    BY <1>t, <1>0, <2>2, <2>4 DEF Deliveries
  <3> QED
    BY <3>1, <1>u, <1>t DEF DeliveryInv, GivenUpAfterBackoff
 <2> QED
   BY <2>6, <2>7, <2>8, <2>9, <2>10 DEF DeliveryInv, HoldsTaken, HoldsApart, PostsCounted
<1>2. CASE ~Claimable(e, n)
 <2>1. delivery' = delivery /\ att' = [att EXCEPT ![s][e] = Idle]
   BY <1>2 DEF Claim, Ends
 <2>2. Idle \in Attempts /\ Idle.pc = "idle"
   BY <1>t DEF Attempts, Idle, AttemptPCs
 <2>3. /\ att' \in [Senders -> [Events -> Attempts]]
       /\ att'[s][e] = Idle
       /\ \A t \in Senders, f \in Events : t # s \/ f # e => att'[t][f] = att[t][f]
   BY <1>t, <2>1, <2>2, OneAttempt
 <2>4. Steady
   BY <2>1, <2>2, <2>3, <1>u DEF Steady, Attempting
 <2>5. DeliveryTypeOK' /\ GivenUpAfterBackoff'
   BY <2>1, <2>3, <1>u DEF DeliveryInv, DeliveryTypeOK, Attempts, GivenUpAfterBackoff
 <2> QED
   BY <2>4, <2>5, SteadyKeeps DEF DeliveryInv
<1> QED
  BY <1>1, <1>2

LEMMA PostKeeps ==
    ASSUME DeliveryAssumption, DeliveryInv, NEW s \in Senders, NEW e \in Events, Post(s, e)
    PROVE  DeliveryInv'
<1>t. /\ delivery \in [Events -> Deliveries] /\ att \in [Senders -> [Events -> Attempts]]
      /\ wire \in [Events -> 0..MaxAttempts] /\ MaxAttempts \in Nat
  BY DEF DeliveryInv, DeliveryTypeOK, DeliveryAssumption, Attempts, Deliveries
<1>u. UNCHANGED <<reachable, delivery, crashes>> /\ att[s][e].pc = "post"
  BY DEF Post
<1>1. PICK arrives \in BOOLEAN, accepted \in BOOLEAN :
        /\ wire' = [wire EXCEPT ![e] = IF arrives THEN @ + 1 ELSE @]
        /\ att' = [att EXCEPT ![s][e].pc = IF accepted THEN "ok" ELSE "error"]
  BY DEF Post, Step
<1> DEFINE a == [att[s][e] EXCEPT !.pc = IF accepted THEN "ok" ELSE "error"]
<1>2. att[s][e] \in Attempts
  BY <1>t
<1>3. a \in Attempts /\ a.n = att[s][e].n /\ a.pc \in {"ok", "error"}
  BY <1>2 DEF Attempts, AttemptPCs
<1>4. att' = [att EXCEPT ![s][e] = a]
  BY <1>1
<1> HIDE DEF a
<1>5. /\ att' \in [Senders -> [Events -> Attempts]] /\ att'[s][e] = a
      /\ \A t \in Senders, f \in Events : t # s \/ f # e => att'[t][f] = att[t][f]
  BY <1>t, <1>3, <1>4, OneAttempt
<1>6. /\ \A f \in Events : wire'[f] \in Nat /\ (f # e => wire'[f] = wire[f])
      /\ wire'[e] <= wire[e] + 1
  BY <1>1, <1>t
<1>w. DOMAIN wire' = Events /\ wire' = [f \in Events |-> wire'[f]]
  BY <1>1, <1>t
<1>7. \A t \in Senders, f \in Events : Attempting(t, f)' => Attempting(t, f) /\ att'[t][f].n = att[t][f].n
  BY <1>3, <1>5, <1>u DEF Attempting
<1>8. HoldsTaken' /\ HoldsApart'
  BY <1>7, <1>u DEF DeliveryInv, HoldsTaken, HoldsApart
<1>9. ASSUME NEW f \in Events
      PROVE  /\ wire'[f] + Cardinality(Unposted(f)') <= delivery'[f].attempts
             /\ Cardinality(Unposted(f)') \in Nat
 <2>0. /\ IsFiniteSet(Unposted(f)) /\ Cardinality(Unposted(f)) \in Nat
   BY UnpostedFinite DEF DeliveryInv
 <2>1. wire[f] + Cardinality(Unposted(f)) <= delivery[f].attempts /\ wire[f] \in Nat
       /\ delivery'[f].attempts = delivery[f].attempts /\ delivery[f].attempts \in Nat
   BY <1>u, <1>t DEF DeliveryInv, PostsCounted, Deliveries
 <2>2. CASE f # e
  <3>1. Unposted(f)' = Unposted(f)
    BY <2>2, <1>5 DEF Unposted
  <3> QED
    BY <3>1, <2>0, <2>1, <2>2, <1>6
 <2>3. CASE f = e
  <3>1. Unposted(f)' \subseteq Unposted(f) \ {att[s][e].n}
   <4> SUFFICES ASSUME NEW k \in Unposted(f)' PROVE k \in Unposted(f) /\ k # att[s][e].n
     OBVIOUS
   <4>1. PICK t \in Senders : att'[t][f].pc \in {"send", "post"} /\ k = att'[t][f].n
     BY DEF Unposted
   <4>2. t # s
     BY <4>1, <2>3, <1>3, <1>5
   <4>3. att[t][f].pc \in {"send", "post"} /\ k = att[t][f].n
     BY <4>1, <4>2, <1>5
   <4>4. k # att[s][e].n
     BY <4>2, <4>3, <2>3, <1>u DEF DeliveryInv, HoldsApart, Attempting
   <4> QED
     BY <4>3, <4>4 DEF Unposted
  <3>2. att[s][e].n \in Unposted(f)
    BY <2>3, <1>u DEF Unposted
  <3>3. IsFiniteSet(Unposted(f) \ {att[s][e].n})
        /\ Cardinality(Unposted(f) \ {att[s][e].n}) = Cardinality(Unposted(f)) - 1
   <4> DEFINE S == Unposted(f)
              k == att[s][e].n
   <4>1. IsFiniteSet(S) /\ k \in S
     BY <2>0, <3>2
   <4> HIDE DEF S, k
   <4>2. IsFiniteSet(S \ {k}) /\ Cardinality(S \ {k}) = Cardinality(S) - 1
     BY <4>1, FS_RemoveElement
   <4> QED
     BY <4>2 DEF S, k
  <3>4. Cardinality(Unposted(f)') \in Nat
        /\ Cardinality(Unposted(f)') <= Cardinality(Unposted(f)) - 1
    BY <3>1, <3>3, FS_Subset, FS_CardinalityType
  <3> QED
    BY <3>4, <2>0, <2>1, <2>3, <1>6
 <2> QED
   BY <2>2, <2>3
<1>10. \A f \in Events : wire'[f] \in 0..MaxAttempts
  BY <1>6, <1>9, <1>u, <1>t DEF Deliveries
<1>11. wire' \in [Events -> 0..MaxAttempts]
  BY <1>w, <1>10
<1>12. DeliveryTypeOK'
  BY <1>5, <1>11, <1>u DEF DeliveryInv, DeliveryTypeOK, Attempts
<1>13. GivenUpAfterBackoff'
  BY <1>u DEF DeliveryInv, GivenUpAfterBackoff
<1> QED
  BY <1>8, <1>9, <1>12, <1>13 DEF DeliveryInv, PostsCounted

LEMMA EndsKeeps ==
    ASSUME DeliveryAssumption, DeliveryInv, NEW s \in Senders, NEW e \in Events, Ends(s, e),
           NEW d \in Deliveries, d.attempts = delivery[e].attempts,
           delivery' = [delivery EXCEPT ![e] = d],
           d.abandoned = "exhausted" => d.attempts > Waits,
           d.abandoned = "removed" => ~reachable,
           UNCHANGED <<reachable, wire, crashes>>
    PROVE  DeliveryInv'
<1>t. /\ delivery \in [Events -> Deliveries] /\ att \in [Senders -> [Events -> Attempts]]
      /\ MaxAttempts \in Nat
  BY DEF DeliveryInv, DeliveryTypeOK, DeliveryAssumption, Attempts, Deliveries
<1>1. /\ delivery' \in [Events -> Deliveries] /\ delivery'[e] = d
      /\ \A f \in Events : f # e => delivery'[f] = delivery[f]
  BY <1>t, OneDelivery
<1>2. Idle \in Attempts /\ Idle.pc = "idle"
  BY <1>t DEF Attempts, Idle, AttemptPCs
<1>3. att' = [att EXCEPT ![s][e] = Idle]
  BY DEF Ends
<1>4. /\ att' \in [Senders -> [Events -> Attempts]] /\ att'[s][e] = Idle
      /\ \A t \in Senders, f \in Events : t # s \/ f # e => att'[t][f] = att[t][f]
  BY <1>t, <1>2, <1>3, OneAttempt
<1>5. Steady
  BY <1>1, <1>2, <1>4 DEF Steady, Attempting
<1>6. DeliveryTypeOK'
  BY <1>1, <1>4 DEF DeliveryInv, DeliveryTypeOK, Attempts, Deliveries
<1>7. GivenUpAfterBackoff'
  BY <1>1 DEF DeliveryInv, GivenUpAfterBackoff
<1> QED
  BY <1>5, <1>6, <1>7, SteadyKeeps DEF DeliveryInv

LEMMA QuietKeeps ==
    ASSUME DeliveryAssumption, DeliveryInv, NEW e \in Events,
           NEW d \in Deliveries, d.attempts = delivery[e].attempts,
           d.abandoned = delivery[e].abandoned,
           delivery' = [delivery EXCEPT ![e] = d],
           UNCHANGED <<reachable, att, wire, crashes>>
    PROVE  DeliveryInv'
<1>t. delivery \in [Events -> Deliveries]
  BY DEF DeliveryInv, DeliveryTypeOK, Deliveries
<1>1. /\ delivery' \in [Events -> Deliveries] /\ delivery'[e] = d
      /\ \A f \in Events : f # e => delivery'[f] = delivery[f]
  BY <1>t, OneDelivery
<1>2. Steady
  BY <1>1 DEF Steady, Attempting
<1>3. DeliveryTypeOK'
  BY <1>1 DEF DeliveryInv, DeliveryTypeOK, Deliveries
<1>4. GivenUpAfterBackoff'
  BY <1>1 DEF DeliveryInv, GivenUpAfterBackoff
<1> QED
  BY <1>2, <1>3, <1>4, SteadyKeeps DEF DeliveryInv

LEMMA AttKeeps ==
    ASSUME DeliveryAssumption, DeliveryInv, att' \in [Senders -> [Events -> Attempts]], Steady,
           UNCHANGED <<delivery, wire>>, crashes' \in 0..MaxCrashes,
           reachable' = reachable
    PROVE  DeliveryInv'
<1>1. DeliveryTypeOK'
  BY DEF DeliveryInv, DeliveryTypeOK, Attempts
<1>2. GivenUpAfterBackoff'
  BY DEF DeliveryInv, GivenUpAfterBackoff
<1> QED
  BY <1>1, <1>2, SteadyKeeps DEF DeliveryInv

LEMMA DeliveryPreserved ==
    ASSUME DeliveryAssumption, DeliveryInv, [DeliveryNext]_deliveryVars
    PROVE  DeliveryInv'
<1>t. /\ delivery \in [Events -> Deliveries] /\ att \in [Senders -> [Events -> Attempts]]
      /\ MaxAttempts \in Nat /\ crashes \in 0..MaxCrashes /\ MaxCrashes \in Nat
  BY DEF DeliveryInv, DeliveryTypeOK, DeliveryAssumption, Attempts, Deliveries
<1>i. Idle \in Attempts /\ Idle.pc = "idle"
  BY <1>t DEF Attempts, Idle, AttemptPCs
<1>1. ASSUME NEW e \in Events, Queue(e) PROVE DeliveryInv'
 <2> DEFINE d == [delivery[e] EXCEPT !.queued = TRUE, !.due = TRUE]
 <2>1. d \in Deliveries /\ d.attempts = delivery[e].attempts /\ d.abandoned = delivery[e].abandoned
   BY <1>t DEF Deliveries
 <2>2. delivery' = [delivery EXCEPT ![e] = d] /\ UNCHANGED <<reachable, att, wire, crashes>>
   BY <1>1 DEF Queue
 <2> HIDE DEF d
 <2> QED
   BY <2>1, <2>2, QuietKeeps
<1>2. ASSUME NEW e \in Events, Elapse(e) PROVE DeliveryInv'
 <2> DEFINE d == [delivery[e] EXCEPT !.due = TRUE]
 <2>1. d \in Deliveries /\ d.attempts = delivery[e].attempts /\ d.abandoned = delivery[e].abandoned
   BY <1>t DEF Deliveries
 <2>2. delivery' = [delivery EXCEPT ![e] = d] /\ UNCHANGED <<reachable, att, wire, crashes>>
   BY <1>2 DEF Elapse
 <2> HIDE DEF d
 <2> QED
   BY <2>1, <2>2, QuietKeeps
<1>3. CASE RemoveEndpoint
 <2>1. Steady
   BY <1>3 DEF RemoveEndpoint, Steady, Attempting
 <2>2. DeliveryTypeOK' /\ GivenUpAfterBackoff'
   BY <1>3 DEF RemoveEndpoint, DeliveryInv, DeliveryTypeOK, GivenUpAfterBackoff
 <2> QED
   BY <2>1, <2>2, SteadyKeeps DEF DeliveryInv
<1>4. ASSUME NEW s \in Senders, ListDue(s) PROVE DeliveryInv'
 <2> DEFINE w == [e \in Events |-> IF e \in Due THEN [pc |-> "claim", n |-> delivery[e].attempts] ELSE Idle]
 <2>1. att' = [att EXCEPT ![s] = w]
   BY <1>4 DEF ListDue
 <2>2. w \in [Events -> Attempts] /\ \A e \in Events : w[e].pc \in {"claim", "idle"}
   BY <1>t, <1>i DEF Attempts, AttemptPCs, Deliveries
 <2> HIDE DEF w
 <2>3. att' \in [Senders -> [Events -> Attempts]] /\ att'[s] = w
       /\ \A t \in Senders : t # s => att'[t] = att[t]
   BY <1>t, <2>1, <2>2
 <2>4. UNCHANGED <<reachable, delivery, wire, crashes>>
   BY <1>4 DEF ListDue
 <2>5. Steady
   BY <2>2, <2>3, <2>4 DEF Steady, Attempting
 <2> QED
   BY <2>3, <2>4, <2>5, <1>t, AttKeeps
<1>5. ASSUME NEW s \in Senders, SenderCrash(s) PROVE DeliveryInv'
 <2> DEFINE w == [e \in Events |-> Idle]
 <2>1. att' = [att EXCEPT ![s] = w]
   BY <1>5 DEF SenderCrash
 <2>2. w \in [Events -> Attempts] /\ \A e \in Events : w[e].pc = "idle"
   BY <1>i
 <2> HIDE DEF w
 <2>3. att' \in [Senders -> [Events -> Attempts]] /\ att'[s] = w
       /\ \A t \in Senders : t # s => att'[t] = att[t]
   BY <1>t, <2>1, <2>2
 <2>4. UNCHANGED <<reachable, delivery, wire>> /\ crashes' \in 0..MaxCrashes
   BY <1>5, <1>t DEF SenderCrash
 <2>5. Steady
   BY <2>2, <2>3, <2>4 DEF Steady, Attempting
 <2> QED
   BY <2>3, <2>4, <2>5, AttKeeps
<1>6. ASSUME NEW s \in Senders, NEW e \in Events, Send(s, e) PROVE DeliveryInv'
 <2> DEFINE a == [att[s][e] EXCEPT !.pc = "post"]
 <2>0. att[s][e] \in Attempts
   BY <1>t
 <2>1. a \in Attempts /\ a.pc = "post" /\ a.n = att[s][e].n
   BY <2>0 DEF Attempts, AttemptPCs
 <2>2. att' = [att EXCEPT ![s][e] = a] /\ att[s][e].pc = "send"
       /\ UNCHANGED <<reachable, delivery, wire, crashes>>
   BY <1>6 DEF Send, Step
 <2> HIDE DEF a
 <2>3. /\ att' \in [Senders -> [Events -> Attempts]] /\ att'[s][e] = a
       /\ \A t \in Senders, f \in Events : t # s \/ f # e => att'[t][f] = att[t][f]
   BY <1>t, <2>1, <2>2, OneAttempt
 <2>4. Steady
   BY <2>1, <2>2, <2>3 DEF Steady, Attempting
 <2> QED
   BY <2>2, <2>3, <2>4, <1>t, AttKeeps
<1>7. ASSUME NEW s \in Senders, NEW e \in Events, MarkDelivered(s, e) PROVE DeliveryInv'
 <2> DEFINE d == [delivery[e] EXCEPT !.delivered = TRUE]
 <2>1. d \in Deliveries /\ d.attempts = delivery[e].attempts /\ d.abandoned = delivery[e].abandoned
   BY <1>t DEF Deliveries
 <2>2. delivery' = [delivery EXCEPT ![e] = d] /\ Ends(s, e) /\ UNCHANGED <<reachable, wire, crashes>>
   BY <1>7 DEF MarkDelivered
 <2> HIDE DEF d
 <2>3. /\ d.abandoned = "exhausted" => d.attempts > Waits
       /\ d.abandoned = "removed" => ~reachable
   BY <2>1 DEF DeliveryInv, GivenUpAfterBackoff
 <2> QED
   BY <2>1, <2>2, <2>3, EndsKeeps
<1>8. ASSUME NEW s \in Senders, NEW e \in Events, MarkFailed(s, e) PROVE DeliveryInv'
 <2> DEFINE n == att[s][e].n
            d == IF HasWait(n) THEN [delivery[e] EXCEPT !.due = FALSE]
                 ELSE [delivery[e] EXCEPT !.abandoned = "exhausted"]
 <2>0. delivery[e] \in Deliveries /\ att[s][e] \in Attempts
   BY <1>t
 <2>1. /\ d \in Deliveries /\ d.attempts = delivery[e].attempts
       /\ HasWait(n) => d.abandoned = delivery[e].abandoned
       /\ ~HasWait(n) => d.abandoned = "exhausted"
   BY <2>0 DEF Deliveries
 <2>2. delivery' = [delivery EXCEPT ![e] = d] /\ Ends(s, e) /\ UNCHANGED <<reachable, wire, crashes>>
   BY <1>8 DEF MarkFailed
 <2> HIDE DEF d
 <2>3. n <= delivery[e].attempts /\ n \in Nat /\ delivery[e].attempts \in Nat /\ Waits \in Nat
   BY <1>8, <2>0 DEF MarkFailed, DeliveryInv, HoldsTaken, Attempting, Attempts, Deliveries, DeliveryAssumption
 <2>4. /\ d.abandoned = "exhausted" => d.attempts > Waits
       /\ d.abandoned = "removed" => ~reachable
  <3>1. CASE HasWait(n)
    BY <3>1, <2>1 DEF DeliveryInv, GivenUpAfterBackoff
  <3>2. CASE ~HasWait(n)
    BY <3>2, <2>1, <2>3 DEF HasWait
  <3> QED
    BY <3>1, <3>2
 <2> QED
   BY <2>1, <2>2, <2>4, EndsKeeps
<1>9. ASSUME NEW s \in Senders, NEW e \in Events, MarkRemoved(s, e) PROVE DeliveryInv'
 <2> DEFINE d == [delivery[e] EXCEPT !.abandoned = "removed"]
 <2>1. d \in Deliveries /\ d.attempts = delivery[e].attempts /\ d.abandoned = "removed"
   BY <1>t DEF Deliveries
 <2>2. delivery' = [delivery EXCEPT ![e] = d] /\ Ends(s, e) /\ UNCHANGED <<reachable, wire, crashes>>
       /\ ~reachable
   BY <1>9 DEF MarkRemoved
 <2> HIDE DEF d
 <2> QED
   BY <2>1, <2>2, EndsKeeps
<1>10. CASE UNCHANGED deliveryVars
 <2>1. Steady
   BY <1>10 DEF deliveryVars, Steady, Attempting
 <2> QED
   BY <2>1, <1>10, <1>t, AttKeeps DEF deliveryVars
<1> QED
  BY <1>1, <1>2, <1>3, <1>4, <1>5, <1>6, <1>7, <1>8, <1>9, <1>10, ClaimKeeps, PostKeeps DEF DeliveryNext, Attempt

LEMMA DeliveryRefused ==
    ASSUME DeliveryInv, [DeliveryNext]_deliveryVars, NEW e \in Events,
           delivery[e].queued, ~Unsettled(e)
    PROVE  delivery'[e].attempts = delivery[e].attempts
<1>t. delivery \in [Events -> Deliveries]
  BY DEF DeliveryInv, DeliveryTypeOK, Deliveries
<1>1. ASSUME NEW f \in Events, Queue(f) \/ Elapse(f) PROVE delivery'[e].attempts = delivery[e].attempts
  BY <1>1, <1>t DEF Queue, Elapse, Deliveries
<1>2. CASE RemoveEndpoint
  BY <1>2 DEF RemoveEndpoint
<1>3. ASSUME NEW s \in Senders, ListDue(s) \/ SenderCrash(s) PROVE delivery'[e].attempts = delivery[e].attempts
  BY <1>3 DEF ListDue, SenderCrash
<1>4. ASSUME NEW s \in Senders, NEW f \in Events, Claim(s, f) PROVE delivery'[e].attempts = delivery[e].attempts
 <2>1. CASE f = e
   BY <1>4, <2>1 DEF Claim, Claimable
 <2>2. CASE f # e
   BY <1>4, <1>t, <2>2 DEF Claim
 <2> QED
   BY <2>1, <2>2
<1>5. ASSUME NEW s \in Senders, NEW f \in Events, Send(s, f) \/ Post(s, f) PROVE delivery'[e].attempts = delivery[e].attempts
  BY <1>5 DEF Send, Post
<1>6. ASSUME NEW s \in Senders, NEW f \in Events, MarkDelivered(s, f) \/ MarkRemoved(s, f)
      PROVE  delivery'[e].attempts = delivery[e].attempts
  BY <1>6, <1>t DEF MarkDelivered, MarkRemoved, Deliveries
<1>7. ASSUME NEW s \in Senders, NEW f \in Events, MarkFailed(s, f) PROVE delivery'[e].attempts = delivery[e].attempts
  BY <1>7, <1>t DEF MarkFailed, Deliveries
<1>8. CASE UNCHANGED deliveryVars
  BY <1>8 DEF deliveryVars
<1> QED
  BY <1>1, <1>2, <1>3, <1>4, <1>5, <1>6, <1>7, <1>8 DEF DeliveryNext, Attempt

(* Attempts in flight at an event have taken different numbers, and what    *)
(* reached its receiver is no more than the attempts that were taken.       *)
THEOREM DeliveryIsSound == DeliveryAssumption => (DeliverySpec => []DeliveryInv)
<1> SUFFICES ASSUME DeliveryAssumption
             PROVE  DeliverySpec => []DeliveryInv
  OBVIOUS
<1>1. DeliveryInit => DeliveryInv
  BY DeliveryInitially
<1>2. DeliveryInv /\ [DeliveryNext]_deliveryVars => DeliveryInv'
  BY DeliveryPreserved
<1>3. QED
  BY <1>1, <1>2, PTL DEF DeliverySpec

LEMMA DeliverySound ==
    ASSUME DeliveryAssumption, DeliveryInv
    PROVE  DeliveryTypeOK /\ AttemptsAreNumbered /\ GivenUpAfterBackoff
<1>1. ASSUME NEW e \in Events PROVE wire[e] <= delivery[e].attempts
 <2>1. wire[e] + Cardinality(Unposted(e)) <= delivery[e].attempts
   BY DEF DeliveryInv, PostsCounted
 <2>2. Cardinality(Unposted(e)) \in Nat
   BY UnpostedFinite DEF DeliveryInv
 <2>3. wire[e] \in Nat /\ delivery[e].attempts \in Nat
   BY DEF DeliveryInv, DeliveryTypeOK, DeliveryAssumption
 <2> QED
   BY <2>1, <2>2, <2>3
<1> QED
  BY <1>1 DEF DeliveryInv, HoldsApart, AttemptsAreNumbered

(* Whatever processes read, stall and die: one change of an approval yields *)
(* one event and events only move forward; attempts at an event share no    *)
(* number, give up only after the whole backoff or without an endpoint, and *)
(* a finished delivery is not taken up again.                               *)
THEOREM WebhooksAreSafe ==
    WebhookAssumption /\ DeliveryAssumption => (SyncSpec /\ DeliverySpec => WebhooksSafe)
<1> SUFFICES ASSUME WebhookAssumption, DeliveryAssumption
             PROVE  SyncSpec /\ DeliverySpec => WebhooksSafe
  OBVIOUS
<1>1. SyncInv => SyncTypeOK /\ EventsFollowProgress
  BY SyncSound
<1>2. DeliveryInv => DeliveryTypeOK /\ AttemptsAreNumbered /\ GivenUpAfterBackoff
  BY DeliverySound
<1>3. DeliveryInv /\ [DeliveryNext]_deliveryVars =>
        [\A e \in Events : delivery[e].queued /\ ~Unsettled(e) =>
            delivery'[e].attempts = delivery[e].attempts]_deliveryVars
  BY DeliveryRefused
<1>4. QED
  BY <1>1, <1>2, <1>3, SyncIsSound, DeliveryIsSound, PTL
     DEF DeliverySpec, WebhooksSafe, FinishedStaysFinished
=============================================================================
