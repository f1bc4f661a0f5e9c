----------------------------- MODULE EgressGrant -----------------------------
(***************************************************************************)
(* One egress grant: minted and revoked by transactions whose answer may   *)
(* be lost, and checked on every proxied call through a cache that each    *)
(* API process keeps of its own.                                           *)
(***************************************************************************)
EXTENDS Integers, Sequences

CONSTANTS
    Processes, NoProcess,  \* API processes, each with its PrismaEgressGrantStore
    Calls,                 \* proxied calls in flight at once
    Revokes,               \* DELETE requests, each with its own attempt nonce
    LiveTtl, RevokedTtl,   \* 30 s and 1 s, in ticks
    ReadTime,              \* environment: longest way of a database answer
    MaxTime                \* bound: last tick of the clock

MintNonce == "mint"  \* the mint's place among the transactions in doubt

ASSUME GrantAssumption ==
    /\ NoProcess \notin Processes /\ MintNonce \notin Revokes
    /\ LiveTtl \in Nat \ {0} /\ RevokedTtl \in Nat /\ ReadTime \in Nat \ {0}
    /\ MaxTime \in Nat

VARIABLES
    now,
    grant,        \* the EgressGrant row, and when its revocation committed
    minted,       \* vault.grant_minted rows
    revokedBy,    \* the nonces of the vault.grant_revoked rows
    inDoubt,      \* nonces whose transaction may still commit; so may the mint's
    mint,         \* the POST that mints: [pc, proc, t]
    del,          \* the DELETE requests: [pc, proc]
    cache,        \* of each process: [held, live, until]
    fetch,        \* of each process, the pending read: [st, live, t]
    call,         \* proxied calls: the process asked, and made after told
    told,         \* a DELETE was answered { revoked: true }
    lastServed,   \* when a call was last let through
    servedLate    \* one made after told was let through

vars == <<now, grant, minted, revokedBy, inDoubt, mint, del, cache, fetch, call,
          told, lastServed, servedLate>>
database == <<grant, minted, revokedBy, inDoubt>>
serving == <<call, lastServed, servedLate>>

NoEntry == [held |-> FALSE, live |-> FALSE, until |-> 0]
NoFetch == [st |-> "none", live |-> FALSE, t |-> 0]
NoCall == [proc |-> NoProcess, late |-> FALSE]

MintPCs == {"new", "tx1", "check1", "tx2", "check2", "cache", "minted", "failed"}
DeletePCs == {"new", "lookup", "start", "before", "tx1", "check1", "tx2", "check2",
              "changed", "unchanged", "failed"}

TypeOK ==
    /\ now \in 0..MaxTime
    /\ grant \in [state : {"absent", "live", "revoked"}, at : Nat]
    /\ minted \in Nat
    /\ revokedBy \in Seq(Revokes)
    /\ inDoubt \in SUBSET (Revokes \union {MintNonce})
    /\ mint \in [pc : MintPCs, proc : Processes \union {NoProcess}, t : Nat]
    /\ del \in [Revokes -> [pc : DeletePCs, proc : Processes \union {NoProcess}]]
    /\ cache \in [Processes -> [held : BOOLEAN, live : BOOLEAN, until : Nat]]
    /\ fetch \in [Processes -> [st : {"none", "asked", "got"}, live : BOOLEAN, t : Nat]]
    /\ call \in [Calls -> [proc : Processes \union {NoProcess}, late : BOOLEAN]]
    /\ told \in BOOLEAN
    /\ lastServed \in Nat
    /\ servedLate \in BOOLEAN

Init ==
    /\ now = 0
    /\ grant = [state |-> "absent", at |-> 0]
    /\ minted = 0 /\ revokedBy = <<>> /\ inDoubt = {}
    /\ mint = [pc |-> "new", proc |-> NoProcess, t |-> 0]
    /\ del = [d \in Revokes |-> [pc |-> "new", proc |-> NoProcess]]
    /\ cache = [p \in Processes |-> NoEntry]
    /\ fetch = [p \in Processes |-> NoFetch]
    /\ call = [c \in Calls |-> NoCall]
    /\ told = FALSE /\ lastServed = 0 /\ servedLate = FALSE

Live == grant.state = "live"

-----------------------------------------------------------------------------
(* getById: a fresh entry answers at once; otherwise all who ask a process  *)
(* meanwhile share one read, whose answer is cached when it arrives.        *)

(* Mutated forms, named Operator_Fault, precede the operator they distort;
   nothing refers to them but the mutation runs of PROJECT.json. *)
Fresh_NoExpiry(p) == cache[p].held

Fresh(p) == cache[p].held /\ now < cache[p].until

Cached(live) ==
    [held |-> TRUE, live |-> live, until |-> now + (IF live THEN LiveTtl ELSE RevokedTtl)]

AskFor(p) ==
    fetch' = IF fetch[p].st = "none" THEN [fetch EXCEPT ![p] = [NoFetch EXCEPT !.st = "asked"]]
             ELSE fetch

DatabaseAnswers(p) ==
    /\ fetch[p].st = "asked"
    /\ fetch' = [fetch EXCEPT ![p] = [st |-> "got", live |-> Live, t |-> now]]
    /\ UNCHANGED <<now, database, mint, del, cache, serving, told>>

(* Everyone who waits on p goes on with what the read returned. *)
ReadReturns(p) ==
    /\ fetch[p].st = "got"
    /\ cache' = [cache EXCEPT ![p] = Cached(fetch[p].live)]
    /\ fetch' = [fetch EXCEPT ![p] = NoFetch]
    /\ LET waiting == {c \in Calls : call[c].proc = p}
       IN /\ call' = [c \in Calls |-> IF c \in waiting THEN NoCall ELSE call[c]]
          /\ IF fetch[p].live /\ waiting # {}
             THEN /\ lastServed' = now
                  /\ servedLate' = (servedLate \/ \E c \in waiting : call[c].late)
             ELSE UNCHANGED <<lastServed, servedLate>>
    /\ del' = [d \in Revokes |-> IF del[d] = [pc |-> "lookup", proc |-> p]
                                 THEN [del[d] EXCEPT !.pc = "start"] ELSE del[d]]
    /\ UNCHANGED <<now, database, mint, told>>

(* The second connection error in a row: 503 to the calls, 500 to a DELETE. *)
ReadFails(p) ==
    /\ fetch[p].st # "none"
    /\ fetch' = [fetch EXCEPT ![p] = NoFetch]
    /\ call' = [c \in Calls |-> IF call[c].proc = p THEN NoCall ELSE call[c]]
    /\ del' = [d \in Revokes |-> IF del[d] = [pc |-> "lookup", proc |-> p]
                                 THEN [del[d] EXCEPT !.pc = "failed"] ELSE del[d]]
    /\ UNCHANGED <<now, database, mint, cache, told, lastServed, servedLate>>

-----------------------------------------------------------------------------
(* A proxied call, with the token the mint answered.                        *)

CallFromCache(c, p) ==
    /\ mint.pc = "minted" /\ call[c] = NoCall /\ Fresh(p)
    /\ IF cache[p].live
       THEN lastServed' = now /\ servedLate' = (servedLate \/ told)
       ELSE UNCHANGED <<lastServed, servedLate>>
    /\ UNCHANGED <<now, database, mint, del, cache, fetch, call, told>>

CallWaits(c, p) ==
    /\ mint.pc = "minted" /\ call[c] = NoCall /\ ~Fresh(p)
    /\ call' = [call EXCEPT ![c] = [proc |-> p, late |-> told]]
    /\ AskFor(p)
    /\ UNCHANGED <<now, database, mint, del, cache, told, lastServed, servedLate>>

-----------------------------------------------------------------------------
(* POST /v1/egress/grants. The row and its audit row are one transaction;   *)
(* when its answer is lost the row is looked up, and the transaction tried  *)
(* once more if it is not there.                                            *)

CommitMint ==
    /\ grant' = [grant EXCEPT !.state = "live"]
    /\ minted' = minted + 1

MintStart(p) ==
    /\ mint.pc = "new"
    /\ mint' = [mint EXCEPT !.pc = "tx1", !.proc = p]
    /\ UNCHANGED <<now, database, del, cache, fetch, serving, told>>

Check_ThirdTry(try) == IF try = "tx1" THEN "check1" ELSE "check3"

Check(try) == IF try = "tx1" THEN "check1" ELSE "check2"

MintAnswered ==
    /\ mint.pc \in {"tx1", "tx2"} /\ grant.state = "absent"
    /\ CommitMint
    /\ mint' = [mint EXCEPT !.pc = "cache", !.t = now]
    /\ UNCHANGED <<now, revokedBy, inDoubt, del, cache, fetch, serving, told>>

(* A unique violation: the row of the first try, or that row revoked since. *)
MintDuplicate ==
    /\ mint.pc \in {"tx1", "tx2"} /\ grant.state # "absent"
    /\ mint' = IF Live THEN [mint EXCEPT !.pc = "cache", !.t = now]
               ELSE [mint EXCEPT !.pc = "failed"]
    /\ UNCHANGED <<now, database, del, cache, fetch, serving, told>>

(* The connection is lost, and the transaction committed, did not, or will. *)
MintLost ==
    /\ mint.pc \in {"tx1", "tx2"}
    /\ mint' = [mint EXCEPT !.pc = Check(mint.pc)]
    /\ \/ grant.state = "absent" /\ CommitMint /\ UNCHANGED inDoubt
       \/ UNCHANGED <<grant, minted, inDoubt>>
       \/ inDoubt' = inDoubt \union {MintNonce} /\ UNCHANGED <<grant, minted>>
    /\ UNCHANGED <<now, revokedBy, del, cache, fetch, serving, told>>

MintCommitsLate ==
    /\ MintNonce \in inDoubt
    /\ inDoubt' = inDoubt \ {MintNonce}
    /\ IF grant.state = "absent" THEN CommitMint ELSE UNCHANGED <<grant, minted>>
    /\ UNCHANGED <<now, revokedBy, mint, del, cache, fetch, serving, told>>

MintCheck_TrustsRetry ==
    /\ mint.pc \in {"check1", "check2"}
    /\ mint' = IF Live \/ mint.pc = "check2" THEN [mint EXCEPT !.pc = "cache", !.t = now]
               ELSE [mint EXCEPT !.pc = "tx2"]
    /\ UNCHANGED <<now, database, del, cache, fetch, serving, told>>

(* createWasCommitted: the row is there and still as it was minted. *)
MintCheck ==
    /\ mint.pc \in {"check1", "check2"}
    /\ mint' = IF Live THEN [mint EXCEPT !.pc = "cache", !.t = now]
               ELSE [mint EXCEPT !.pc = IF mint.pc = "check1" THEN "tx2" ELSE "failed"]
    /\ UNCHANGED <<now, database, del, cache, fetch, serving, told>>

(* Any other database error, or a second one while looking the row up. *)
MintFails ==
    /\ mint.pc \in {"tx1", "check1", "tx2", "check2"}
    /\ mint' = [mint EXCEPT !.pc = "failed"]
    /\ UNCHANGED <<now, database, del, cache, fetch, serving, told>>

MintCaches ==
    /\ mint.pc = "cache"
    /\ cache' = [cache EXCEPT ![mint.proc] = Cached(TRUE)]
    /\ mint' = [mint EXCEPT !.pc = "minted"]
    /\ UNCHANGED <<now, database, del, fetch, serving, told>>

-----------------------------------------------------------------------------
(* DELETE /v1/egress/grants/:id, of a grant its account can list.           *)

DeleteStart(d, p) ==
    /\ del[d].pc = "new" /\ grant.state # "absent"
    /\ del' = [del EXCEPT ![d] = [pc |-> IF Fresh(p) THEN "start" ELSE "lookup", proc |-> p]]
    /\ IF Fresh(p) THEN UNCHANGED fetch ELSE AskFor(p)
    /\ UNCHANGED <<now, database, mint, cache, serving, told>>

(* revokeWithAudit forgets the grant first, then reads the row. *)
DeleteForgets(d) ==
    /\ del[d].pc = "start"
    /\ cache' = [cache EXCEPT ![del[d].proc] = NoEntry]
    /\ del' = [del EXCEPT ![d].pc = "before"]
    /\ UNCHANGED <<now, database, mint, fetch, serving, told>>

(* Both outcomes are answered 200 { revoked: true }. *)
Answer(d, pc) ==
    /\ del' = [del EXCEPT ![d].pc = pc]
    /\ told' = TRUE

DeleteReads(d) ==
    /\ del[d].pc = "before"
    /\ IF Live THEN del' = [del EXCEPT ![d].pc = "tx1"] /\ UNCHANGED told
               ELSE Answer(d, "unchanged")
    /\ UNCHANGED <<now, database, mint, cache, fetch, serving>>

(* The update is conditional on revoked_at being null; no count, no audit.  *)
CommitRevoke(d) ==
    IF Live THEN /\ grant' = [state |-> "revoked", at |-> now]
                 /\ revokedBy' = Append(revokedBy, d)
    ELSE UNCHANGED <<grant, revokedBy>>

DeleteAnswered(d) ==
    /\ del[d].pc \in {"tx1", "tx2"}
    /\ CommitRevoke(d)
    /\ Answer(d, IF Live THEN "changed" ELSE "unchanged")
    /\ UNCHANGED <<now, minted, inDoubt, mint, cache, fetch, serving>>

DeleteLost(d) ==
    /\ del[d].pc \in {"tx1", "tx2"}
    /\ del' = [del EXCEPT ![d].pc = Check(del[d].pc)]
    /\ \/ CommitRevoke(d) /\ UNCHANGED inDoubt
       \/ UNCHANGED <<grant, revokedBy, inDoubt>>
       \/ inDoubt' = inDoubt \union {d} /\ UNCHANGED <<grant, revokedBy>>
    /\ UNCHANGED <<now, minted, mint, cache, fetch, serving, told>>

DeleteCommitsLate(d) ==
    /\ d \in inDoubt
    /\ inDoubt' = inDoubt \ {d}
    /\ CommitRevoke(d)
    /\ UNCHANGED <<now, minted, mint, del, cache, fetch, serving, told>>

WasCommitted_AnyNonce(d) == revokedBy # <<>>

(* revokeWasCommitted: the audit row must carry this attempt's nonce. *)
WasCommitted(d) == \E i \in 1..Len(revokedBy) : revokedBy[i] = d

DeleteChecks_GivesUpQuietly(d) ==
    /\ del[d].pc \in {"check1", "check2"}
    /\ IF ~Live THEN Answer(d, IF WasCommitted(d) THEN "changed" ELSE "unchanged")
       ELSE IF del[d].pc = "check1"
            THEN del' = [del EXCEPT ![d].pc = "tx2"] /\ UNCHANGED told
            ELSE Answer(d, "unchanged")
    /\ UNCHANGED <<now, database, mint, cache, fetch, serving>>

DeleteChecks(d) ==
    /\ del[d].pc \in {"check1", "check2"}
    /\ IF ~Live THEN Answer(d, IF WasCommitted(d) THEN "changed" ELSE "unchanged")
       ELSE /\ del' = [del EXCEPT ![d].pc = IF @ = "check1" THEN "tx2" ELSE "failed"]
            /\ UNCHANGED told
    /\ UNCHANGED <<now, database, mint, cache, fetch, serving>>

(* Any other database error, or a second one while reading back. *)
DeleteFails(d) ==
    /\ del[d].pc \in {"before", "tx1", "check1", "tx2", "check2"}
    /\ del' = [del EXCEPT ![d].pc = "failed"]
    /\ UNCHANGED <<now, database, mint, cache, fetch, serving, told>>

-----------------------------------------------------------------------------
(* A process restarts: its memory and the requests it was serving are gone. *)
Restart(p) ==
    /\ cache' = [cache EXCEPT ![p] = NoEntry]
    /\ fetch' = [fetch EXCEPT ![p] = NoFetch]
    /\ call' = [c \in Calls |-> IF call[c].proc = p THEN NoCall ELSE call[c]]
    /\ mint' = IF mint.proc = p /\ mint.pc # "minted" THEN [mint EXCEPT !.pc = "failed"]
               ELSE mint
    /\ del' = [d \in Revokes |->
                 IF del[d].proc = p /\ del[d].pc \notin {"changed", "unchanged"}
                 THEN [del[d] EXCEPT !.pc = "failed"] ELSE del[d]]
    /\ UNCHANGED <<now, database, told, lastServed, servedLate>>

(* A database answer reaches its process within ReadTime. *)
Tick ==
    /\ now < MaxTime
    /\ \A p \in Processes : fetch[p].st = "got" => now < fetch[p].t + ReadTime
    /\ mint.pc = "cache" => now < mint.t + ReadTime
    /\ now' = now + 1
    /\ UNCHANGED <<database, mint, del, cache, fetch, serving, told>>

Serve(p) ==
    \/ DatabaseAnswers(p) \/ ReadReturns(p) \/ ReadFails(p)
    \/ \E c \in Calls : CallFromCache(c, p) \/ CallWaits(c, p)

Mint ==
    \/ \E p \in Processes : MintStart(p)
    \/ MintAnswered \/ MintDuplicate \/ MintLost \/ MintCommitsLate \/ MintCheck
    \/ MintFails \/ MintCaches

Delete(d) ==
    \/ \E p \in Processes : DeleteStart(d, p)
    \/ DeleteForgets(d) \/ DeleteReads(d) \/ DeleteAnswered(d) \/ DeleteLost(d)
    \/ DeleteCommitsLate(d) \/ DeleteChecks(d) \/ DeleteFails(d)

Next ==
    \/ \E p \in Processes : Serve(p) \/ Restart(p)
    \/ Mint
    \/ \E d \in Revokes : Delete(d)
    \/ Tick

Spec == Init /\ [][Next]_vars

-----------------------------------------------------------------------------
(* Whoever was answered 201 holds the token of a grant that exists and was  *)
(* audited exactly once, whatever was lost or committed late on the way.    *)
MintedIsAudited == mint.pc = "minted" => grant.state # "absent" /\ minted = 1

(* { revoked: true } is never answered while the row is live.               *)
ToldIsRevoked == told => grant.state = "revoked"

(* One revocation is audited, and only the request that made it reports and *)
(* notifies it, however many race, retry or commit late.                    *)
RevokedOnce ==
    /\ Len(revokedBy) <= 1
    /\ \A d \in Revokes : del[d].pc = "changed" => revokedBy = <<d>>

(* A revoked grant lets no call through once every cached or travelling     *)
(* answer from before the revocation must have expired, in any process.     *)
StaleServiceIsBounded ==
    grant.state = "revoked" => lastServed < grant.at + ReadTime + LiveTtl

-----------------------------------------------------------------------------
(* egress-grant.ts:39: revoked_at set is an "instant kill". A call made     *)
(* after the DELETE was answered would then never be let through.           *)
RevokedIsDead == ~servedLate
=============================================================================
