---------------------------- MODULE SkillRegistry ----------------------------
(***************************************************************************)
(* The learned skills of one service: apps/registry/src/routes/skills.ts    *)
(* and admin.ts over prisma-skill-store.ts.  Promoters publish, routers     *)
(* report replays, the verifier reports outcomes and operators approve,     *)
(* reactivate, demote and delete, each from a process of its own.           *)
(*                                                                          *)
(* The database is external: read committed, a lock on every row a          *)
(* transaction wrote, a WHERE checked again once the lock is granted, and   *)
(* the partial unique index of one live active row per service.  Of two     *)
(* transactions that wait for each other it aborts one.                     *)
(***************************************************************************)
EXTENDS Naturals, FiniteSets

CONSTANTS
    Skills,     \* skill ids
    Clients,    \* requests that may run at once
    Entry,      \* [Skills -> protected entry point: signup_url, oauth_provider]
    Strikes,    \* DEMOTION_THRESHOLD, VERIFIER_FAILURE_THRESHOLD
    MaxCalls,   \* bound: requests
    Retires,    \* whether verification may fail often enough to retire a skill
    Replays     \* whether routers report replays

RegistryConstants ==
    /\ {MaxCalls, Strikes} \subseteq Nat /\ {Retires, Replays} \subseteq BOOLEAN
    /\ DOMAIN Entry = Skills

VARIABLES
    rows,   \* [skill -> committed row]
    tx,     \* [client -> the request in progress]
    draft,  \* [client -> [skill -> what its transaction wrote, or nothing]]
    calls,  \* requests made
    ghost   \* what went wrong, and who wrote last

registryVars == <<rows, tx, draft, calls, ghost>>

SkillStatuses == {"none", "pending-review", "active", "demoted", "superseded", "quarantined"}
Blank == [st |-> "none", deleted |-> FALSE, sup |-> FALSE, proven |-> FALSE, due |-> FALSE,
          vf |-> 0, rf |-> 0]
Nothing == [Blank EXCEPT !.st = "unwritten"]
Ops == {"publish", "approve", "reactivate", "verify"}
Idle == [pc |-> "idle", op |-> "none", s |-> "none", as |-> "none", saw |-> {}, scan |-> {}]

SkillRows == [st : SkillStatuses, deleted : BOOLEAN, sup : BOOLEAN, proven : BOOLEAN,
              due : BOOLEAN, vf : 0..Strikes, rf : 0..Strikes]
Requested == [pc : {"idle", "gate", "read", "scan", "collapse", "decide", "activate"},
              op : Ops \cup {"none", "fail", "replay", "demote", "delete"},
              s : Skills \cup {"none"}, as : {"none", "active", "pending-review"},
              saw : SUBSET Skills, scan : SUBSET Skills]

RegistryTypeOK ==
    /\ rows \in [Skills -> SkillRows] /\ tx \in [Clients -> Requested]
    /\ draft \in [Clients -> [Skills -> SkillRows \cup {Nothing}]]
    /\ ghost \in [lied : BOOLEAN, blip : BOOLEAN, sent : SUBSET Skills, by : Requested]
    /\ \A s \in Skills : /\ rows[s].st = "superseded" => rows[s].sup
                         /\ Cardinality({c \in Clients : draft[c][s] # Nothing}) <= 1
    /\ \A c \in Clients : tx[c].s \notin tx[c].scan
    /\ calls \in 0..MaxCalls

RegistryInit ==
    /\ rows = [s \in Skills |-> Blank]
    /\ tx = [c \in Clients |-> Idle]
    /\ draft = [c \in Clients |-> [s \in Skills |-> Nothing]]
    /\ calls = 0
    /\ ghost = [lied |-> FALSE, blip |-> FALSE, sent |-> {}, by |-> Idle]

-----------------------------------------------------------------------------
Served(rec) == rec.st = "active" /\ ~rec.deleted
Proceed(c, pc) == tx' = [tx EXCEPT ![c].pc = pc]
View(c, s) == IF draft[c][s] # Nothing THEN draft[c][s] ELSE rows[s]
Free(c, s) == \A d \in Clients \ {c} : draft[d][s] = Nothing
Writes(c, s, rec) == draft' = [draft EXCEPT ![c][s] = rec]

(* Commit, with a last write; abort.                                         *)
Finishes(c) ==
    /\ tx' = [tx EXCEPT ![c] = Idle]
    /\ draft' = [draft EXCEPT ![c] = [s \in Skills |-> Nothing]]
Commit(c, s, rec) ==
    /\ rows' = [t \in Skills |-> IF t = s THEN rec ELSE View(c, t)]
    /\ Finishes(c) /\ ghost' = [ghost EXCEPT !.by = tx[c]]
    /\ UNCHANGED calls
Abort(c) == Finishes(c) /\ UNCHANGED <<rows, calls, ghost>>

(* A request that is one transaction on one row.                             *)
Single(s, op, rec, seen) ==
    /\ calls < MaxCalls /\ calls' = calls + 1
    /\ rows[s].st # "none" /\ \A c \in Clients : draft[c][s] = Nothing
    /\ rows' = [rows EXCEPT ![s] = rec]
    /\ ghost' = [seen EXCEPT !.by = [Idle EXCEPT !.op = op, !.s = s]]
    /\ UNCHANGED <<tx, draft>>

-----------------------------------------------------------------------------
(* Mutated forms, named Operator_Fault, precede the operator they distort;   *)
(* nothing refers to them but the mutation runs of PROJECT.json.             *)

Begin(c, op, s, as) ==
    /\ calls < MaxCalls /\ calls' = calls + 1
    /\ tx[c].pc = "idle" /\ (op = "publish" \/ rows[s].st # "none")
    /\ tx' = [tx EXCEPT ![c] = [Idle EXCEPT !.op = op, !.s = s, !.as = as,
                 !.pc = CASE op = "publish" -> IF as = "active" THEN "gate" ELSE "activate"
                          [] op = "verify" -> "decide" [] OTHER -> "read"]]
    /\ UNCHANGED <<rows, draft, ghost>>

Live == {s \in Skills : Served(rows[s])}

(* triggersHumanReview, against the active skill committed by now.           *)
Protected(s) == \E t \in Skills \ {s} : Served(rows[t]) /\ Entry[t] # Entry[s]

(* insert, before its transaction.                                           *)
Gate(c) ==
    /\ tx[c].pc = "gate"
    /\ tx' = [tx EXCEPT ![c].saw = Live,
                        ![c].as = IF Protected(tx[c].s) THEN "pending-review" ELSE @,
                        ![c].pc = IF Protected(tx[c].s) THEN "activate" ELSE "scan"]
    /\ UNCHANGED <<rows, draft, calls, ghost>>

(* approveReview and reactivate look at the row without locking it.          *)
Read(c) ==
    LET st == rows[tx[c].s].st
    IN /\ tx[c].pc = "read"
       /\ IF st = "none" \/ (tx[c].op = "approve" /\ st # "pending-review")
                         \/ (tx[c].op = "reactivate" /\ st = "active")
          THEN Abort(c)
          ELSE Proceed(c, "scan") /\ UNCHANGED <<rows, draft, calls, ghost>>

(* recordVerifierOutcome on a success, up to the promotion.                  *)
Decide(c) ==
    LET s == tx[c].s
        proved == [View(c, s) EXCEPT !.proven = TRUE, !.vf = 0]
    IN /\ tx[c].pc = "decide" /\ Free(c, s)
       /\ CASE proved.st = "none" -> Abort(c)
            [] proved.st = "active" -> Commit(c, s, [proved EXCEPT !.due = TRUE])
            [] proved.st = "pending-review" /\ Protected(s) ->
                  Commit(c, s, [proved EXCEPT !.st = "superseded", !.sup = TRUE])
            [] proved.st = "pending-review" /\ ~Protected(s) ->
                  /\ Writes(c, s, proved)
                  /\ tx' = [tx EXCEPT ![c].saw = Live, ![c].pc = "scan"]
                  /\ UNCHANGED <<rows, calls, ghost>>
            [] OTHER -> Commit(c, s, proved)

(* STALE_ON_ACTIVATE_STATUSES; a publication replaces a served row only.     *)
Stale(c, rec) ==
    IF tx[c].op = "publish" THEN Served(rec)
    ELSE rec.st \in {"active", "demoted", "pending-review"}

(* The updateMany: its snapshot, then a lock and a second look at each row.  *)
Scan(c) ==
    /\ tx[c].pc = "scan"
    /\ tx' = [tx EXCEPT ![c].pc = "collapse",
                        ![c].scan = {t \in Skills \ {tx[c].s} : Stale(c, rows[t])}]
    /\ UNCHANGED <<rows, draft, calls, ghost>>

Collapses(c, t, rec) == Writes(c, t, rec) /\ UNCHANGED <<rows, calls, ghost>>
Collapse(c) ==
    /\ tx[c].pc = "collapse"
    /\ \/ \E t \in tx[c].scan :
             /\ Free(c, t)
             /\ tx' = [tx EXCEPT ![c].scan = @ \ {t}]
             /\ IF Stale(c, rows[t])
                THEN Collapses(c, t, [rows[t] EXCEPT !.st = "superseded", !.sup = TRUE])
                ELSE UNCHANGED <<rows, draft, calls, ghost>>
       \/ /\ tx[c].scan = {} /\ Proceed(c, "activate")
          /\ UNCHANGED <<rows, draft, calls, ghost>>

(* The row as the last statement of the transaction writes it.               *)
Activated(c) ==
    LET rec == View(c, tx[c].s)
    IN CASE tx[c].op = "publish" -> [Blank EXCEPT !.st = tx[c].as]
         [] tx[c].op = "approve" -> [rec EXCEPT !.st = "active"]
         [] tx[c].op = "reactivate" ->
               [rec EXCEPT !.st = "active", !.rf = 0, !.vf = 0, !.due = TRUE]
         [] tx[c].op = "verify" -> [rec EXCEPT !.st = "active", !.due = TRUE]

(* The unique index: another live active row, ours not counted; an           *)
(* uncommitted one is waited for.                                            *)
Undecided(c) ==
    Served(Activated(c)) /\ \E t \in Skills \ {tx[c].s} :
        ~Free(c, t) /\ (Served(rows[t]) \/ \E d \in Clients : Served(draft[d][t]))
Taken_NoIndex(c) == FALSE
Taken(c) ==
    Served(Activated(c)) /\ \E t \in Skills \ {tx[c].s} : Served(View(c, t))

(* The statement fails on the index, on a row that is gone, or, for a        *)
(* publication, on an id that is taken; the route answers any of its         *)
(* conflicts with the row of that id.                                        *)
Activate(c) ==
    LET s == tx[c].s
        exists == rows[s].st # "none"
        publishes == tx[c].op = "publish"
    IN /\ tx[c].pc = "activate" /\ Free(c, s) /\ ~Undecided(c)
       /\ IF Taken(c) \/ exists = publishes
          THEN /\ Finishes(c) /\ ghost' = [ghost EXCEPT !.lied = @ \/ (publishes /\ ~exists)]
               /\ UNCHANGED <<rows, calls>>
          ELSE Commit(c, s, Activated(c))

(* The database aborts one of two transactions that wait for each other.     *)
Waits(c, d) ==
    \/ tx[c].pc = "collapse" /\ tx[c].scan # {} /\ \A t \in tx[c].scan : draft[d][t] # Nothing
    \/ tx[c].pc = "activate" /\ (draft[d][tx[c].s] # Nothing \/
          (Undecided(c) /\ \E t \in Skills : draft[d][t] # Nothing))
Deadlock(c) == (\E d \in Clients \ {c} : Waits(c, d) /\ Waits(d, c)) /\ Abort(c)

-----------------------------------------------------------------------------
(* recordVerifierOutcome on a failure: a wall sends the skill to a human; the *)
(* third rot in a row retires a pending skill and downgrades an active one.  *)
VerifierFails(s, kind) ==
    LET rec == rows[s]
        strike == [rec EXCEPT !.vf = IF kind = "rot" /\ @ < Strikes THEN @ + 1 ELSE @]
        out == kind = "rot" /\ strike.vf >= Strikes
    IN /\ kind = "rot" => Retires \/ rec.st = "active"
       /\ Single(s, "fail",
            CASE kind = "wall" /\ rec.st \in {"active", "pending-review"} ->
                    [rec EXCEPT !.st = "quarantined", !.due = FALSE]
              [] out /\ rec.st = "pending-review" -> [strike EXCEPT !.deleted = TRUE]
              [] out /\ rec.st = "active" ->
                    [strike EXCEPT !.st = "pending-review", !.vf = 0, !.due = FALSE]
              [] OTHER -> strike,
            IF out /\ rec.st = "active" THEN [ghost EXCEPT !.sent = @ \cup {s}] ELSE ghost)

(* recordReplayOutcome: a success clears the count, rot adds to it, any      *)
(* other failure leaves it; the threshold is looked at after every outcome.  *)
Replay(s, kind) ==
    LET rec == [rows[s] EXCEPT !.rf = IF kind = "ok" THEN 0
                                      ELSE IF kind = "rot" /\ @ < Strikes THEN @ + 1 ELSE @]
        demoted == rec.rf >= Strikes /\ rec.st = "active"
    IN /\ Replays
       /\ Single(s, "replay", [rec EXCEPT !.st = IF demoted THEN "demoted" ELSE @],
                 [ghost EXCEPT !.blip = @ \/ (demoted /\ kind # "rot")])

(* manuallyDemote, deleteSkill.                                              *)
Demote(s) == Single(s, "demote", [rows[s] EXCEPT !.st = "demoted"], ghost)
Delete(s) == Single(s, "delete", Blank, ghost)

Step(c) ==
    Gate(c) \/ Read(c) \/ Decide(c) \/ Scan(c) \/ Collapse(c) \/ Activate(c) \/ Deadlock(c)

RegistryNext ==
    \/ \E c \in Clients : Step(c)
    \/ \E c \in Clients, s \in Skills :
          \/ \E as \in {"active", "pending-review"} : Begin(c, "publish", s, as)
          \/ \E op \in Ops \ {"publish"} : Begin(c, op, s, "active")
    \/ \E s \in Skills :
          \/ \E kind \in {"rot", "wall", "blip"} : VerifierFails(s, kind)
          \/ \E kind \in {"ok", "rot", "blip"} : Replay(s, kind)
          \/ Demote(s) \/ Delete(s)

RegistrySpec == RegistryInit /\ [][RegistryNext]_registryVars

-----------------------------------------------------------------------------
(* listVerifierQueue, once every date set has passed.                        *)
Queued(s) ==
    LET rec == rows[s]
    IN /\ ~rec.deleted /\ ~rec.sup
       /\ \/ /\ rec.st = "pending-review" /\ ~rec.proven
             /\ \A t \in Skills : ~(Served(rows[t]) /\ ~rows[t].sup)
          \/ rec.st = "active" /\ (rec.due \/ ~rec.proven)

(* An operator's request for this very skill wrote last.                     *)
ByOperator(s) ==
    ghost'.by.op \in {"approve", "reactivate", "demote", "delete"} /\ ghost'.by.s = s

(* The service never has two live active skills, whatever publishes,         *)
(* promotes and approves at once.                                            *)
OneActive == Cardinality({s \in Skills : Served(rows[s])}) <= 1

(* A skill with another sign-up page or login never takes the place of an    *)
(* active one unless an operator put it there, or the request that did was   *)
(* judged before that one was active.                                        *)
ReplacedByReview ==
    [][\A s, t \in Skills :
          Served(rows[s]) /\ Served(rows'[t]) /\ s # t /\ Entry[s] # Entry[t] =>
              ByOperator(t) \/ s \notin ghost'.by.saw]_registryVars

(* A skill that hit a wall waits for an operator: no publication or          *)
(* promotion of another skill, however interleaved, moves it.                *)
QuarantineIsOperators ==
    [][\A s \in Skills :
          rows[s].st = "quarantined" /\ rows'[s].st # "quarantined" => ByOperator(s)]_registryVars

(* A served skill is superseded only in the step that activates another.     *)
SupersededHasSuccessor ==
    [][\A s \in Skills : Served(rows[s]) /\ rows'[s].st = "superseded" =>
          \E t \in Skills : rows'[t].st = "active"]_registryVars

(* A service has one active skill, only an operator lifts a quarantine, what *)
(* is superseded has a successor, and a skill with another entry point       *)
(* replaces the active one it was judged against only after a review.        *)
SkillsSafe ==
    /\ [](RegistryTypeOK /\ OneActive)
    /\ QuarantineIsOperators /\ SupersededHasSuccessor /\ ReplacedByReview

(* ... and the other is one the service can serve.                           *)
SuccessorIsServed ==
    [][\A s \in Skills : Served(rows[s]) /\ rows'[s].st = "superseded" =>
          \E t \in Skills : Served(rows'[t])]_registryVars

(* A downgraded skill is proved again: as long as it waits for that and      *)
(* nothing covers its service, the verifier is told of it.                   *)
DowngradedIsQueued ==
    \A s \in ghost.sent :
        rows[s].st = "pending-review" /\ ~rows[s].deleted /\ Live = {} => Queued(s)

(* The verifier is told of an active skill once its date has passed.         *)
ScheduledIsSwept == \A s \in Skills : Served(rows[s]) /\ rows[s].due => Queued(s)

(* A publication that is told that its skill exists finds it.                *)
ConflictIsIdempotent == ~ghost.lied

(* "Everything else means the skill is fine and must not demote it."         *)
OnlyRotDemotes == ~ghost.blip
=============================================================================
