--------------------------- MODULE RetrievalLimit ---------------------------
(***************************************************************************)
(* The ceiling on plaintext retrievals of an account: every path that      *)
(* returns a secret counts the account's retrieval events of the last      *)
(* hour, and records its own at the end.                                   *)
(***************************************************************************)
EXTENDS Integers, FiniteSets

CONSTANTS
    Readers,   \* retrievals in flight at once
    Ceiling,   \* RATE_LIMIT_MAX
    Window,    \* an hour, in ticks
    LastTick   \* bound: last tick of the clock

LimitAssumption ==
    /\ IsFiniteSet(Readers)
    /\ Ceiling \in Nat \ {0} /\ Window \in Nat \ {0} /\ LastTick \in Nat

VARIABLES
    clock,
    events,    \* retrieval events in the audit log
    reader     \* the retrievals

limitVars == <<clock, events, reader>>

ReaderPCs == {"idle", "refuse", "decrypt", "record"}
Ticks == 0 .. LastTick
RefusalsPerTick == Ceiling + Cardinality(Readers)

(* An event: when it was emitted, whether a secret was returned, and its    *)
(* number among those it shares both with.                                  *)
LimitTypeOK ==
    /\ clock \in Ticks
    /\ events \subseteq [at : Ticks, ok : BOOLEAN, n : Nat]
    /\ reader \in [Readers -> ReaderPCs]

LimitInit ==
    /\ clock = 0
    /\ events = {}
    /\ reader = [r \in Readers |-> "idle"]

Recent(t) == {e \in events : t - Window <= e.at /\ e.at <= t}
ServedBy(t) == {e \in Recent(t) : e.ok}
Alike(t, ok) == {e \in events : e.at = t /\ e.ok = ok}
RecordEvent(ok) ==
    events' = events \cup {[at |-> clock, ok |-> ok, n |-> Cardinality(Alike(clock, ok)) + 1]}

(* Mutated forms, named Operator_Fault, precede the operator they distort;
   nothing refers to them but the mutation runs of PROJECT.json. *)
Allowed_OneMore(t) == Cardinality(Recent(t)) <= Ceiling

Allowed(t) == Cardinality(Recent(t)) < Ceiling

(* A refusal is an event like any other (bounded here per tick).            *)
CountEvents(r) ==
    /\ reader[r] = "idle"
    /\ reader' = [reader EXCEPT ![r] = IF Allowed(clock) THEN "decrypt" ELSE "refuse"]
    /\ UNCHANGED <<clock, events>>

RecordRefusal(r) ==
    /\ reader[r] = "refuse"
    /\ IF Cardinality(Alike(clock, FALSE)) < RefusalsPerTick THEN RecordEvent(FALSE)
       ELSE UNCHANGED events
    /\ reader' = [reader EXCEPT ![r] = "idle"]
    /\ UNCHANGED clock

(* The envelope may not open, which records nothing, or the credential has  *)
(* no approved field left, which records a refusal.                         *)
Decrypt(r) ==
    /\ reader[r] = "decrypt"
    /\ \E pc \in {"idle", "refuse", "record"} : reader' = [reader EXCEPT ![r] = pc]
    /\ UNCHANGED <<clock, events>>

RecordServed(r) ==
    /\ reader[r] = "record"
    /\ RecordEvent(TRUE)
    /\ reader' = [reader EXCEPT ![r] = "idle"]
    /\ UNCHANGED clock

Crash(r) ==
    /\ reader[r] # "idle"
    /\ reader' = [reader EXCEPT ![r] = "idle"]
    /\ UNCHANGED <<clock, events>>

TimePasses ==
    /\ clock < LastTick
    /\ clock' = clock + 1
    /\ UNCHANGED <<events, reader>>

LimitNext ==
    \/ \E r \in Readers :
           CountEvents(r) \/ RecordRefusal(r) \/ Decrypt(r) \/ RecordServed(r) \/ Crash(r)
    \/ TimePasses

LimitSpec == LimitInit /\ [][LimitNext]_limitVars

-----------------------------------------------------------------------------
(* Retrievals that pass the count together exceed the ceiling by no more    *)
(* than their number less one, in any hour.                                 *)
OvershootIsBounded ==
    \A t \in Ticks : Cardinality(ServedBy(t)) <= Ceiling + Cardinality(Readers) - 1

RetrievalsBounded == LimitTypeOK /\ OvershootIsBounded

(* docs/VAULT-OPERATIONS.md: all paths "share one per-account ceiling of    *)
(* 100 retrievals per rolling hour".                                        *)
CeilingHolds == \A t \in Ticks : Cardinality(ServedBy(t)) <= Ceiling
=============================================================================
