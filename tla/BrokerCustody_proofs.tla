------------------------- MODULE BrokerCustody_proofs -------------------------
(***************************************************************************)
(* Theorems about the broker's custody of its Chrome, BrokerCustody, for   *)
(* any number of calls, Chromes, crashes and closes: a recycle takes the   *)
(* Chrome from nobody; a live Chrome is owned and nothing opens in a drain, *)
(* up to the Chrome that follows an unproven close.  And about one launch,  *)
(* BrowserProcess, on any host, with any number of forced closes and       *)
(* failures: a Chrome told to be closed is gone.  And about one session of *)
(* an operator, OperatorSession, with any number of commands, finishes,    *)
(* shares and viewers: its commands run one at a time, its tabs close when *)
(* none runs, and in its share the human and the agent take turns.         *)
(***************************************************************************)
EXTENDS BrokerCustody, BrowserProcess, OperatorSession, FiniteSetTheorems, SequenceTheorems, TLAPS

(* While a recycle is under way no start has, awaits or is given a Chrome. *)
RecyclesAlone ==
    recycling => sessions = {} /\ \A k \in Calls : at[k].pc \notin {"wait", "attach", "admit"}

(* A launch has somebody who awaits it; before its Chrome exists nothing is *)
(* owned, afterwards it is what is owned; and no close of it began but its  *)
(* own after a failure.                                                     *)
LaunchSound ==
    /\ launch.c # None => handle = None /\ \E k \in Calls : at[k].pc = "wait"
    /\ launch.c = None => handle = owner
    /\ launch.stage = "mkdir" => owner = None /\ chromes[launch.c] = "unmade"
    /\ launch.stage = "start" => owner = launch.c /\ closed[launch.c] = "no"
    /\ launch.stage = "fail" => owner = launch.c /\ launch.closes = launch.c

(* What is being closed is what is owned, and somebody awaits the promise. *)
CloseSound ==
    /\ \A c \in Chromes :
          /\ closed[c] # "unknown"
          /\ closed[c] = "closing" => owner = c /\ (Waiting(c) # {} \/ FailsOn(c))
          /\ chromes[c] = "unmade" => closed[c] = "no" /\ owner # c
    /\ \A a \in Actors : at[a].pc # "force"

(* A drain began when nobody held a tab, and hands out none. *)
DrainSound == closing => \A k \in Calls : at[k].pc # "attach"

(* While no close has ended unproven. *)
Owned == \A c \in Chromes : chromes[c] = "up" => owner = c
Proven == LaunchSound /\ CloseSound /\ DrainSound /\ Owned
Doubtful == \E c \in Chromes : closed[c] = "unknown"

(* And always: Chromes are made in order, what is closed or owned was made,  *)
(* and tabs are of a Chrome.                                                *)
MadeSo ==
    /\ \A c, d \in Chromes : c < d /\ chromes[c] = "unmade" => chromes[d] = "unmade"
    /\ \A c \in Chromes : chromes[c] = "unmade" => closed[c] = "no" /\ owner # c
    /\ launch.stage = "mkdir" =>
          chromes[launch.c] = "unmade" /\ \A d \in Chromes : d < launch.c => chromes[d] # "unmade"
    /\ \A a \in Actors :
          /\ at[a].pc \in {"close", "force"} => at[a].tgt \in Chromes /\ chromes[at[a].tgt] # "unmade"
          /\ at[a].pc = "attach" => at[a].tgt \in Chromes

(* A close that ended unproven leaves no live Chrome but those launched later. *)
Quiet(d) == \A c \in Chromes : c <= d => chromes[c] # "up" /\ ~(launch.stage = "start" /\ launch.c = c)
Quieted == Doubtful => \E d \in Chromes : closed[d] = "unknown" /\ Quiet(d)

CustodyInv == CustodyTypeOK /\ RecyclesAlone /\ MadeSo /\ Quieted /\ (~Doubtful => Proven)

-----------------------------------------------------------------------------
(* Types, and what the steps make of the actors. *)

Refs == {None} \cup Chromes
AtStates == [pc : CustodyPCs, why : Kinds, tgt : Refs, prior : BOOLEAN]

Others(a) == \A b \in Actors : b # a => at'[b] = at[b]

LEMMA HereType ==
    ASSUME NEW pc \in CustodyPCs, NEW t \in Refs
    PROVE  Here(pc, t) \in AtStates /\ Here(pc, t).pc = pc /\ Here(pc, t).tgt = t
BY DEF Here, AtStates, Kinds

LEMMA PutType ==
    ASSUME CustodyTypeOK, NEW a \in Actors, NEW x \in AtStates, at' = [at EXCEPT ![a] = x]
    PROVE  at' \in [Actors -> AtStates] /\ at'[a] = x /\ Others(a)
BY DEF CustodyTypeOK, AtStates, Others, Refs

LEMMA GoesType ==
    ASSUME CustodyTypeOK, NEW a \in Actors, NEW pc \in CustodyPCs, Goes(a, pc)
    PROVE  /\ at' \in [Actors -> AtStates] /\ Others(a)
           /\ at'[a].pc = pc /\ at'[a].tgt = at[a].tgt /\ at'[a].why = at[a].why
<1>1. at \in [Actors -> AtStates]
  BY DEF CustodyTypeOK, AtStates, Refs
<1>2. at' = [at EXCEPT ![a] = [at[a] EXCEPT !.pc = pc]]
  BY <1>1 DEF Goes
<1>3. [at[a] EXCEPT !.pc = pc] \in AtStates
  BY <1>1 DEF AtStates
<1>4. at' \in [Actors -> AtStates] /\ at'[a] = [at[a] EXCEPT !.pc = pc] /\ Others(a)
  BY <1>1, <1>2, <1>3 DEF Others
<1>5. QED
  BY <1>1, <1>4 DEF AtStates

LEMMA AfterProofType ==
    ASSUME NEW kind \in Kinds
    PROVE  /\ AfterProof(kind) \in {"bind", "admit", "over"}
           /\ AfterProof(kind) = "admit" => kind = "recycle"
BY DEF AfterProof, Kinds

LEMMA ClosesOwnerType ==
    ASSUME CustodyTypeOK, NEW a \in Actors, NEW kind \in Kinds, NEW p \in BOOLEAN,
           ClosesOwner(a, kind, p)
    PROVE  /\ at' \in [Actors -> AtStates] /\ Others(a)
           /\ at'[a].why = kind /\ at'[a].tgt = owner
           /\ closed' \in [Chromes -> {"no", "closing", "closed", "unknown"}]
           /\ handle' \in Refs
           /\ owner = None => at'[a].pc = AfterProof(kind) /\ closed' = closed /\ handle' = None
           /\ owner # None => at'[a].pc \in {"close", "force"} /\ handle' = handle
           /\ owner # None /\ closed[owner] # "unknown" =>
                at'[a].pc = "close" /\ closed' = [closed EXCEPT ![owner] = "closing"]
<1> DEFINE pc == IF owner = None THEN AfterProof(kind)
                 ELSE IF Promise = "unknown" THEN "force" ELSE "close"
           x == [pc |-> pc, why |-> kind, tgt |-> owner, prior |-> p]
<1>1. owner \in Refs /\ handle \in Refs
      /\ closed \in [Chromes -> {"no", "closing", "closed", "unknown"}]
  BY DEF CustodyTypeOK, Refs
<1>2. pc \in CustodyPCs
  BY AfterProofType DEF CustodyPCs
<1>3. x \in AtStates /\ x.pc = pc /\ x.why = kind /\ x.tgt = owner
  BY <1>1, <1>2 DEF AtStates
<1>4. at' = [at EXCEPT ![a] = x]
  BY DEF ClosesOwner
<1>5. at' \in [Actors -> AtStates] /\ at'[a] = x /\ Others(a)
  BY <1>3, <1>4, PutType
<1>6. closed' = IF pc = "close" THEN [closed EXCEPT ![owner] = "closing"] ELSE closed
  BY DEF ClosesOwner
<1>7. handle' = IF owner = None THEN None ELSE handle
  BY DEF ClosesOwner
<1>8. closed' \in [Chromes -> {"no", "closing", "closed", "unknown"}]
  BY <1>1, <1>6
<1>9. pc = "close" => owner # None
  BY AfterProofType
<1>10. owner # None => pc = IF closed[owner] = "unknown" THEN "force" ELSE "close"
  BY DEF Promise
<1>11. owner = None => pc = AfterProof(kind)
  OBVIOUS
<1> HIDE DEF pc
<1>12. QED
  BY <1>1, <1>3, <1>5, <1>6, <1>7, <1>8, <1>9, <1>10, <1>11 DEF Refs

LEMMA SettlesType ==
    ASSUME CustodyTypeOK, NEW c \in Chromes, NEW pc \in [Kinds -> CustodyPCs \ {"wait"}], Settles(c, pc)
    PROVE  /\ at' \in [Actors -> AtStates]
           /\ \A b \in Actors :
                /\ b \in Waiting(c) => at'[b].pc = pc[at[b].why] /\ at'[b].tgt = c
                /\ at[b].pc = "wait" => IF FailsOn(c) THEN at'[b].pc = "failed"
                                                      ELSE at'[b] = at[b]
                /\ b \notin Waiting(c) /\ at[b].pc # "wait" => at'[b] = at[b]
<1>1. at \in [Actors -> AtStates]
  BY DEF CustodyTypeOK, AtStates, Refs
<1>2. at' = [a \in Actors |->
               IF a \in Waiting(c) THEN [at[a] EXCEPT !.pc = pc[at[a].why]]
               ELSE IF at[a].pc = "wait" /\ FailsOn(c) THEN Here("failed", None) ELSE at[a]]
  BY DEF Settles
<1>3. Here("failed", None) \in AtStates /\ Here("failed", None).pc = "failed"
  BY HereType DEF CustodyPCs, Refs
<1>4. ASSUME NEW b \in Actors
      PROVE  /\ at'[b] \in AtStates
             /\ b \in Waiting(c) => at'[b].pc = pc[at[b].why] /\ at'[b].tgt = c
             /\ at[b].pc = "wait" => IF FailsOn(c) THEN at'[b].pc = "failed"
                                                   ELSE at'[b] = at[b]
             /\ b \notin Waiting(c) /\ at[b].pc # "wait" => at'[b] = at[b]
 <2>1. CASE b \in Waiting(c)
  <3>1. at'[b] = [at[b] EXCEPT !.pc = pc[at[b].why]] /\ at[b].pc = "close" /\ at[b].tgt = c
    BY <1>2, <1>4, <2>1 DEF Waiting
  <3>2. pc[at[b].why] \in CustodyPCs /\ at[b] \in AtStates
    BY <1>1, <1>4 DEF AtStates
  <3>3. QED
    BY <2>1, <3>1, <3>2 DEF AtStates
 <2>2. CASE b \notin Waiting(c)
   BY <1>1, <1>2, <1>3, <1>4, <2>2
 <2>3. QED
   BY <2>1, <2>2
<1>5. QED
  BY <1>2, <1>4

LEMMA ResumeType ==
    ASSUME CustodyTypeOK, NEW pc \in CustodyPCs, NEW t \in Refs, Resume(pc, t)
    PROVE  /\ at' \in [Actors -> AtStates]
           /\ \A b \in Actors :
                IF at[b].pc = "wait" THEN at'[b].pc = pc /\ at'[b].tgt = t ELSE at'[b] = at[b]
<1>1. at \in [Actors -> AtStates]
  BY DEF CustodyTypeOK, AtStates, Refs
<1>2. Here(pc, t) \in AtStates /\ Here(pc, t).pc = pc /\ Here(pc, t).tgt = t
  BY HereType
<1>3. at' = [a \in Actors |-> IF at[a].pc = "wait" THEN Here(pc, t) ELSE at[a]]
  BY DEF Resume
<1>4. QED
  BY <1>1, <1>2, <1>3

-----------------------------------------------------------------------------
(* Type correctness. *)

LEMMA InitType == CustodyAssumption /\ CustodyInit => CustodyTypeOK
<1> SUFFICES ASSUME CustodyAssumption, CustodyInit PROVE CustodyTypeOK
  OBVIOUS
<1>1. Here("idle", None) \in AtStates /\ Here("idle", None).pc = "idle"
  BY HereType DEF CustodyPCs, Refs
<1>2. at \in [Actors -> AtStates] /\ \A a \in Actors : at[a].pc = "idle"
  BY <1>1 DEF CustodyInit
<1>3. at \in [Actors -> [pc : CustodyPCs, why : Kinds, tgt : {None} \cup Chromes, prior : BOOLEAN]]
  BY <1>2 DEF AtStates, Refs
<1>4. crashes \in 0..MaxCrashes
  BY DEF CustodyInit, CustodyAssumption
<1>5. launch \in [c : {None} \cup Chromes, stage : {"none", "mkdir", "start", "fail"},
                 closes : {None} \cup Chromes]
      /\ launch.c = None /\ launch.stage = "none"
  BY DEF CustodyInit, NoLaunch
<1>6. /\ owner = None /\ handle = None /\ closing = FALSE /\ recycling = FALSE /\ sessions = {}
      /\ proxyOf = [c \in Chromes |-> None] /\ chromes = [c \in Chromes |-> "unmade"]
      /\ closed = [c \in Chromes |-> "no"]
  BY DEF CustodyInit
<1>7. QED
  BY <1>2, <1>3, <1>4, <1>5, <1>6 DEF CustodyTypeOK

LEMMA AtTyped == CustodyTypeOK => at \in [Actors -> AtStates]
BY DEF CustodyTypeOK, AtStates, Refs

(* Steps that move one actor, and none into waiting for a launch. *)
LEMMA OneMoves ==
    ASSUME CustodyTypeOK, NEW a \in Actors, at' \in [Actors -> AtStates], Others(a),
           at'[a].pc = "wait" => a \in Calls /\ launch'.c # None,
           at[a].pc # "wait" \/ at'[a].pc = "wait" \/ launch' = launch,
           launch' = launch \/ launch.c = None
    PROVE  \A b \in Actors : at'[b].pc = "wait" => b \in Calls /\ launch'.c # None
BY DEF Others, CustodyTypeOK

LEMMA CallType ==
    ASSUME CustodyAssumption, CustodyTypeOK, NEW k \in Calls, Calling(k) \/ DrainedMeanwhile(k)
    PROVE  CustodyTypeOK'
<1> USE DEF CustodyAssumption
<1>0. k \in Actors /\ at \in [Actors -> AtStates]
  BY AtTyped DEF Actors
<1>1. CASE Refused(k) \/ Acquires(k) \/ Conflicts(k) \/ DrainedMeanwhile(k) \/ AttachFails(k)
           \/ CleanupEnds(k) \/ Await(k)
 <2>1. PICK pc \in CustodyPCs : Goes(k, pc) /\ (pc = "wait" => launch.c # None)
   BY <1>1 DEF Refused, Acquires, Conflicts, DrainedMeanwhile, AttachFails, CleanupEnds, Await, CustodyPCs
 <2>2. at' \in [Actors -> AtStates] /\ Others(k) /\ at'[k].pc = pc
   BY <1>0, <2>1, GoesType
 <2>3. UNCHANGED <<owner, handle, launch, proxyOf, chromes, closed, closing, recycling, sessions,
                   crashes>>
   BY <1>1 DEF Refused, Acquires, Conflicts, DrainedMeanwhile, AttachFails, CleanupEnds, Await
 <2>4. \A b \in Actors : at'[b].pc = "wait" => b \in Calls /\ launch'.c # None
   BY <1>0, <2>1, <2>2, <2>3, OneMoves
 <2>5. QED
   BY <2>2, <2>3, <2>4 DEF CustodyTypeOK, AtStates, Refs
<1>2. CASE AcquireLost(k) \/ Recycle(k)
 <2>1. PICK kind \in Kinds : ClosesOwner(k, kind, FALSE)
   BY <1>2 DEF AcquireLost, Recycle, Kinds
 <2>2. /\ at' \in [Actors -> AtStates] /\ Others(k) /\ handle' \in Refs
       /\ closed' \in [Chromes -> {"no", "closing", "closed", "unknown"}]
       /\ at'[k].pc # "wait"
   BY <1>0, <2>1, ClosesOwnerType, AfterProofType
 <2>3. /\ UNCHANGED <<owner, launch, proxyOf, chromes, closing, crashes>>
       /\ recycling' \in BOOLEAN /\ sessions' \subseteq Calls
   BY <1>2 DEF AcquireLost, Recycle, CustodyTypeOK
 <2>4. \A b \in Actors : at'[b].pc = "wait" => b \in Calls /\ launch'.c # None
   BY <1>0, <2>2, <2>3, OneMoves
 <2>5. QED
   BY <2>2, <2>3, <2>4 DEF CustodyTypeOK, AtStates, Refs
<1>3. CASE Join(k)
 <2>1. PICK pc \in {"failed", "attach"} : at' = [at EXCEPT ![k] = Here(pc, handle)]
   BY <1>3 DEF Join
 <2>2. Here(pc, handle) \in AtStates /\ Here(pc, handle).pc = pc
   BY HereType DEF CustodyTypeOK, Refs, CustodyPCs
 <2>3. at' \in [Actors -> AtStates] /\ Others(k) /\ at'[k].pc = pc
   BY <1>0, <2>1, <2>2, PutType
 <2>4. UNCHANGED <<owner, handle, launch, proxyOf, chromes, closed, closing, recycling, sessions,
                   crashes>>
   BY <1>3 DEF Join
 <2>5. \A b \in Actors : at'[b].pc = "wait" => b \in Calls /\ launch'.c # None
   BY <1>0, <2>3, <2>4, OneMoves
 <2>6. QED
   BY <2>3, <2>4, <2>5 DEF CustodyTypeOK, AtStates, Refs
<1>4. CASE LaunchChrome(k)
 <2>1. PICK c \in Chromes : /\ launch' = [c |-> c, stage |-> "mkdir", closes |-> None]
                            /\ proxyOf' = [proxyOf EXCEPT ![c] = Wants[k]]
   BY <1>4 DEF LaunchChrome
 <2>2. at' \in [Actors -> AtStates] /\ Others(k) /\ at'[k].pc = "wait"
   BY <1>0, <1>4, GoesType DEF LaunchChrome, CustodyPCs
 <2>3. c # None /\ launch.c = None
   BY <1>4 DEF LaunchChrome, Chromes, None
 <2>4. \A b \in Actors : at'[b].pc = "wait" => b \in Calls /\ launch'.c # None
   BY <1>0, <2>1, <2>2, <2>3, OneMoves
 <2>5. proxyOf' \in [Chromes -> Proxies \cup {None}]
   BY <2>1 DEF CustodyTypeOK, Proxies
 <2>6. UNCHANGED <<owner, handle, chromes, closed, closing, recycling, sessions, crashes>>
   BY <1>4 DEF LaunchChrome
 <2>7. QED
   BY <2>1, <2>2, <2>3, <2>4, <2>5, <2>6 DEF CustodyTypeOK, AtStates, Refs
<1>5. CASE Attach(k) \/ ReleaseTabs(k)
 <2>1. at' \in [Actors -> AtStates] /\ Others(k) /\ at'[k].pc # "wait"
   BY <1>0, <1>5, GoesType DEF Attach, ReleaseTabs, CustodyPCs
 <2>2. sessions' \subseteq Calls
   BY <1>5 DEF Attach, ReleaseTabs, CustodyTypeOK
 <2>3. UNCHANGED <<owner, handle, launch, proxyOf, chromes, closed, closing, recycling, crashes>>
   BY <1>5 DEF Attach, ReleaseTabs
 <2>4. \A b \in Actors : at'[b].pc = "wait" => b \in Calls /\ launch'.c # None
   BY <1>0, <2>1, <2>3, OneMoves
 <2>5. QED
   BY <2>1, <2>2, <2>3, <2>4 DEF CustodyTypeOK, AtStates, Refs
<1>6. CASE ReleaseUncertain(k)
  BY <1>6 DEF ReleaseUncertain, CustodyTypeOK
<1>7. QED
  BY <1>1, <1>2, <1>3, <1>4, <1>5, <1>6 DEF Calling

LEMMA CloserType ==
    ASSUME CustodyAssumption, CustodyTypeOK, NEW a \in Actors,
           CloseStarts(a) \/ ForceProves(a) \/ ForceUnproven(a) \/ (a = Daemon /\ Exit)
    PROVE  CustodyTypeOK'
<1>0. at \in [Actors -> AtStates]
  BY AtTyped
<1>1. CASE CloseStarts(a)
 <2>1. ClosesOwner(a, "end", closing) /\ closing \in BOOLEAN
   BY <1>1 DEF CloseStarts, CustodyTypeOK
 <2>2. /\ at' \in [Actors -> AtStates] /\ Others(a) /\ handle' \in Refs
       /\ closed' \in [Chromes -> {"no", "closing", "closed", "unknown"}]
       /\ at'[a].pc # "wait"
   BY <2>1, ClosesOwnerType, AfterProofType DEF Kinds
 <2>3. closing' = TRUE /\ UNCHANGED <<owner, launch, proxyOf, chromes, recycling, sessions, crashes>>
   BY <1>1 DEF CloseStarts
 <2>4. \A b \in Actors : at'[b].pc = "wait" => b \in Calls /\ launch'.c # None
   BY <2>2, <2>3, OneMoves
 <2>5. QED
   BY <2>2, <2>3, <2>4 DEF CustodyTypeOK, AtStates, Refs
<1>2. CASE ForceProves(a) \/ ForceUnproven(a) \/ (a = Daemon /\ Exit)
 <2>1. PICK pc \in CustodyPCs : Goes(a, pc) /\ pc # "wait"
  <3>1. at[a].why \in Kinds
    BY <1>0 DEF AtStates
  <3>2. AfterProof(at[a].why) \in {"bind", "admit", "over"}
    BY <3>1, AfterProofType
  <3>3. QED
    BY <1>2, <3>2 DEF ForceProves, ForceUnproven, Exit, CustodyPCs
 <2>2. at' \in [Actors -> AtStates] /\ Others(a) /\ at'[a].pc = pc
   BY <2>1, GoesType
 <2>3. /\ UNCHANGED <<launch, proxyOf, closed, sessions, crashes>>
       /\ owner' \in Refs /\ handle' \in Refs
       /\ chromes' \in [Chromes -> {"unmade", "starting", "up", "lost", "gone"}]
       /\ recycling' \in BOOLEAN /\ closing' \in BOOLEAN
   BY <1>0, <1>2 DEF ForceProves, ForceUnproven, Exit, Restored, CustodyTypeOK, Refs, AtStates
 <2>4. \A b \in Actors : at'[b].pc = "wait" => b \in Calls /\ launch'.c # None
   BY <2>1, <2>2, <2>3, OneMoves
 <2>5. QED
   BY <2>2, <2>3, <2>4 DEF CustodyTypeOK, AtStates, Refs
<1>3. QED
  BY <1>1, <1>2

LEMMA LaunchType == ASSUME CustodyTypeOK, Launching PROVE CustodyTypeOK'
<1>0. at \in [Actors -> AtStates] /\ launch.c \in Refs
  BY AtTyped DEF CustodyTypeOK, Refs
<1>1. CASE LaunchOwner
  BY <1>1 DEF LaunchOwner, CustodyTypeOK
<1>2. CASE LaunchUp
 <2>1. PICK pc \in {"failed", "attach"} : Resume(pc, launch.c)
   BY <1>2 DEF LaunchUp
 <2>2. at' \in [Actors -> AtStates] /\ \A b \in Actors : at'[b].pc # "wait"
   BY <1>0, <2>1, ResumeType DEF CustodyPCs
 <2>3. QED
   BY <1>0, <1>2, <2>2 DEF LaunchUp, CustodyTypeOK, NoLaunch, AtStates, Refs
<1>3. CASE LaunchFails /\ (owner = None \/ Promise = "unknown")
 <2>1. Resume("failed", None) /\ launch' = NoLaunch
   BY <1>3 DEF LaunchFails
 <2>2. at' \in [Actors -> AtStates] /\ \A b \in Actors : at'[b].pc # "wait"
   BY <1>0, <2>1, ResumeType DEF CustodyPCs, Refs
 <2>3. QED
   BY <1>3, <2>1, <2>2 DEF LaunchFails, CustodyTypeOK, NoLaunch, AtStates, Refs
<1>4. CASE LaunchFails /\ ~(owner = None \/ Promise = "unknown")
  BY <1>4 DEF LaunchFails, CustodyTypeOK
<1>5. QED
  BY <1>1, <1>2, <1>3, <1>4 DEF Launching

LEMMA BrowserType ==
    ASSUME CustodyAssumption, CustodyTypeOK, NEW c \in Chromes,
           CloseProves(c) \/ CloseUnproven(c) \/ Disconnects(c) \/ ChromeCrashes(c)
    PROVE  CustodyTypeOK'
<1>1. CASE CloseProves(c) \/ CloseUnproven(c)
 <2>1. PICK pc \in [Kinds -> CustodyPCs \ {"wait"}] : Settles(c, pc)
  <3>1. [kind \in Kinds |-> AfterProof(kind)] \in [Kinds -> CustodyPCs \ {"wait"}]
    BY AfterProofType DEF CustodyPCs
  <3>2. [kind \in Kinds |-> "force"] \in [Kinds -> CustodyPCs \ {"wait"}]
    BY DEF CustodyPCs
  <3>3. QED
    BY <1>1, <3>1, <3>2 DEF CloseProves, CloseUnproven
 <2>2. /\ at' \in [Actors -> AtStates]
       /\ \A b \in Actors : at'[b].pc = "wait" => at[b].pc = "wait" /\ ~FailsOn(c)
  <3>1. \A b \in Actors : b \in Waiting(c) => at'[b].pc # "wait"
   <4>1. at \in [Actors -> AtStates]
     BY AtTyped
   <4>2. QED
     BY <2>1, <4>1, SettlesType DEF AtStates
  <3>2. QED
    BY <2>1, <3>1, SettlesType
 <2>3. launch' = IF FailsOn(c) THEN NoLaunch ELSE launch
   BY <1>1 DEF CloseProves, CloseUnproven
 <2>4. \A b \in Actors : at'[b].pc = "wait" => b \in Calls /\ launch'.c # None
   BY <2>2, <2>3 DEF CustodyTypeOK
 <2>5. /\ UNCHANGED <<proxyOf, sessions, crashes>>
       /\ owner' \in Refs /\ handle' \in Refs
       /\ chromes' \in [Chromes -> {"unmade", "starting", "up", "lost", "gone"}]
       /\ closed' \in [Chromes -> {"no", "closing", "closed", "unknown"}]
       /\ recycling' \in BOOLEAN /\ closing' \in BOOLEAN
   BY <1>1 DEF CloseProves, CloseUnproven, CustodyTypeOK, Refs
 <2>6. QED
   BY <2>2, <2>3, <2>4, <2>5 DEF CustodyTypeOK, AtStates, Refs, NoLaunch
<1>2. CASE Disconnects(c) \/ ChromeCrashes(c)
  BY <1>2 DEF Disconnects, ChromeCrashes, CustodyTypeOK, CustodyAssumption
<1>3. QED
  BY <1>1, <1>2

LEMMA TypeNext == CustodyAssumption /\ CustodyTypeOK /\ [CustodyNext]_custodyVars => CustodyTypeOK'
<1> SUFFICES ASSUME CustodyAssumption, CustodyTypeOK, [CustodyNext]_custodyVars PROVE CustodyTypeOK'
  OBVIOUS
<1>1. ASSUME NEW k \in Calls, Calling(k) \/ DrainedMeanwhile(k) PROVE CustodyTypeOK'
  BY <1>1, CallType
<1>2. ASSUME NEW a \in Actors, CloseStarts(a) \/ ForceProves(a) \/ ForceUnproven(a) PROVE CustodyTypeOK'
  BY <1>2, CloserType
<1>3. ASSUME Launching \/ Exit PROVE CustodyTypeOK'
  BY <1>3, LaunchType, CloserType DEF Actors
<1>4. ASSUME NEW c \in Chromes, CloseProves(c) \/ CloseUnproven(c) \/ Disconnects(c) \/ ChromeCrashes(c)
      PROVE  CustodyTypeOK'
  BY <1>4, BrowserType
<1>5. CASE UNCHANGED custodyVars
  BY <1>5 DEF custodyVars, CustodyTypeOK
<1>6. QED
  BY <1>1, <1>2, <1>3, <1>4, <1>5 DEF CustodyNext

-----------------------------------------------------------------------------
(* A recycle is alone. *)

LEMMA AloneCall ==
    ASSUME CustodyTypeOK, RecyclesAlone, NEW k \in Calls, Turn(k),
           Calling(k) \/ DrainedMeanwhile(k)
    PROVE  RecyclesAlone'
<1> SUFFICES ASSUME recycling'
             PROVE  sessions' = {} /\ \A j \in Calls : at'[j].pc \notin {"wait", "attach", "admit"}
  BY DEF RecyclesAlone
<1>0. k \in Actors /\ \A j \in Calls : j \in Actors
  BY DEF Actors
<1>1. CASE Refused(k) \/ Acquires(k) \/ Conflicts(k) \/ DrainedMeanwhile(k) \/ AttachFails(k)
           \/ CleanupEnds(k)
 <2>1. PICK pc \in {"failed", "bind", "over"} : Goes(k, pc)
   BY <1>1 DEF Refused, Acquires, Conflicts, DrainedMeanwhile, AttachFails, CleanupEnds
 <2>2. at'[k].pc = pc /\ Others(k)
   BY <1>0, <2>1, GoesType DEF CustodyPCs
 <2>3. recycling /\ sessions' = sessions
   BY <1>1 DEF Refused, Acquires, Conflicts, DrainedMeanwhile, AttachFails, CleanupEnds
 <2>4. QED
   BY <1>0, <2>1, <2>2, <2>3 DEF RecyclesAlone, Others
<1>2. CASE AcquireLost(k)
 <2>1. ClosesOwner(k, "lost", FALSE) /\ sessions' = {} /\ recycling
   BY <1>2 DEF AcquireLost
 <2>2. Others(k) /\ at'[k].pc \in {"bind", "over", "close", "force"}
   BY <1>0, <2>1, ClosesOwnerType DEF AfterProof, Kinds
 <2>3. QED
   BY <1>0, <2>1, <2>2 DEF RecyclesAlone, Others
<1>3. CASE Recycle(k)
 <2>1. /\ ClosesOwner(k, "recycle", FALSE) /\ owner # None /\ sessions' = {}
       /\ \A j \in Calls : at[j].pc \notin {"wait", "attach"}
   BY <1>3 DEF Recycle, MayRecycle, Siblings, Pending
 <2>2. Others(k) /\ at'[k].pc \in {"close", "force"}
   BY <1>0, <2>1, ClosesOwnerType DEF Kinds
 <2>3. QED
   BY <1>0, <2>1, <2>2 DEF Turn, Others
<1>4. ~(Join(k) \/ Await(k) \/ LaunchChrome(k) \/ Attach(k) \/ ReleaseTabs(k))
  BY DEF Join, Await, LaunchChrome, Admits, Attach, ReleaseTabs, RecyclesAlone
<1>5. CASE ReleaseUncertain(k)
  BY <1>5 DEF ReleaseUncertain, RecyclesAlone
<1>6. QED
  BY <1>1, <1>2, <1>3, <1>4, <1>5 DEF Calling

LEMMA AloneClose ==
    ASSUME CustodyTypeOK, RecyclesAlone, NEW a \in Actors,
           CloseStarts(a) \/ ForceProves(a) \/ ForceUnproven(a) \/ (a = Daemon /\ Exit)
    PROVE  RecyclesAlone'
<1> SUFFICES ASSUME recycling'
             PROVE  sessions' = {} /\ \A j \in Calls : at'[j].pc \notin {"wait", "attach", "admit"}
  BY DEF RecyclesAlone
<1>0. at \in [Actors -> AtStates] /\ \A j \in Calls : j \in Actors
  BY AtTyped DEF Actors
<1>1. recycling /\ sessions' = sessions
  BY DEF CloseStarts, ForceProves, ForceUnproven, Exit
<1>2. Others(a) /\ at'[a].pc \notin {"wait", "attach", "admit"}
 <2>1. CASE CloseStarts(a)
  <3>1. ClosesOwner(a, "end", closing) /\ closing \in BOOLEAN
    BY <2>1 DEF CloseStarts, CustodyTypeOK
  <3>2. QED
    BY <3>1, ClosesOwnerType DEF AfterProof, Kinds
 <2>2. CASE ForceProves(a)
  <3>1. Goes(a, AfterProof(at[a].why)) /\ at[a].why \in Kinds /\ at[a].why # "recycle"
    BY <1>0, <2>2 DEF ForceProves, AtStates
  <3>2. AfterProof(at[a].why) \in {"bind", "over"}
    BY <3>1, AfterProofType
  <3>3. QED
    BY <3>1, <3>2, GoesType DEF CustodyPCs
 <2>3. CASE ForceUnproven(a) \/ (a = Daemon /\ Exit)
  <3>1. PICK pc \in {"failed", "idle", "over", "exited"} : Goes(a, pc)
    BY <2>3 DEF ForceUnproven, Exit
  <3>2. QED
    BY <3>1, GoesType DEF CustodyPCs
 <2>4. QED
   BY <2>1, <2>2, <2>3
<1>3. QED
  BY <1>0, <1>1, <1>2 DEF RecyclesAlone, Others

LEMMA AloneLaunch == ASSUME CustodyTypeOK, RecyclesAlone, Launching PROVE RecyclesAlone'
<1> SUFFICES ASSUME recycling'
             PROVE  sessions' = {} /\ \A j \in Calls : at'[j].pc \notin {"wait", "attach", "admit"}
  BY DEF RecyclesAlone
<1>1. recycling /\ sessions' = sessions
  BY DEF Launching, LaunchOwner, LaunchUp, LaunchFails
<1>2. ASSUME NEW j \in Calls PROVE at'[j] = at[j]
 <2>1. j \in Actors /\ at[j].pc # "wait"
   BY <1>1, <1>2 DEF Actors, RecyclesAlone
 <2>2. at' = at \/ \E pc \in CustodyPCs, t \in Refs : Resume(pc, t)
   BY DEF Launching, LaunchOwner, LaunchUp, LaunchFails, CustodyPCs, Refs, CustodyTypeOK
 <2>3. QED
   BY <2>1, <2>2, ResumeType
<1>3. QED
  BY <1>1, <1>2 DEF RecyclesAlone

LEMMA AloneBrowser ==
    ASSUME CustodyTypeOK, RecyclesAlone, NEW c \in Chromes,
           CloseProves(c) \/ CloseUnproven(c) \/ Disconnects(c) \/ ChromeCrashes(c)
    PROVE  RecyclesAlone'
<1> SUFFICES ASSUME recycling'
             PROVE  sessions' = {} /\ \A j \in Calls : at'[j].pc \notin {"wait", "attach", "admit"}
  BY DEF RecyclesAlone
<1>0. at \in [Actors -> AtStates] /\ \A j \in Calls : j \in Actors
  BY AtTyped DEF Actors
<1>1. recycling /\ sessions' = sessions
  BY DEF CloseProves, CloseUnproven, Disconnects, ChromeCrashes
<1>2. \A j \in Calls : at[j].pc \notin {"wait", "attach", "admit"}
  BY <1>1 DEF RecyclesAlone
<1>3. CASE CloseProves(c)
 <2>1. Settles(c, [kind \in Kinds |-> AfterProof(kind)])
       /\ \A a \in Waiting(c) : at[a].why # "recycle"
   BY <1>3 DEF CloseProves
 <2>2. [kind \in Kinds |-> AfterProof(kind)] \in [Kinds -> CustodyPCs \ {"wait"}]
   BY AfterProofType DEF CustodyPCs
 <2>3. ASSUME NEW j \in Calls, j \in Waiting(c) PROVE at'[j].pc \in {"bind", "over"}
  <3>1. at[j].why \in Kinds /\ at[j].why # "recycle"
    BY <1>0, <2>1, <2>3 DEF AtStates
  <3>2. at'[j].pc = AfterProof(at[j].why)
    BY <1>0, <2>1, <2>2, <2>3, <3>1, SettlesType
  <3>3. QED
    BY <3>1, <3>2, AfterProofType
 <2>4. \A j \in Calls : j \notin Waiting(c) => at'[j] = at[j]
   BY <1>0, <1>2, <2>1, <2>2, SettlesType
 <2>5. QED
   BY <1>1, <1>2, <2>3, <2>4 DEF RecyclesAlone
<1>4. CASE CloseUnproven(c)
 <2>1. Settles(c, [kind \in Kinds |-> "force"])
   BY <1>4 DEF CloseUnproven
 <2>2. [kind \in Kinds |-> "force"] \in [Kinds -> CustodyPCs \ {"wait"}]
   BY DEF CustodyPCs
 <2>3. \A j \in Calls : IF j \in Waiting(c) THEN at'[j].pc = "force" ELSE at'[j] = at[j]
   BY <1>0, <1>2, <2>1, <2>2, SettlesType DEF AtStates
 <2>4. QED
   BY <1>1, <1>2, <2>3 DEF RecyclesAlone
<1>5. CASE Disconnects(c) \/ ChromeCrashes(c)
  BY <1>1, <1>5 DEF Disconnects, ChromeCrashes, RecyclesAlone
<1>6. QED
  BY <1>3, <1>4, <1>5

LEMMA AloneNext == CustodyTypeOK /\ RecyclesAlone /\ [CustodyNext]_custodyVars => RecyclesAlone'
<1> SUFFICES ASSUME CustodyTypeOK, RecyclesAlone, [CustodyNext]_custodyVars PROVE RecyclesAlone'
  OBVIOUS
<1>1. ASSUME NEW k \in Calls, Running(k), Calling(k) \/ DrainedMeanwhile(k) PROVE RecyclesAlone'
  BY <1>1, AloneCall DEF Running
<1>2. ASSUME NEW a \in Actors, CloseStarts(a) \/ ForceProves(a) \/ ForceUnproven(a)
      PROVE  RecyclesAlone'
  BY <1>2, AloneClose
<1>3. ASSUME Launching \/ Exit PROVE RecyclesAlone'
  BY <1>3, AloneLaunch, AloneClose DEF Actors
<1>4. ASSUME NEW c \in Chromes, CloseProves(c) \/ CloseUnproven(c) \/ Disconnects(c) \/ ChromeCrashes(c)
      PROVE  RecyclesAlone'
  BY <1>4, AloneBrowser
<1>5. CASE UNCHANGED custodyVars
  BY <1>5 DEF custodyVars, RecyclesAlone
<1>6. QED
  BY <1>1, <1>2, <1>3, <1>4, <1>5 DEF CustodyNext

-----------------------------------------------------------------------------
(* While every close is proven. *)

LEMMA ProvenAtOnly ==
    ASSUME CustodyTypeOK, Proven, UNCHANGED <<owner, handle, launch, chromes, closed, closing>>,
           \A b \in Actors : /\ at'[b].pc = "force" => at[b].pc = "force"
                             /\ at[b].pc = "close" => at'[b] = at[b]
                             /\ at[b].pc = "wait" => at'[b].pc = "wait"
                             /\ closing /\ at'[b].pc = "attach" => at[b].pc = "attach"
    PROVE  Proven'
<1>0. \A k \in Calls : k \in Actors
  BY DEF Actors
<1>1. LaunchSound'
 <2>1. launch.c # None => \E k \in Calls : at'[k].pc = "wait"
   BY <1>0 DEF Proven, LaunchSound
 <2>2. QED
   BY <2>1 DEF Proven, LaunchSound
<1>2. CloseSound'
 <2>1. ASSUME NEW c \in Chromes, Waiting(c) # {} \/ FailsOn(c)
       PROVE  Waiting(c)' # {} \/ FailsOn(c)'
   BY <2>1 DEF Waiting, FailsOn
 <2>2. QED
   BY <2>1 DEF Proven, CloseSound
<1>3. DrainSound' /\ Owned'
  BY <1>0 DEF Proven, DrainSound, Owned
<1>4. QED
  BY <1>1, <1>2, <1>3 DEF Proven

LEMMA ProvenCloses ==
    ASSUME CustodyTypeOK, Proven, NEW a \in Actors, NEW kind \in Kinds, NEW p \in BOOLEAN,
           ClosesOwner(a, kind, p), launch.c = None, UNCHANGED <<owner, launch, chromes>>,
           at[a].pc \notin {"close", "wait", "force"},
           closing' => \A k \in Calls : at[k].pc # "attach"
    PROVE  Proven'
<1>0. /\ \A k \in Calls : k \in Actors
      /\ owner \in Refs /\ None \notin Chromes /\ launch.stage = "none" /\ handle = owner
      /\ closed \in [Chromes -> {"no", "closing", "closed", "unknown"}]
      /\ \A c \in Chromes : closed[c] # "unknown"
  BY DEF Actors, CustodyTypeOK, Refs, None, Chromes, Proven, LaunchSound, CloseSound
<1>1. Others(a) /\ at'[a].tgt = owner
  BY ClosesOwnerType
<1>2. owner = None => at'[a].pc \in {"bind", "admit", "over"} /\ closed' = closed /\ handle' = None
  BY ClosesOwnerType, AfterProofType
<1>3. owner # None => /\ at'[a].pc = "close" /\ handle' = handle
                      /\ closed' = [closed EXCEPT ![owner] = "closing"]
  BY <1>0, ClosesOwnerType DEF Refs
<1>4. LaunchSound'
  BY <1>0, <1>2, <1>3 DEF LaunchSound
<1>5. CloseSound'
 <2>1. \A b \in Actors : at'[b].pc # "force"
   BY <1>1, <1>2, <1>3 DEF Others, Proven, CloseSound
 <2>2. ASSUME NEW c \in Chromes
       PROVE  /\ closed'[c] # "unknown"
              /\ closed'[c] = "closing" => owner = c /\ Waiting(c)' # {}
              /\ chromes[c] = "unmade" => closed'[c] = "no" /\ owner # c
  <3>1. CASE owner = None
    BY <1>0, <1>2, <2>2, <3>1 DEF Proven, CloseSound
  <3>2. CASE owner # None
   <4>1. a \in Waiting(owner)'
     BY <1>1, <1>3, <3>2 DEF Waiting
   <4>2. QED
     BY <1>0, <1>3, <2>2, <3>2, <4>1 DEF Proven, CloseSound
  <3>3. QED
    BY <3>1, <3>2
 <2>3. QED
   BY <2>1, <2>2 DEF CloseSound
<1>6. DrainSound'
  BY <1>0, <1>1, <1>2, <1>3 DEF DrainSound, Others
<1>7. Owned'
  BY DEF Proven, Owned
<1>8. QED
  BY <1>4, <1>5, <1>6, <1>7 DEF Proven

LEMMA NobodyPending ==
    ASSUME CustodyTypeOK, Proven, Pending = {}
    PROVE  launch.c = None /\ \A k \in Calls : at[k].pc # "attach"
BY DEF Pending, Proven, LaunchSound

LEMMA ProvenCall ==
    ASSUME CustodyTypeOK, Proven, NEW k \in Calls, Calling(k) \/ DrainedMeanwhile(k)
    PROVE  Proven'
<1>0. k \in Actors
  BY DEF Actors
<1>1. CASE Refused(k) \/ Acquires(k) \/ Conflicts(k) \/ DrainedMeanwhile(k) \/ AttachFails(k)
           \/ CleanupEnds(k) \/ Await(k) \/ Attach(k) \/ ReleaseTabs(k)
 <2>1. PICK pc \in {"failed", "bind", "over", "wait", "open"} : Goes(k, pc)
   BY <1>1 DEF Refused, Acquires, Conflicts, DrainedMeanwhile, AttachFails, CleanupEnds, Await,
               Attach, ReleaseTabs
 <2>2. at[k].pc \notin {"close", "wait"}
   BY <1>1 DEF Refused, Acquires, Conflicts, DrainedMeanwhile, AttachFails, CleanupEnds, Await,
               Admits, Attach, ReleaseTabs
 <2>3. UNCHANGED <<owner, handle, launch, chromes, closed, closing>>
   BY <1>1 DEF Refused, Acquires, Conflicts, DrainedMeanwhile, AttachFails, CleanupEnds, Await,
               Attach, ReleaseTabs
 <2>4. at'[k].pc = pc /\ Others(k)
   BY <1>0, <2>1, GoesType DEF CustodyPCs
 <2>5. QED
   BY <2>1, <2>2, <2>3, <2>4, ProvenAtOnly DEF Others
<1>2. CASE AcquireLost(k)
 <2>1. /\ ClosesOwner(k, "lost", FALSE) /\ launch.c = None /\ ~closing /\ at[k].pc = "idle"
       /\ UNCHANGED <<owner, launch, chromes, closing>>
   BY <1>2 DEF AcquireLost, BrowserLost
 <2>2. QED
   BY <1>0, <2>1, ProvenCloses DEF Kinds
<1>3. CASE Recycle(k)
 <2>1. /\ ClosesOwner(k, "recycle", FALSE) /\ at[k].pc = "bind" /\ Pending = {}
       /\ UNCHANGED <<owner, launch, chromes, closing>>
   BY <1>3 DEF Recycle, MayRecycle, Siblings
 <2>2. QED
   BY <1>0, <2>1, NobodyPending, ProvenCloses DEF Kinds
<1>4. CASE Join(k)
 <2>1. PICK pc \in {"failed", "attach"} :
          at' = [at EXCEPT ![k] = Here(pc, handle)] /\ (closing => pc = "failed")
   BY <1>4 DEF Join
 <2>2. Here(pc, handle) \in AtStates /\ Here(pc, handle).pc = pc
   BY HereType DEF CustodyTypeOK, Refs, CustodyPCs
 <2>3. Others(k) /\ at'[k].pc = pc
   BY <1>0, <2>1, <2>2, PutType
 <2>4. at[k].pc \in {"bind", "admit"} /\ UNCHANGED <<owner, handle, launch, chromes, closed, closing>>
   BY <1>4 DEF Join, Admits
 <2>5. QED
   BY <2>1, <2>3, <2>4, ProvenAtOnly DEF Others
<1>5. CASE LaunchChrome(k)
 <2>1. PICK c \in Chromes : /\ launch' = [c |-> c, stage |-> "mkdir", closes |-> None]
                            /\ chromes[c] = "unmade"
   BY <1>5 DEF LaunchChrome
 <2>2. Others(k) /\ at'[k].pc = "wait"
   BY <1>0, <1>5, GoesType DEF LaunchChrome, CustodyPCs
 <2>3. /\ launch.c = None /\ handle = None /\ owner = None
       /\ UNCHANGED <<owner, handle, chromes, closed, closing>>
   BY <1>5 DEF LaunchChrome, Proven, LaunchSound
 <2>4. None \notin Chromes
   BY DEF None, Chromes
 <2>5. LaunchSound'
   BY <2>1, <2>2, <2>3 DEF LaunchSound
 <2>6. CloseSound'
   BY <2>2, <2>3, <2>4 DEF Proven, CloseSound, Others
 <2>7. DrainSound' /\ Owned'
   BY <2>2, <2>3 DEF Proven, DrainSound, Owned, Others, Actors
 <2>8. QED
   BY <2>5, <2>6, <2>7 DEF Proven
<1>6. CASE ReleaseUncertain(k)
 <2>1. /\ owner \in Chromes /\ chromes[owner] = "up" /\ chromes' = [chromes EXCEPT ![owner] = "lost"]
       /\ chromes \in [Chromes -> {"unmade", "starting", "up", "lost", "gone"}]
       /\ UNCHANGED <<owner, handle, launch, closed, closing, at>>
   BY <1>6 DEF ReleaseUncertain, CustodyTypeOK
 <2>2. LaunchSound'
   BY <2>1 DEF Proven, LaunchSound
 <2>3. CloseSound'
   BY <2>1 DEF Proven, CloseSound, Waiting, FailsOn
 <2>4. DrainSound' /\ Owned'
   BY <2>1 DEF Proven, DrainSound, Owned
 <2>5. QED
   BY <2>2, <2>3, <2>4 DEF Proven
<1>7. QED
  BY <1>1, <1>2, <1>3, <1>4, <1>5, <1>6 DEF Calling

LEMMA ProvenCloser ==
    ASSUME CustodyTypeOK, Proven, NEW a \in Actors,
           CloseStarts(a) \/ ForceProves(a) \/ ForceUnproven(a) \/ (a = Daemon /\ Exit)
    PROVE  Proven'
<1>1. CASE CloseStarts(a)
 <2>1. /\ ClosesOwner(a, "end", closing) /\ closing \in BOOLEAN /\ Pending = {}
       /\ at[a].pc \in {"idle", "failed"} /\ UNCHANGED <<owner, launch, chromes>>
   BY <1>1 DEF CloseStarts, CanClose, CustodyTypeOK
 <2>2. QED
   BY <2>1, NobodyPending, ProvenCloses DEF Kinds
<1>2. CASE a = Daemon /\ Exit
 <2>1. at[a].pc = "over" /\ Goes(a, "exited")
       /\ UNCHANGED <<owner, handle, launch, chromes, closed, closing>>
   BY <1>2 DEF Exit
 <2>2. at'[a].pc = "exited" /\ Others(a)
   BY <2>1, GoesType DEF CustodyPCs
 <2>3. QED
   BY <2>1, <2>2, ProvenAtOnly DEF Others
<1>3. ~(ForceProves(a) \/ ForceUnproven(a))
  BY DEF ForceProves, ForceUnproven, Proven, CloseSound
<1>4. QED
  BY <1>1, <1>2, <1>3

LEMMA ProvenLaunch == ASSUME CustodyTypeOK, Proven, Launching PROVE Proven'
<1>0. /\ launch.c # None /\ launch.c \in Chromes /\ handle = None /\ None \notin Chromes
      /\ chromes \in [Chromes -> {"unmade", "starting", "up", "lost", "gone"}]
      /\ closed \in [Chromes -> {"no", "closing", "closed", "unknown"}]
  BY DEF Launching, LaunchOwner, LaunchUp, LaunchFails, CustodyTypeOK, None, Chromes, Proven, LaunchSound
<1>c. \A k \in Calls : k \in Actors
  BY DEF Actors
<1>1. CASE LaunchOwner
 <2>1. /\ launch.stage = "mkdir" /\ launch' = [launch EXCEPT !.stage = "start"]
       /\ owner' = launch.c /\ chromes' = [chromes EXCEPT ![launch.c] = "starting"]
       /\ UNCHANGED <<handle, closed, closing, at>>
   BY <1>1 DEF LaunchOwner
 <2>2. launch'.c = launch.c /\ launch'.stage = "start"
   BY <2>1 DEF CustodyTypeOK
 <2>3. owner = None /\ closed[launch.c] = "no"
   BY <1>0, <2>1 DEF Proven, LaunchSound, CloseSound
 <2>4. LaunchSound'
   BY <1>0, <2>1, <2>2, <2>3 DEF Proven, LaunchSound
 <2>5. CloseSound'
   BY <1>0, <2>1, <2>3 DEF Proven, CloseSound
 <2>6. DrainSound' /\ Owned'
   BY <1>0, <2>1, <2>3 DEF Proven, DrainSound, Owned
 <2>7. QED
   BY <2>4, <2>5, <2>6 DEF Proven
<1>2. CASE LaunchUp
 <2>1. /\ owner = launch.c /\ closed[launch.c] = "no" /\ chromes[launch.c] = "starting"
       /\ \A d \in Chromes : chromes[d] # "up"
       /\ chromes' = [chromes EXCEPT ![launch.c] = "up"] /\ handle' = launch.c
       /\ launch'.c = None /\ launch'.stage = "none" /\ UNCHANGED <<owner, closed, closing>>
   BY <1>0, <1>2 DEF LaunchUp, NoLaunch, Proven, LaunchSound
 <2>2. PICK pc \in {"failed", "attach"} :
          Resume(pc, launch.c) /\ (closing => pc = "failed")
   BY <1>2 DEF LaunchUp
 <2>3. \A b \in Actors : at'[b].pc = pc \/ at'[b] = at[b]
   BY <1>0, <2>2, ResumeType DEF CustodyPCs, Refs
 <2>4. LaunchSound'
   BY <2>1 DEF LaunchSound
 <2>5. CloseSound'
   BY <1>0, <2>1, <2>2, <2>3 DEF Proven, CloseSound
 <2>6. DrainSound' /\ Owned'
   BY <1>0, <1>c, <2>1, <2>2, <2>3 DEF Proven, DrainSound, Owned
 <2>7. QED
   BY <2>4, <2>5, <2>6 DEF Proven
<1>3. CASE LaunchFails
 <2>1. owner = launch.c /\ Promise # "unknown" /\ launch.stage = "start"
   BY <1>0, <1>3 DEF LaunchFails, Promise, Proven, LaunchSound
 <2>2. /\ launch' = [launch EXCEPT !.stage = "fail", !.closes = owner]
       /\ closed' = [closed EXCEPT ![owner] = "closing"]
       /\ UNCHANGED <<owner, handle, chromes, closing, at>>
   BY <1>0, <1>3, <2>1 DEF LaunchFails
 <2>3. launch'.c = launch.c /\ launch'.stage = "fail" /\ launch'.closes = owner
   BY <2>2 DEF CustodyTypeOK
 <2>4. LaunchSound'
   BY <1>0, <2>1, <2>2, <2>3 DEF Proven, LaunchSound
 <2>5. CloseSound'
   BY <1>0, <2>1, <2>2, <2>3 DEF Proven, CloseSound, FailsOn
 <2>6. DrainSound' /\ Owned'
   BY <2>2 DEF Proven, DrainSound, Owned
 <2>7. QED
   BY <2>4, <2>5, <2>6 DEF Proven
<1>4. QED
  BY <1>1, <1>2, <1>3 DEF Launching

LEMMA ProvenBrowser ==
    ASSUME CustodyTypeOK, Proven, NEW c \in Chromes,
           CloseProves(c) \/ Disconnects(c) \/ ChromeCrashes(c)
    PROVE  Proven'
<1>0. /\ None \notin Chromes /\ at \in [Actors -> AtStates] /\ \A k \in Calls : k \in Actors
      /\ chromes \in [Chromes -> {"unmade", "starting", "up", "lost", "gone"}]
      /\ closed \in [Chromes -> {"no", "closing", "closed", "unknown"}]
  BY AtTyped DEF CustodyTypeOK, None, Chromes, Actors
<1>1. CASE CloseProves(c)
 <2>1. /\ closed[c] = "closing" /\ closed' = [closed EXCEPT ![c] = "closed"]
       /\ chromes' = [chromes EXCEPT ![c] = "gone"] /\ owner' = None
       /\ Settles(c, [kind \in Kinds |-> AfterProof(kind)])
       /\ handle' = (IF Waiting(c) # {} THEN None ELSE handle)
       /\ launch' = (IF FailsOn(c) THEN NoLaunch ELSE launch) /\ closing' = closing
   BY <1>1 DEF CloseProves
 <2>2. owner = c /\ (Waiting(c) # {} \/ FailsOn(c))
   BY <2>1 DEF Proven, CloseSound
 <2>3. /\ FailsOn(c) => handle = None
       /\ ~FailsOn(c) => launch.c = None
       /\ launch.c = None <=> launch.stage = "none"
   BY <1>0, <2>1, <2>2 DEF Proven, LaunchSound, FailsOn, CustodyTypeOK
 <2>4. handle' = None /\ launch'.c = None /\ launch'.stage = "none"
   BY <2>1, <2>2, <2>3 DEF NoLaunch
 <2>5. \A b \in Actors : at'[b] = at[b] \/ at'[b].pc \in {"bind", "admit", "over", "failed"}
  <3>1. [kind \in Kinds |-> AfterProof(kind)] \in [Kinds -> CustodyPCs \ {"wait"}]
    BY AfterProofType DEF CustodyPCs
  <3>2. ASSUME NEW b \in Actors, b \in Waiting(c)
        PROVE  at'[b].pc \in {"bind", "admit", "over"}
   <4>1. at[b].why \in Kinds
     BY <1>0, <3>2 DEF AtStates
   <4>2. at'[b].pc = AfterProof(at[b].why)
     BY <2>1, <3>1, <3>2, <4>1, SettlesType
   <4>3. QED
     BY <4>1, <4>2, AfterProofType
  <3>3. \A b \in Actors : b \notin Waiting(c) => at'[b] = at[b] \/ at'[b].pc = "failed"
    BY <2>1, <3>1, SettlesType
  <3>4. QED
    BY <3>2, <3>3
 <2>6. LaunchSound'
   BY <2>1, <2>4 DEF LaunchSound
 <2>7. CloseSound'
   BY <1>0, <2>1, <2>2, <2>5 DEF Proven, CloseSound
 <2>8. DrainSound' /\ Owned'
   BY <1>0, <2>1, <2>2, <2>5 DEF Proven, DrainSound, Owned
 <2>9. QED
   BY <2>6, <2>7, <2>8 DEF Proven
<1>2. CASE Disconnects(c) \/ ChromeCrashes(c)
 <2>1. /\ chromes[c] = "up" /\ chromes' = [chromes EXCEPT ![c] = "lost"]
       /\ UNCHANGED <<owner, handle, launch, closed, closing, at>>
   BY <1>2 DEF Disconnects, ChromeCrashes
 <2>2. LaunchSound'
   BY <1>0, <2>1 DEF Proven, LaunchSound
 <2>3. CloseSound'
   BY <1>0, <2>1 DEF Proven, CloseSound, Waiting, FailsOn
 <2>4. DrainSound' /\ Owned'
   BY <1>0, <2>1 DEF Proven, DrainSound, Owned
 <2>5. QED
   BY <2>2, <2>3, <2>4 DEF Proven
<1>3. QED
  BY <1>1, <1>2

LEMMA ProvenNext ==
    ASSUME CustodyTypeOK, Proven, \A c \in Chromes : closed'[c] # "unknown", [CustodyNext]_custodyVars
    PROVE  Proven'
<1>1. ASSUME NEW k \in Calls, Calling(k) \/ DrainedMeanwhile(k) PROVE Proven'
  BY <1>1, ProvenCall
<1>2. ASSUME NEW a \in Actors, CloseStarts(a) \/ ForceProves(a) \/ ForceUnproven(a) PROVE Proven'
  BY <1>2, ProvenCloser
<1>3. ASSUME Launching \/ Exit PROVE Proven'
  BY <1>3, ProvenLaunch, ProvenCloser DEF Actors
<1>4. ASSUME NEW c \in Chromes, CloseProves(c) \/ CloseUnproven(c) \/ Disconnects(c) \/ ChromeCrashes(c)
      PROVE  Proven'
 <2>1. CloseUnproven(c) => closed'[c] = "unknown"
   BY DEF CloseUnproven, CustodyTypeOK
 <2>2. ~CloseUnproven(c)
   BY <2>1
 <2>3. QED
   BY <1>4, <2>2, ProvenBrowser
<1>5. CASE UNCHANGED custodyVars
  BY <1>5 DEF custodyVars, Proven, LaunchSound, CloseSound, DrainSound, Owned, Waiting, FailsOn
<1>6. QED
  BY <1>1, <1>2, <1>3, <1>4, <1>5 DEF CustodyNext

-----------------------------------------------------------------------------
(* Whether or not closes are proven: what every step does but the launch of  *)
(* a Chrome.                                                                *)
Mild ==
    /\ \A c \in Chromes : chromes'[c] = "unmade" <=> chromes[c] = "unmade"
    /\ \A c \in Chromes : chromes'[c] = "up" => chromes[c] = "up" \/ (launch.stage = "start" /\ launch.c = c)
    /\ owner' \in {owner, None}
    /\ \A c \in Chromes : /\ closed'[c] # "no" => closed[c] # "no" \/ c = owner
                          /\ closed[c] = "unknown" => closed'[c] = "unknown"
    /\ launch'.stage = "mkdir" => launch' = launch
    /\ launch'.stage = "start" => launch' = launch
    /\ \A a \in Actors :
          /\ at'[a].pc \in {"close", "force"} =>
                \/ at[a].pc \in {"close", "force"} /\ at'[a].tgt = at[a].tgt
                \/ at'[a].tgt = owner /\ owner # None
          /\ at'[a].pc = "attach" => (at[a].pc = "attach" /\ at'[a].tgt = at[a].tgt) \/ at'[a].tgt \in Chromes

LEMMA MildMade == ASSUME CustodyTypeOK, MadeSo, Mild PROVE MadeSo'
<1>1. /\ \A c, d \in Chromes : c < d /\ chromes'[c] = "unmade" => chromes'[d] = "unmade"
      /\ \A c \in Chromes : chromes'[c] = "unmade" => closed'[c] = "no" /\ owner' # c
  BY DEF MadeSo, Mild, None, Chromes
<1>2. launch'.stage = "mkdir" =>
        chromes'[launch'.c] = "unmade" /\ \A d \in Chromes : d < launch'.c => chromes'[d] # "unmade"
 <2> SUFFICES ASSUME launch'.stage = "mkdir"
              PROVE  chromes'[launch'.c] = "unmade" /\ \A d \in Chromes : d < launch'.c => chromes'[d] # "unmade"
   OBVIOUS
 <2>1. launch' = launch /\ launch.c \in Chromes
   BY DEF Mild, CustodyTypeOK
 <2>2. QED
   BY <2>1 DEF Mild, MadeSo
<1>3. ASSUME NEW a \in Actors
      PROVE  /\ at'[a].pc \in {"close", "force"} => at'[a].tgt \in Chromes /\ chromes'[at'[a].tgt] # "unmade"
             /\ at'[a].pc = "attach" => at'[a].tgt \in Chromes
 <2>1. owner # None => owner \in Chromes /\ chromes[owner] # "unmade"
   BY DEF CustodyTypeOK, MadeSo
 <2>2. QED
   BY <2>1 DEF Mild, MadeSo
<1>4. QED
  BY <1>1, <1>2, <1>3 DEF MadeSo

LEMMA QuietKept ==
    ASSUME Quieted, Doubtful,
           \A c \in Chromes : closed[c] = "unknown" => closed'[c] = "unknown",
           \A c, d \in Chromes :
              /\ closed[d] = "unknown" /\ c <= d
              /\ chromes'[c] = "up" \/ (launch'.stage = "start" /\ launch'.c = c)
              => chromes[c] = "up" \/ (launch.stage = "start" /\ launch.c = c)
    PROVE  Quieted'
<1>1. PICK d \in Chromes : closed[d] = "unknown" /\ Quiet(d)
  BY DEF Quieted
<1>2. Quiet(d)'
  BY <1>1 DEF Quiet
<1>3. QED
  BY <1>1, <1>2 DEF Quieted

LEMMA MildQuiet ==
    ASSUME Quieted, Mild, Doubtful' => Doubtful
    PROVE  Quieted' /\ (~Doubtful' => ~Doubtful)
<1>1. Doubtful => Quieted'
  BY QuietKept DEF Mild
<1>2. Doubtful => Doubtful'
  BY DEF Doubtful, Mild
<1>3. QED
  BY <1>1, <1>2 DEF Quieted

LEMMA MildCloses ==
    ASSUME CustodyTypeOK, NEW a \in Actors, NEW kind \in Kinds, NEW p \in BOOLEAN,
           ClosesOwner(a, kind, p), UNCHANGED <<owner, launch, chromes>>
    PROVE  Mild /\ (Doubtful' => Doubtful)
<1>1. /\ Others(a) /\ at'[a].tgt = owner
      /\ owner = None => at'[a].pc \in {"bind", "admit", "over"} /\ closed' = closed
      /\ owner # None => at'[a].pc \in {"close", "force"}
      /\ owner # None /\ closed[owner] # "unknown" => closed' = [closed EXCEPT ![owner] = "closing"]
  BY ClosesOwnerType, AfterProofType
<1>2. owner # None /\ closed[owner] = "unknown" => closed' = closed
  BY DEF ClosesOwner, Promise
<1>3. \A c \in Chromes : \/ closed'[c] = closed[c]
                         \/ c = owner /\ closed'[c] = "closing" /\ closed[c] # "unknown"
  BY <1>1, <1>2 DEF CustodyTypeOK
<1>4. QED
  BY <1>1, <1>3 DEF Mild, Others, Doubtful

LEMMA MildGoes ==
    ASSUME CustodyTypeOK, NEW a \in Actors, NEW pc \in CustodyPCs \ {"close", "force", "attach"},
           at' \in [Actors -> AtStates], Others(a), at'[a].pc = pc,
           UNCHANGED <<launch, closed>>, owner' \in {owner, None},
           \A c \in Chromes : /\ chromes'[c] = "unmade" <=> chromes[c] = "unmade"
                              /\ chromes'[c] = "up" => chromes[c] = "up"
    PROVE  Mild /\ (Doubtful' => Doubtful)
BY DEF Mild, Others, Doubtful

LEMMA MildCall ==
    ASSUME CustodyTypeOK, NEW k \in Calls, Calling(k) \/ DrainedMeanwhile(k), ~LaunchChrome(k)
    PROVE  Mild /\ (Doubtful' => Doubtful)
<1>0. k \in Actors
  BY DEF Actors
<1>1. CASE Refused(k) \/ Acquires(k) \/ Conflicts(k) \/ DrainedMeanwhile(k) \/ AttachFails(k)
           \/ CleanupEnds(k) \/ Await(k) \/ Attach(k) \/ ReleaseTabs(k)
 <2>1. PICK pc \in {"failed", "bind", "over", "wait", "open"} : Goes(k, pc)
   BY <1>1 DEF Refused, Acquires, Conflicts, DrainedMeanwhile, AttachFails, CleanupEnds, Await,
               Attach, ReleaseTabs
 <2>2. UNCHANGED <<owner, launch, chromes, closed>>
   BY <1>1 DEF Refused, Acquires, Conflicts, DrainedMeanwhile, AttachFails, CleanupEnds, Await,
               Attach, ReleaseTabs
 <2>3. pc \in CustodyPCs \ {"close", "force", "attach"}
   BY DEF CustodyPCs
 <2>4. at' \in [Actors -> AtStates] /\ Others(k) /\ at'[k].pc = pc
   BY <1>0, <2>1, <2>3, GoesType
 <2>5. QED
   BY <1>0, <2>2, <2>3, <2>4, MildGoes
<1>2. CASE AcquireLost(k) \/ Recycle(k)
 <2>1. PICK kind \in {"lost", "recycle"} : ClosesOwner(k, kind, FALSE)
   BY <1>2 DEF AcquireLost, Recycle
 <2>2. UNCHANGED <<owner, launch, chromes>> /\ kind \in Kinds
   BY <1>2 DEF AcquireLost, Recycle, Kinds
 <2>3. QED
   BY <1>0, <2>1, <2>2, MildCloses
<1>3. CASE Join(k)
 <2>1. PICK pc \in {"failed", "attach"} : at' = [at EXCEPT ![k] = Here(pc, handle)]
   BY <1>3 DEF Join
 <2>2. handle \in Chromes /\ UNCHANGED <<owner, launch, chromes, closed>>
   BY <1>3 DEF Join, CustodyTypeOK
 <2>3. Here(pc, handle) \in AtStates /\ Here(pc, handle).pc = pc /\ Here(pc, handle).tgt = handle
   BY <2>2, HereType DEF Refs, CustodyPCs
 <2>4. Others(k) /\ at'[k].pc = pc /\ at'[k].tgt = handle
   BY <1>0, <2>1, <2>3, PutType
 <2>5. QED
   BY <2>2, <2>4 DEF Mild, Others, Doubtful
<1>4. CASE ReleaseUncertain(k)
 <2>1. /\ owner \in Chromes /\ chromes[owner] = "up" /\ chromes' = [chromes EXCEPT ![owner] = "lost"]
       /\ chromes \in [Chromes -> {"unmade", "starting", "up", "lost", "gone"}]
       /\ UNCHANGED <<owner, launch, closed, at>>
   BY <1>4 DEF ReleaseUncertain, CustodyTypeOK
 <2>2. QED
   BY <2>1 DEF Mild, Doubtful
<1>5. QED
  BY <1>1, <1>2, <1>3, <1>4 DEF Calling

LEMMA MildCloser ==
    ASSUME CustodyTypeOK, MadeSo, NEW a \in Actors,
           CloseStarts(a) \/ ForceProves(a) \/ ForceUnproven(a) \/ (a = Daemon /\ Exit)
    PROVE  Mild /\ (Doubtful' => Doubtful)
<1>0. at \in [Actors -> AtStates] /\ at[a].why \in Kinds
  BY AtTyped DEF AtStates
<1>1. CASE CloseStarts(a)
 <2>1. ClosesOwner(a, "end", closing) /\ closing \in BOOLEAN /\ UNCHANGED <<owner, launch, chromes>>
   BY <1>1 DEF CloseStarts, CustodyTypeOK
 <2>2. QED
   BY <2>1, MildCloses DEF Kinds
<1>2. CASE ForceProves(a)
 <2>1. /\ at[a].pc = "force" /\ Goes(a, AfterProof(at[a].why)) /\ owner' = None
       /\ chromes' = [chromes EXCEPT ![at[a].tgt] = "gone"] /\ UNCHANGED <<launch, closed>>
       /\ chromes \in [Chromes -> {"unmade", "starting", "up", "lost", "gone"}]
   BY <1>2 DEF ForceProves, CustodyTypeOK
 <2>2. at[a].tgt \in Chromes /\ chromes[at[a].tgt] # "unmade"
   BY <2>1 DEF MadeSo
 <2>3. \A c \in Chromes : /\ chromes'[c] = "unmade" <=> chromes[c] = "unmade"
                          /\ chromes'[c] = "up" => chromes[c] = "up"
   BY <2>1, <2>2
 <2>4. AfterProof(at[a].why) \in CustodyPCs \ {"close", "force", "attach"}
   BY <1>0, AfterProofType DEF CustodyPCs
 <2>5. at' \in [Actors -> AtStates] /\ Others(a) /\ at'[a].pc = AfterProof(at[a].why)
   BY <2>1, <2>4, GoesType
 <2>6. QED
   BY <2>1, <2>3, <2>4, <2>5, MildGoes
<1>3. CASE ForceUnproven(a) \/ (a = Daemon /\ Exit)
 <2>1. PICK pc \in {"failed", "idle", "over", "exited"} : Goes(a, pc)
   BY <1>3 DEF ForceUnproven, Exit
 <2>2. UNCHANGED <<owner, launch, chromes, closed>>
   BY <1>3 DEF ForceUnproven, Exit
 <2>3. pc \in CustodyPCs \ {"close", "force", "attach"}
   BY DEF CustodyPCs
 <2>4. at' \in [Actors -> AtStates] /\ Others(a) /\ at'[a].pc = pc
   BY <2>1, <2>3, GoesType
 <2>5. QED
   BY <2>2, <2>3, <2>4, MildGoes
<1>4. QED
  BY <1>1, <1>2, <1>3

LEMMA MildLaunch ==
    ASSUME CustodyTypeOK, LaunchUp \/ LaunchFails
    PROVE  Mild /\ (Doubtful' => Doubtful)
<1>0. /\ launch.stage = "start" /\ launch.c \in Chromes
      /\ chromes \in [Chromes -> {"unmade", "starting", "up", "lost", "gone"}]
      /\ closed \in [Chromes -> {"no", "closing", "closed", "unknown"}]
  BY DEF LaunchUp, LaunchFails, CustodyTypeOK
<1>1. CASE LaunchUp
 <2>1. /\ chromes[launch.c] = "starting" /\ chromes' = [chromes EXCEPT ![launch.c] = "up"]
       /\ launch'.stage = "none" /\ UNCHANGED <<owner, closed>>
   BY <1>1 DEF LaunchUp, NoLaunch
 <2>2. PICK pc \in {"failed", "attach"} : Resume(pc, launch.c)
   BY <1>1 DEF LaunchUp
 <2>3. \A b \in Actors : (at'[b].pc = pc /\ at'[b].tgt = launch.c) \/ at'[b] = at[b]
   BY <1>0, <2>2, ResumeType DEF CustodyPCs, Refs
 <2>4. QED
   BY <1>0, <2>1, <2>3 DEF Mild, Doubtful
<1>2. CASE LaunchFails /\ (owner = None \/ Promise = "unknown")
 <2>1. launch'.stage = "none" /\ UNCHANGED <<owner, chromes, closed>> /\ Resume("failed", None)
   BY <1>2 DEF LaunchFails, NoLaunch
 <2>2. \A b \in Actors : at'[b].pc = "failed" \/ at'[b] = at[b]
   BY <2>1, ResumeType DEF CustodyPCs, Refs
 <2>3. QED
   BY <2>1, <2>2 DEF Mild, Doubtful
<1>3. CASE LaunchFails /\ owner # None /\ Promise # "unknown"
 <2>1. /\ launch' = [launch EXCEPT !.stage = "fail", !.closes = owner]
       /\ closed' = [closed EXCEPT ![owner] = "closing"] /\ UNCHANGED <<owner, chromes, at>>
   BY <1>3 DEF LaunchFails
 <2>2. launch'.stage = "fail" /\ owner \in Chromes /\ closed[owner] # "unknown"
   BY <1>3, <2>1 DEF CustodyTypeOK, Promise
 <2>3. QED
   BY <1>0, <2>1, <2>2 DEF Mild, Doubtful
<1>4. QED
  BY <1>1, <1>2, <1>3

LEMMA MildBrowser ==
    ASSUME CustodyTypeOK, MadeSo, NEW c \in Chromes,
           CloseProves(c) \/ CloseUnproven(c) \/ Disconnects(c) \/ ChromeCrashes(c)
    PROVE  Mild /\ (~CloseUnproven(c) => (Doubtful' => Doubtful))
<1>0. /\ at \in [Actors -> AtStates]
      /\ chromes \in [Chromes -> {"unmade", "starting", "up", "lost", "gone"}]
      /\ closed \in [Chromes -> {"no", "closing", "closed", "unknown"}]
  BY AtTyped DEF CustodyTypeOK
<1>1. CASE CloseProves(c) \/ CloseUnproven(c)
 <2>1. PICK pc \in [Kinds -> CustodyPCs \ {"wait", "attach", "close"}] : Settles(c, pc)
  <3>1. [kind \in Kinds |-> AfterProof(kind)] \in [Kinds -> CustodyPCs \ {"wait", "attach", "close"}]
    BY AfterProofType DEF CustodyPCs
  <3>2. [kind \in Kinds |-> "force"] \in [Kinds -> CustodyPCs \ {"wait", "attach", "close"}]
    BY DEF CustodyPCs
  <3>3. QED
    BY <1>1, <3>1, <3>2 DEF CloseProves, CloseUnproven
 <2>2. pc \in [Kinds -> CustodyPCs \ {"wait"}]
   OBVIOUS
 <2>3. ASSUME NEW b \in Actors
       PROVE  \/ at'[b] = at[b] \/ at'[b].pc = "failed"
              \/ at[b].pc = "close" /\ at'[b].tgt = at[b].tgt /\ at'[b].pc \notin {"attach", "wait"}
  <3>1. CASE b \in Waiting(c)
   <4>1. at[b].pc = "close" /\ at[b].tgt = c /\ at[b].why \in Kinds
     BY <1>0, <2>3, <3>1 DEF Waiting, AtStates
   <4>2. at'[b].pc = pc[at[b].why] /\ at'[b].tgt = c
     BY <2>1, <2>2, <2>3, <3>1, SettlesType
   <4>3. QED
     BY <2>1, <4>1, <4>2
  <3>2. CASE b \notin Waiting(c)
    BY <2>1, <2>2, <2>3, <3>2, SettlesType
  <3>3. QED
    BY <3>1, <3>2
 <2>4. /\ closed[c] = "closing" /\ owner' \in {owner, None}
       /\ launch' = launch \/ launch'.stage = "none"
   BY <1>1 DEF CloseProves, CloseUnproven, NoLaunch
 <2>5. \A d \in Chromes : /\ closed'[d] = closed[d] \/ d = c
                          /\ chromes'[d] = chromes[d] \/ (d = c /\ chromes'[d] \in {"gone", "lost"})
   BY <1>0, <1>1 DEF CloseProves, CloseUnproven
 <2>6. closed'[c] = IF CloseProves(c) THEN "closed" ELSE "unknown"
   BY <1>0, <1>1 DEF CloseProves, CloseUnproven
 <2>7. chromes[c] # "unmade"
   BY <2>4 DEF MadeSo
 <2>8. Mild
   BY <2>3, <2>4, <2>5, <2>6, <2>7 DEF Mild
 <2>9. CloseProves(c) => (Doubtful' => Doubtful)
   BY <2>5, <2>6 DEF Doubtful
 <2>10. QED
   BY <1>1, <2>8, <2>9
<1>2. CASE Disconnects(c) \/ ChromeCrashes(c)
 <2>1. /\ chromes[c] = "up" /\ chromes' = [chromes EXCEPT ![c] = "lost"]
       /\ UNCHANGED <<owner, launch, closed, at>>
   BY <1>2 DEF Disconnects, ChromeCrashes
 <2>2. QED
   BY <1>0, <2>1 DEF Mild, Doubtful
<1>3. QED
  BY <1>1, <1>2

(* The first close that ends unproven is of what was owned, so of whatever   *)
(* was live, and no launch is under way.                                    *)
LEMMA FirstDoubt ==
    ASSUME CustodyTypeOK, Proven, NEW c \in Chromes, CloseUnproven(c)
    PROVE  Quieted'
<1>1. /\ closed[c] = "closing" /\ closed' = [closed EXCEPT ![c] = "unknown"]
      /\ chromes' = [chromes EXCEPT ![c] = IF @ = "up" THEN "lost" ELSE @]
      /\ launch' = IF FailsOn(c) THEN NoLaunch ELSE launch
      /\ chromes \in [Chromes -> {"unmade", "starting", "up", "lost", "gone"}]
      /\ closed \in [Chromes -> {"no", "closing", "closed", "unknown"}]
  BY DEF CloseUnproven, CustodyTypeOK
<1>2. owner = c
  BY <1>1 DEF Proven, CloseSound
<1>3. \A d \in Chromes : chromes'[d] # "up"
  BY <1>1, <1>2 DEF Proven, Owned
<1>4. launch.stage # "start"
  BY <1>1, <1>2 DEF Proven, LaunchSound
<1>5. launch'.stage # "start"
  BY <1>1, <1>4 DEF NoLaunch
<1>6. QED
  BY <1>1, <1>3, <1>5 DEF Quieted, Quiet

LEMMA LaunchQuiet ==
    ASSUME CustodyTypeOK, MadeSo, Quieted, LaunchOwner \/ \E k \in Calls : LaunchChrome(k)
    PROVE  MadeSo' /\ Quieted' /\ (Doubtful <=> Doubtful')
<1>0. chromes \in [Chromes -> {"unmade", "starting", "up", "lost", "gone"}]
  BY DEF CustodyTypeOK
<1>1. CASE LaunchOwner
 <2>1. /\ launch.stage = "mkdir" /\ launch.c \in Chromes /\ launch'.c = launch.c /\ launch'.stage = "start"
       /\ owner' = launch.c /\ chromes' = [chromes EXCEPT ![launch.c] = "starting"]
       /\ UNCHANGED <<closed, at>>
   BY <1>1 DEF LaunchOwner, CustodyTypeOK
 <2>2. chromes[launch.c] = "unmade" /\ \A d \in Chromes : d < launch.c => chromes[d] # "unmade"
   BY <2>1 DEF MadeSo
 <2>3. \A d \in Chromes : chromes'[d] = IF d = launch.c THEN "starting" ELSE chromes[d]
   BY <1>0, <2>1
 <2>4. \A c, d \in Chromes : c < d /\ chromes'[c] = "unmade" => chromes'[d] = "unmade"
   BY <2>1, <2>2, <2>3 DEF MadeSo, Chromes
 <2>5. MadeSo'
   BY <2>1, <2>2, <2>3, <2>4 DEF MadeSo
 <2>6. ASSUME NEW d \in Chromes, closed[d] = "unknown" PROVE ~(launch.c <= d)
  <3>1. chromes[d] # "unmade"
    BY <2>6 DEF MadeSo
  <3>2. ~(launch.c < d) /\ launch.c # d
    BY <2>1, <2>2, <3>1 DEF MadeSo
  <3>3. QED
    BY <2>1, <3>2 DEF Chromes
 <2>7. Doubtful => Quieted'
   BY <2>1, <2>3, <2>6, QuietKept
 <2>8. QED
   BY <2>1, <2>5, <2>7 DEF Doubtful, Quieted
<1>2. ASSUME NEW k \in Calls, LaunchChrome(k) PROVE MadeSo' /\ Quieted' /\ (Doubtful <=> Doubtful')
 <2>1. PICK c \in Chromes :
          /\ chromes[c] = "unmade" /\ \A d \in Chromes : d < c => chromes[d] # "unmade"
          /\ launch' = [c |-> c, stage |-> "mkdir", closes |-> None]
   BY <1>2 DEF LaunchChrome
 <2>2. Goes(k, "wait") /\ k \in Actors /\ UNCHANGED <<owner, chromes, closed>>
   BY <1>2 DEF LaunchChrome, Actors
 <2>3. at'[k].pc = "wait" /\ Others(k)
   BY <2>2, GoesType DEF CustodyPCs
 <2>4. MadeSo'
   BY <2>1, <2>2, <2>3 DEF MadeSo, Others
 <2>5. Quieted'
   BY <2>1, <2>2 DEF Quieted, Quiet, Doubtful
 <2>6. QED
   BY <2>2, <2>4, <2>5 DEF Doubtful
<1>3. QED
  BY <1>1, <1>2

LEMMA QuietNext ==
    ASSUME CustodyTypeOK, MadeSo, Quieted, ~Doubtful => Proven, [CustodyNext]_custodyVars
    PROVE  MadeSo' /\ Quieted' /\ (~Doubtful' => ~Doubtful)
<1>1. ASSUME Mild, Doubtful' => Doubtful PROVE MadeSo' /\ Quieted' /\ (~Doubtful' => ~Doubtful)
  BY <1>1, MildMade, MildQuiet
<1>2. ASSUME NEW k \in Calls, Calling(k) \/ DrainedMeanwhile(k), ~LaunchChrome(k)
      PROVE  MadeSo' /\ Quieted' /\ (~Doubtful' => ~Doubtful)
  BY <1>1, <1>2, MildCall
<1>3. ASSUME NEW a \in Actors, CloseStarts(a) \/ ForceProves(a) \/ ForceUnproven(a) \/ (a = Daemon /\ Exit)
      PROVE  MadeSo' /\ Quieted' /\ (~Doubtful' => ~Doubtful)
  BY <1>1, <1>3, MildCloser
<1>4. ASSUME LaunchUp \/ LaunchFails PROVE MadeSo' /\ Quieted' /\ (~Doubtful' => ~Doubtful)
  BY <1>1, <1>4, MildLaunch
<1>5. ASSUME LaunchOwner \/ \E k \in Calls : LaunchChrome(k) PROVE MadeSo' /\ Quieted' /\ (~Doubtful' => ~Doubtful)
  BY <1>5, LaunchQuiet
<1>6. ASSUME NEW c \in Chromes, CloseProves(c) \/ Disconnects(c) \/ ChromeCrashes(c), ~CloseUnproven(c)
      PROVE  MadeSo' /\ Quieted' /\ (~Doubtful' => ~Doubtful)
  BY <1>1, <1>6, MildBrowser
<1>7. ASSUME NEW c \in Chromes, CloseUnproven(c) PROVE MadeSo' /\ Quieted' /\ (~Doubtful' => ~Doubtful)
 <2>1. Mild
   BY <1>7, MildBrowser
 <2>2. Doubtful'
   BY <1>7 DEF CloseUnproven, CustodyTypeOK, Doubtful
 <2>3. CASE Doubtful
   BY <1>1, <2>1, <2>3
 <2>4. CASE ~Doubtful
   BY <1>7, <2>1, <2>2, <2>4, MildMade, FirstDoubt
 <2>5. QED
   BY <2>3, <2>4
<1>8. CASE UNCHANGED custodyVars
  BY <1>8 DEF custodyVars, MadeSo, Quieted, Quiet, Doubtful
<1>9. QED
  BY <1>2, <1>3, <1>4, <1>5, <1>6, <1>7, <1>8 DEF CustodyNext, Launching, Actors

-----------------------------------------------------------------------------
(* The theorems. *)

LEMMA InitInv == CustodyAssumption /\ CustodyInit => CustodyInv
<1> SUFFICES ASSUME CustodyAssumption, CustodyInit PROVE CustodyInv
  OBVIOUS
<1>1. \A a \in Actors : at[a].pc = "idle"
  BY DEF CustodyInit, Here
<1>2. RecyclesAlone
  BY DEF CustodyInit, RecyclesAlone
<1>3. Proven
 <2>1. None \notin Chromes
   BY DEF None, Chromes
 <2>2. LaunchSound /\ DrainSound /\ Owned
   BY DEF CustodyInit, LaunchSound, DrainSound, Owned, NoLaunch
 <2>3. CloseSound
   BY <1>1, <2>1 DEF CustodyInit, CloseSound
 <2>4. QED
   BY <2>2, <2>3 DEF Proven
<1>4. ~Doubtful /\ MadeSo
  BY <1>1 DEF CustodyInit, Doubtful, MadeSo, NoLaunch, None, Chromes
<1>5. QED
  BY <1>2, <1>3, <1>4, InitType DEF CustodyInv, Quieted

(* Custody is sound: a recycle is alone, what runs, launches or closes is   *)
(* what the runtime owns, and a close that ends unproven finds no live      *)
(* Chrome but those launched after it.                                      *)
THEOREM CustodyIsSound == CustodyAssumption => (CustodySpec => []CustodyInv)
<1> SUFFICES ASSUME CustodyAssumption PROVE CustodySpec => []CustodyInv
  OBVIOUS
<1>1. CustodyInit => CustodyInv
  BY InitInv
<1>2. CustodyInv /\ [CustodyNext]_custodyVars => CustodyInv'
 <2> SUFFICES ASSUME CustodyAssumption, CustodyInv, [CustodyNext]_custodyVars PROVE CustodyInv'
   OBVIOUS
 <2>1. CustodyTypeOK' /\ RecyclesAlone'
   BY TypeNext, AloneNext DEF CustodyInv
 <2>2. MadeSo' /\ Quieted' /\ (Doubtful => Doubtful')
   BY QuietNext DEF CustodyInv
 <2>3. (~Doubtful => Proven)'
  <3>1. SUFFICES ASSUME ~Doubtful' PROVE Proven'
    OBVIOUS
  <3>2. ~Doubtful /\ \A c \in Chromes : closed'[c] # "unknown"
    BY <2>2, <3>1 DEF Doubtful
  <3>3. QED
    BY <3>2, ProvenNext DEF CustodyInv
 <2>4. QED
   BY <2>1, <2>2, <2>3 DEF CustodyInv
<1>3. QED
  BY <1>1, <1>2, PTL DEF CustodySpec

(* A recycle takes the shared Chrome from no session and from no start that *)
(* is being admitted, also when closes end unproven (bot/broker/runtime.ts, *)
(* the compatibility check of acquire).                                     *)
THEOREM RecycleTakesNone == CustodyAssumption => (CustodySpec => []NoSiblingLoses)
<1>1. CustodyInv => NoSiblingLoses
  BY DEF CustodyInv, RecyclesAlone, NoSiblingLoses, Pending
<1>2. QED
  BY <1>1, CustodyIsSound, PTL

(* A Chrome that answers is the one the runtime names as its own, so that   *)
(* close and recycle reach it, unless it follows an unproven close.         *)
LEMMA QuietedFollows ==
    ASSUME CustodyInv, Doubtful, NEW c \in Chromes, chromes[c] = "up"
    PROVE  Followed(c)
<1>1. PICK d \in Chromes : closed[d] = "unknown" /\ Quiet(d)
  BY DEF CustodyInv, Quieted
<1>2. ~(c <= d)
  BY <1>1 DEF Quiet
<1>3. d < c
  BY <1>2 DEF Chromes
<1>4. QED
  BY <1>1, <1>3 DEF Followed

THEOREM LiveOwned == CustodyAssumption => (CustodySpec => []LiveIsOwned)
<1>1. CustodyInv => LiveIsOwned
  BY QuietedFollows DEF CustodyInv, Proven, Owned, LiveIsOwned
<1>2. QED
  BY <1>1, CustodyIsSound, PTL

(* No session opens while the cell drains, but in a Chrome that follows an  *)
(* unproven close.                                                          *)
THEOREM NoneOpensInDrain == CustodyAssumption => (CustodySpec => NoneWhileDraining)
<1>1. CustodyInv /\ [CustodyNext]_custodyVars =>
        [\A k \in Calls : k \in sessions' \ sessions => ~closing \/ Followed(at[k].tgt)]_custodyVars
 <2> SUFFICES ASSUME CustodyInv, CustodyNext, NEW k \in Calls, k \in sessions' \ sessions
              PROVE  ~closing \/ Followed(at[k].tgt)
   OBVIOUS
 <2>1. PICK j \in Calls : Attach(j) /\ sessions' = sessions \cup {j}
  <3>1. ~(Launching \/ Exit)
    BY DEF Launching, LaunchOwner, LaunchUp, LaunchFails, Exit
  <3>2. \A a \in Actors : ~(CloseStarts(a) \/ ForceProves(a) \/ ForceUnproven(a))
    BY DEF CloseStarts, ForceProves, ForceUnproven
  <3>3. \A c \in Chromes : ~(CloseProves(c) \/ CloseUnproven(c) \/ Disconnects(c) \/ ChromeCrashes(c))
    BY DEF CloseProves, CloseUnproven, Disconnects, ChromeCrashes
  <3>4. \E j \in Calls : Calling(j) \/ DrainedMeanwhile(j)
    BY <3>1, <3>2, <3>3 DEF CustodyNext
  <3>5. QED
    BY <3>4 DEF Calling, Refused, Acquires, AcquireLost, Conflicts, Recycle, Join, Await, LaunchChrome,
                Attach, AttachFails, ReleaseTabs, ReleaseUncertain, CleanupEnds, DrainedMeanwhile
 <2>2. j = k /\ at[j].pc = "attach" /\ chromes[at[j].tgt] = "up" /\ j \in Actors
   BY <2>1 DEF Attach, Actors
 <2>3. at[j].tgt \in Chromes
   BY <2>2 DEF CustodyInv, MadeSo
 <2>4. QED
   BY <2>2, <2>3, QuietedFollows DEF CustodyInv, Proven, DrainSound
<1>2. QED
  BY <1>1, CustodyIsSound, PTL DEF CustodySpec, NoneWhileDraining

(* Custody is what a run checks of it, whatever closes are proven: records  *)
(* keep their types, a live Chrome is owned and no drain opens a session, up *)
(* to the Chrome that follows an unproven close.                            *)
THEOREM CustodyIsSafe == CustodyAssumption => (CustodySpec => CustodySafe)
<1>1. CustodyInv => CustodyTypeOK
  BY DEF CustodyInv
<1>2. QED
  BY <1>1, CustodyIsSound, LiveOwned, NoneOpensInDrain, PTL DEF CustodySafe

-----------------------------------------------------------------------------
(* The launch of a Chrome and its end, for any host, any number of forced   *)
(* closes and of failures: BrowserProcess.  A start that is not yet at its  *)
(* launch, that looks at the cancellation before it, and that is over.      *)
Unlaunching == {"idle", "launching", "late"} \cup Preparing
Refusing == {"idle", "channel", "proxy", "display", "geo"}
Ending == {"catch", "catching", "failed"}

(* No Chrome of this launch ran, and none will.  A launch that ended without *)
(* its fallback's closure is past.  What a force close or a commit could have *)
(* told of is nobody's.                                                     *)
Spent == ours = "none" /\ pw # "pending"
         /\ (start \in Ending \cup {"closing", "done"} \/ (own.cancel /\ start \in Refusing))
Past == own.fallback = "none" /\ start \notin Unlaunching
Unowned == ~own.committed /\ ~own.launched /\ ~own.child /\ \A f \in Forcers : ~closes[f].owns

(* What a stage of the start says of Chrome, of Playwright's promise and of *)
(* the fields; a Chrome that a start gave up on is recorded as dropped.     *)
StagesOK ==
    /\ (start \in {"idle"} \cup Preparing) => ours = "none" /\ pw = "none" /\ own.fallback = "none"
    /\ start \in Unlaunching \/ own.fallback # "none" => Unowned
    /\ start \in {"launching", "late", "ownership", "disown"} => pw # "none"
    /\ pw = "pending" => start \in {"launching", "late"} \/ dropped
    /\ pw = "resolved" => ours \in {"up", "quitting", "dead"}
    /\ pw = "rejected" => ours = "dead"
    /\ ours = "forked" => start \in {"endpoint", "unspawn", "launching", "late"} \/ dropped
    /\ dropped => start \in Ending
    /\ start = "late" => own.cancel
    /\ own.fallback # "none" => own.cancel /\ start \in {"catch", "failed"}
    /\ own.fallback = "closed" => ours = "dead"
    /\ UsesScope => start # "identity" /\ own.proof = "none"
(* Whose identity is known ran; another Chrome's is known only where no      *)
(* launch of this one will come.                                            *)
KnownOK ==
    /\ own.childId \/ own.holder \/ own.proof = "own" => ours # "none"
    /\ own.proof = "other" => Spent
    /\ Alive("other") => ours = "none" /\ pw = "none" /\ start \in Refusing \cup Ending
    /\ \A c \in Closers : /\ closes[c].knows = "own" => ours # "none"
                          /\ closes[c].knows = "other" => Spent
(* Who waits for a Chrome to end has asked it to quit. *)
AskedOK ==
    /\ \A c \in Closers : closes[c].pc = "wait" /\ closes[c].knows = "own" => ours \in {"quitting", "dead"}
    /\ reaper = "wait" => ours \in {"quitting", "dead"}
(* Why each close runs: the start's own, close() and the forced ones. *)
ClosesOK ==
    /\ closes["start"].pc # "idle" <=> start \in {"closing", "catching"}
    /\ answer["close"] # "none" => start # "idle"
    /\ closes["close"].pc # "idle" => answer["close"] = "early" \/ own.settled \/ (own.cancel /\ own.committed)
    /\ \A f \in Forcers : closes[f].pc # "idle" => own.cancel
    /\ UsesScope /\ closes["start"].pc = "wait" /\ closes["start"].knows # "own" => ~Alive("own") \/ dropped
(* What was told as closed.  A scope is told of before Chrome joined it only *)
(* by who cancelled a start that is past its launch.                        *)
Closed == \E c \in DOMAIN answer : answer[c] = "closed"
ToldOK ==
    /\ ~UsesScope /\ Closed => dropped \/ ours = "dead" \/ Spent
    /\ UsesScope /\ Closed /\ own.settled => dropped \/ ~Alive("own")
    /\ UsesScope /\ Closed /\ ~own.settled => own.cancel /\ (ours = "dead" \/ Past)
ProcessInv == ProcessTypeOK /\ StagesOK /\ KnownOK /\ AskedOK /\ ClosesOK /\ ToldOK

-----------------------------------------------------------------------------
(* Types, and what the shared helpers do. *)

OwnFields == [child : BOOLEAN, childId : BOOLEAN, holder : BOOLEAN,
              proof : {"none", "own", "other"}, context : BOOLEAN, launched : BOOLEAN,
              cancel : BOOLEAN, committed : BOOLEAN, settled : BOOLEAN,
              inFlight : BOOLEAN, fallback : States \cup {"none"}]
CloseRuns == [pc : {"idle", "flush", "wait"}, knows : {"none", "own", "other"}, owns : BOOLEAN]
OurStates == {"none", "forked", "up", "quitting", "dead"}

(* What a signal, a wait or a crash may make of the Chromes: one that never *)
(* ran stays so, and no other comes back.                                   *)
Wanes ==
    /\ ours' \in OurStates /\ other' \in {"none", "up", "quitting", "dead"}
    /\ hit' \subseteq {"own", "other"}
    /\ ours' # ours => /\ ours \in {"forked", "up", "quitting"} /\ ours' \in {"quitting", "dead"}
                       /\ ours = "forked" => ours' = "dead"
    /\ Alive("other")' => Alive("other")

LEMMA SignalWanes ==
    ASSUME ProcessTypeOK, NEW who \in {"none", "own", "other"}, NEW kill \in BOOLEAN,
           SignalTree(who, kill)
    PROVE  /\ Wanes
           /\ who = "own" => ours' \in {"none", "quitting", "dead"}
           /\ who = "own" /\ kill => ours' \in {"none", "dead"}
           /\ who # "own" => ours' = ours
BY DEF ProcessTypeOK, SignalTree, Wanes, Alive, OurStates

(* The head of closeBrowser as run by c. *)
Headed(c, o) ==
    /\ own' \in OwnFields /\ closes' \in [Closers -> CloseRuns]
    /\ closes'[c].pc = "flush" /\ ~closes'[c].owns
    /\ \A d \in Closers \ {c} : closes'[d] = closes[d]
    /\ own'.cancel = o.cancel /\ own'.committed = o.committed /\ own'.settled = o.settled
    /\ own'.fallback = o.fallback /\ ~own'.child
    /\ own'.launched => o.launched
    /\ own'.childId => o.childId
    /\ own'.holder => o.holder
    /\ UsesScope => own'.proof = o.proof
    /\ own'.proof # o.proof => own'.proof = closes'[c].knows
    /\ closes'[c].knows = "own" => o.childId \/ o.holder \/ o.proof = "own" \/ Holder = "own"
    /\ closes'[c].knows = "other" => o.proof = "other" \/ Holder = "other"

LEMMA HeadEffects ==
    ASSUME ProcessTypeOK, NEW c \in Closers, NEW o \in OwnFields, CloseHead(c, o)
    PROVE  Headed(c, o)
<1> DEFINE who == IF UsesScope THEN IF o.childId THEN "own" ELSE "none"
                  ELSE IF o.proof # "none" THEN o.proof
                  ELSE IF o.childId \/ o.holder THEN "own"
                  ELSE Holder
           x == [pc |-> "flush", knows |-> who, owns |-> FALSE]
<1>1. who \in {"none", "own", "other"}
  BY DEF OwnFields, Holder
<1>2. closes' = [closes EXCEPT ![c] = x] /\ x \in CloseRuns
  BY <1>1 DEF CloseHead, CloseRuns
<1>3. closes \in [Closers -> CloseRuns]
  BY DEF ProcessTypeOK, CloseRuns
<1>4. /\ closes' \in [Closers -> CloseRuns] /\ closes'[c] = x
      /\ \A d \in Closers \ {c} : closes'[d] = closes[d]
  BY <1>2, <1>3
<1>5. own' = IF UsesScope THEN [o EXCEPT !.child = FALSE, !.context = FALSE]
             ELSE [o EXCEPT !.child = FALSE, !.childId = FALSE, !.holder = FALSE,
                            !.context = FALSE, !.launched = FALSE,
                            !.proof = IF @ = "none" /\ Alive(who) THEN who ELSE @]
  BY DEF CloseHead
<1>6. /\ closes'[c].pc = "flush" /\ ~closes'[c].owns /\ closes'[c].knows = who
  BY <1>4
<1>7. /\ closes'[c].knows = "own" => o.childId \/ o.holder \/ o.proof = "own" \/ Holder = "own"
      /\ closes'[c].knows = "other" => o.proof = "other" \/ Holder = "other"
  BY <1>6
<1> HIDE DEF who, x
<1>8. /\ own' \in OwnFields
      /\ own'.cancel = o.cancel /\ own'.committed = o.committed /\ own'.settled = o.settled
      /\ own'.fallback = o.fallback /\ ~own'.child
      /\ own'.launched => o.launched
      /\ own'.childId => o.childId
      /\ own'.holder => o.holder
      /\ UsesScope => own'.proof = o.proof
      /\ own'.proof # o.proof => own'.proof = who
 <2>1. CASE UsesScope
  <3>1. own' = [o EXCEPT !.child = FALSE, !.context = FALSE]
    BY <1>5, <2>1
  <3>2. own' \in OwnFields
    BY <3>1 DEF OwnFields
  <3>3. QED
    BY <3>1, <3>2, <2>1 DEF OwnFields
 <2>2. CASE ~UsesScope
  <3> DEFINE q == IF o.proof = "none" /\ Alive(who) THEN who ELSE o.proof
  <3>1. q \in {"none", "own", "other"} /\ (q # o.proof => q = who)
    BY <1>1 DEF OwnFields
  <3>2. own' = [o EXCEPT !.child = FALSE, !.childId = FALSE, !.holder = FALSE,
                         !.context = FALSE, !.launched = FALSE, !.proof = q]
    BY <1>5, <2>2
  <3> HIDE DEF q
  <3>3. own' \in OwnFields
    BY <3>1, <3>2 DEF OwnFields
  <3>4. QED
    BY <3>1, <3>2, <3>3, <2>2 DEF OwnFields
 <2>3. QED
   BY <2>1, <2>2
<1>9. QED
  BY <1>4, <1>6, <1>7, <1>8 DEF Headed

(* closeBrowser returns to its caller. *)
Carried(o) ==
    /\ own'.cancel = o.cancel /\ own'.committed = o.committed /\ own'.fallback = o.fallback
    /\ own'.child = o.child /\ own'.launched = o.launched /\ own'.childId = o.childId
    /\ own'.holder = o.holder /\ own'.proof = o.proof

Returned(c, state, o) ==
    /\ own' \in OwnFields /\ closes' \in [Closers -> CloseRuns] /\ start' \in StartPCs
    /\ answer' \in [Closers \ {"start"} -> States \cup {"none", "pending", "early", "raced", "error"}]
    /\ closes'[c] = Idle
    /\ \A d \in Closers \ {c} : closes'[d] = closes[d]
    /\ Carried(o)
    /\ c = "start" => /\ start = "closing" => start' = "catch" /\ ~own'.settled
                      /\ start # "closing" => start' = "failed" /\ own'.settled
                      /\ answer' = answer
    /\ c # "start" => /\ start' = start /\ own'.settled = o.settled
                      /\ \A d \in DOMAIN answer \ {c} : answer'[d] = answer[d]
                      /\ answer'[c] = "closed" => state = "closed" /\ (answer[c] = "early" => own.settled)
                      /\ answer'[c] # "none" \/ answer[c] = "none" \/ state = "none"

LEMMA ReturnEffects ==
    ASSUME ProcessTypeOK, ProcessConstants, NEW c \in Closers, NEW state \in States \cup {"error"},
           NEW o \in OwnFields, Returns(c, state, o)
    PROVE  Returned(c, state, o)
<1>1. closes \in [Closers -> CloseRuns] /\ Idle \in CloseRuns
  BY DEF ProcessTypeOK, CloseRuns, Idle
<1>2. /\ closes' \in [Closers -> CloseRuns] /\ closes'[c] = Idle
      /\ \A d \in Closers \ {c} : closes'[d] = closes[d]
  BY <1>1 DEF Returns
<1>3. CASE c = "start"
 <2>1. answer' = answer /\ start' = (IF start = "closing" THEN "catch" ELSE "failed")
       /\ own' = [o EXCEPT !.settled = start # "closing"]
   BY <1>3 DEF Returns
 <2>2. /\ own' \in OwnFields /\ own'.settled = (start # "closing")
       /\ Carried(o)
   BY <2>1 DEF OwnFields, Carried
 <2>3. QED
   BY <1>2, <1>3, <2>1, <2>2 DEF Returned, ProcessTypeOK, StartPCs
<1>4. CASE c # "start"
 <2>1. /\ own' = o /\ start' = start
       /\ answer' = [answer EXCEPT ![c] =
                       IF @ = "early" /\ ~own.settled /\ state # "error" THEN "unknown" ELSE state]
   BY <1>4 DEF Returns
 <2>2. c \in Closers \ {"start"}
   BY <1>4
 <2>3. QED
   BY <1>2, <1>4, <2>1, <2>2 DEF Returned, Carried, ProcessTypeOK, StartPCs, States
<1>5. QED
  BY <1>3, <1>4

(* The Chromes wane, and a reaper that goes to wait has asked. *)
LEMMA ReapWaneKeeps ==
    ASSUME ProcessInv, Wanes, faults' \in 0..MaxFailures, reaper' \in {"off", "on", "wait", "over"},
           UNCHANGED <<own, start, pw, closes, answer, dropped, host>>,
           reaper' = "wait" => reaper = "wait" \/ ours' \in {"quitting", "dead"}
    PROVE  ProcessInv'
<1> USE DEF ProcessInv, Wanes
<1>1. ProcessTypeOK'
  BY DEF ProcessTypeOK, OurStates
<1>2. Spent => Spent'
  BY DEF Spent
<1>3. Alive("own")' => Alive("own")
  BY DEF Alive
<1>4. UNCHANGED <<UsesScope, Past, Unowned, Closed>>
  BY DEF UsesScope, Past, Unowned, Closed
<1>5. StagesOK'
  BY <1>4 DEF StagesOK
<1>6. KnownOK'
  BY <1>2 DEF KnownOK
<1>7. AskedOK'
  BY DEF AskedOK
<1>8. ClosesOK'
  BY <1>3, <1>4 DEF ClosesOK
<1>9. ToldOK'
  BY <1>2, <1>3, <1>4 DEF ToldOK
<1>10. QED
  BY <1>1, <1>5, <1>6, <1>7, <1>8, <1>9

(* Chrome and the launch of Playwright go their own ways. *)
LEMMA PlaywrightKeeps ==
    ASSUME ProcessInv, ProcessConstants, Playwright /\ UNCHANGED <<own, start, closes, reaper, answer, dropped>>,
           UNCHANGED host
    PROVE  ProcessInv'
<1> USE DEF ProcessInv
<1>1. own \in OwnFields /\ own' \in OwnFields
  BY DEF ProcessTypeOK, OwnFields, UsesScope, Playwright, NoFault, Fails
<1>2. own' = own /\ closes' = closes
  BY <1>1 DEF OwnFields, Playwright, NoFault, Fails
<1>3. start' \in StartPCs /\ (own'.settled <=> start' \in {"done", "failed"})
  BY <1>1, <1>2 DEF ProcessTypeOK, StartPCs, Preparing, Playwright, NoFault, Fails
<1>4. ProcessTypeOK'
  BY <1>1, <1>3 DEF OwnFields, ProcessTypeOK, States, ProcessConstants, Playwright, NoFault, Fails
<1>5. Spent => Spent'
  BY <1>1, <1>2 DEF Spent, Refusing, Ending, StagesOK, ProcessTypeOK, Playwright, NoFault, Fails
<1>6. StagesOK'
  BY <1>1, <1>2 DEF StagesOK, KnownOK, Unlaunching, Preparing, Unowned, Past, Ending, UsesScope,
         ProcessTypeOK, Playwright, NoFault, Fails
<1>7. KnownOK'
  BY <1>1, <1>2, <1>5
     DEF KnownOK, StagesOK, Refusing, Ending, Holder, Alive, ProcessTypeOK, Playwright, NoFault,
         Fails
<1>8. AskedOK'
  BY <1>1, <1>2 DEF AskedOK, StagesOK, ProcessTypeOK, Playwright, NoFault, Fails
<1>9. ClosesOK'
  BY <1>1, <1>2 DEF ClosesOK, StagesOK, UsesScope, Alive, ProcessTypeOK, Playwright, NoFault, Fails
<1>10. Past => Past'
  BY <1>1, <1>2 DEF Past, Unlaunching, Preparing, Playwright, NoFault, Fails
<1>11. (Closed => Closed') /\ (Closed' => Closed)
  BY DEF Closed, Playwright, NoFault, Fails
<1>12. ToldOK'
  BY <1>1, <1>2, <1>5, <1>10, <1>11
     DEF ToldOK, Alive, UsesScope, StagesOK, Spent, ProcessTypeOK, Playwright, NoFault, Fails
<1>13. QED
  BY <1>4, <1>6, <1>7, <1>8, <1>9, <1>12

LEMMA ChromeUpKeeps ==
    ASSUME ProcessInv, ProcessConstants, ChromeUp /\ UNCHANGED <<own, start, closes, reaper, answer, dropped>>,
           UNCHANGED host
    PROVE  ProcessInv'
<1> USE DEF ProcessInv
<1>1. own \in OwnFields /\ own' \in OwnFields
  BY DEF ProcessTypeOK, OwnFields, UsesScope, ChromeUp, NoFault
<1>2. own' = own /\ closes' = closes
  BY <1>1 DEF OwnFields, ChromeUp, NoFault
<1>3. start' \in StartPCs /\ (own'.settled <=> start' \in {"done", "failed"})
  BY <1>1, <1>2 DEF ProcessTypeOK, StartPCs, Preparing, ChromeUp, NoFault
<1>4. ProcessTypeOK'
  BY <1>1, <1>3 DEF OwnFields, ProcessTypeOK, States, ProcessConstants, ChromeUp, NoFault
<1>5. Spent => Spent'
  BY <1>1, <1>2 DEF Spent, Refusing, Ending, StagesOK, ProcessTypeOK, ChromeUp, NoFault
<1>6. StagesOK'
  BY <1>1, <1>2 DEF StagesOK, KnownOK, Unlaunching, Preparing, Unowned, Past, Ending, UsesScope,
         ProcessTypeOK, ChromeUp, NoFault
<1>7. KnownOK'
  BY <1>1, <1>2, <1>5
     DEF KnownOK, StagesOK, Refusing, Ending, Holder, Alive, ProcessTypeOK, ChromeUp, NoFault
<1>8. AskedOK'
  BY <1>1, <1>2 DEF AskedOK, StagesOK, ProcessTypeOK, ChromeUp, NoFault
<1>9. ClosesOK'
  BY <1>1, <1>2 DEF ClosesOK, StagesOK, UsesScope, Alive, ProcessTypeOK, ChromeUp, NoFault
<1>10. Past => Past'
  BY <1>1, <1>2 DEF Past, Unlaunching, Preparing, ChromeUp, NoFault
<1>11. (Closed => Closed') /\ (Closed' => Closed)
  BY DEF Closed, ChromeUp, NoFault
<1>12. ToldOK'
  BY <1>1, <1>2, <1>5, <1>10, <1>11 DEF ToldOK, Alive, UsesScope, ChromeUp, NoFault
<1>13. QED
  BY <1>4, <1>6, <1>7, <1>8, <1>9, <1>12

LEMMA BeginKeeps ==
    ASSUME ProcessInv, ProcessConstants, Begin, UNCHANGED host
    PROVE  ProcessInv'
<1> USE DEF ProcessInv
<1>1. own \in OwnFields /\ own' \in OwnFields
  BY DEF ProcessTypeOK, OwnFields, UsesScope, Begin
<1>2. own' = own /\ closes' = closes
  BY <1>1 DEF OwnFields, Begin
<1>3. start' \in StartPCs /\ (own'.settled <=> start' \in {"done", "failed"})
  BY <1>1, <1>2 DEF ProcessTypeOK, StartPCs, Preparing, Begin
<1>4. ProcessTypeOK'
  BY <1>1, <1>3 DEF OwnFields, ProcessTypeOK, States, ProcessConstants, Begin
<1>5. Spent => Spent'
  BY <1>1, <1>2 DEF Spent, Refusing, Ending, StagesOK, ProcessTypeOK, Begin
<1>6. StagesOK'
  BY <1>1, <1>2 DEF StagesOK, KnownOK, Unlaunching, Preparing, Unowned, Past, Ending, UsesScope,
         ProcessTypeOK, Begin
<1>7. KnownOK'
  BY <1>1, <1>2, <1>5 DEF KnownOK, StagesOK, Refusing, Ending, Holder, Alive, ProcessTypeOK, Begin
<1>8. AskedOK'
  BY <1>1, <1>2 DEF AskedOK, StagesOK, ProcessTypeOK, Begin
<1>9. ClosesOK'
  BY <1>1, <1>2 DEF ClosesOK, StagesOK, UsesScope, Alive, ProcessTypeOK, Begin
<1>10. Past => Past'
  BY <1>1, <1>2 DEF Past, Unlaunching, Preparing, Begin
<1>11. (Closed => Closed') /\ (Closed' => Closed)
  BY DEF Closed, Begin
<1>12. ToldOK'
  BY <1>1, <1>2, <1>5, <1>10, <1>11 DEF ToldOK, Alive, UsesScope, Begin
<1>13. QED
  BY <1>4, <1>6, <1>7, <1>8, <1>9, <1>12

LEMMA EndpointKeeps ==
    ASSUME ProcessInv, ProcessConstants, Endpoint, UNCHANGED host
    PROVE  ProcessInv'
<1> USE DEF ProcessInv
<1>1. own \in OwnFields /\ own' \in OwnFields
      /\ own' \in {own, [own EXCEPT !.childId = TRUE]}
 <2>1. own \in OwnFields
   BY DEF ProcessTypeOK, OwnFields
 <2>2. own' \in {own, [own EXCEPT !.childId = TRUE]}
   BY DEF Endpoint
 <2>3. own' \in OwnFields
   BY <2>1, <2>2 DEF OwnFields
 <2>4. QED
   BY <2>1, <2>2, <2>3
<1>2. own'.cancel = own.cancel /\ own'.committed = own.committed /\ own'.fallback = own.fallback
      /\ own'.settled = own.settled /\ own'.child = own.child /\ own'.launched = own.launched /\
      own'.holder = own.holder /\ own'.proof = own.proof
  BY <1>1 DEF OwnFields
<1>3. start' \in StartPCs /\ (own'.settled <=> start' \in {"done", "failed"})
  BY <1>1, <1>2 DEF ProcessTypeOK, StartPCs, Preparing, Endpoint, NoFault, Fails, world
<1>4. ProcessTypeOK'
  BY <1>1, <1>3
     DEF OwnFields, ProcessTypeOK, States, ProcessConstants, Endpoint, NoFault, Fails, world
<1>5. Spent => Spent'
  BY <1>1, <1>2
     DEF Spent, Refusing, Ending, StagesOK, ProcessTypeOK, Endpoint, NoFault, Fails, world
<1>6. StagesOK'
  BY <1>1, <1>2 DEF StagesOK, KnownOK, Unlaunching, Preparing, Unowned, Past, Ending, UsesScope,
         ProcessTypeOK, Endpoint, NoFault, Fails, world
<1>7. KnownOK'
  BY <1>1, <1>2, <1>5
     DEF KnownOK, StagesOK, Refusing, Ending, Holder, Alive, ProcessTypeOK, Endpoint, NoFault,
         Fails, world
<1>8. AskedOK'
  BY <1>1, <1>2 DEF AskedOK, StagesOK, ProcessTypeOK, Endpoint, NoFault, Fails, world
<1>9. ClosesOK'
  BY <1>1, <1>2
     DEF ClosesOK, StagesOK, UsesScope, Alive, ProcessTypeOK, Endpoint, NoFault, Fails, world
<1>10. Past => Past'
  BY <1>1, <1>2 DEF Past, Unlaunching, Preparing, Endpoint, NoFault, Fails, world
<1>11. (Closed => Closed') /\ (Closed' => Closed)
  BY DEF Closed, Endpoint, NoFault, Fails, world
<1>12. ToldOK'
  BY <1>1, <1>2, <1>5, <1>10, <1>11 DEF ToldOK, Alive, UsesScope, Endpoint, NoFault, Fails, world
<1>13. QED
  BY <1>4, <1>6, <1>7, <1>8, <1>9, <1>12

LEMMA IdentityKeeps ==
    ASSUME ProcessInv, ProcessConstants, Identity, UNCHANGED host
    PROVE  ProcessInv'
<1> USE DEF ProcessInv
<1>1. own \in OwnFields /\ own' \in OwnFields
      /\ own' \in {own, [own EXCEPT !.childId = TRUE, !.proof = "own"]}
 <2>1. own \in OwnFields
   BY DEF ProcessTypeOK, OwnFields
 <2>2. own' \in {own, [own EXCEPT !.childId = TRUE, !.proof = "own"]}
   BY DEF Identity
 <2>3. own' \in OwnFields
   BY <2>1, <2>2 DEF OwnFields
 <2>4. QED
   BY <2>1, <2>2, <2>3
<1>2. own'.cancel = own.cancel /\ own'.committed = own.committed /\ own'.fallback = own.fallback
      /\ own'.settled = own.settled /\ own'.child = own.child /\ own'.launched = own.launched /\
      own'.holder = own.holder
 <2>1. CASE own' = own
   BY <1>1, <2>1 DEF OwnFields
 <2>2. CASE own' = [own EXCEPT !.childId = TRUE, !.proof = "own"]
   BY <1>1, <2>2 DEF OwnFields
 <2>3. QED
   BY <1>1, <2>1, <2>2
<1>3. start' \in StartPCs /\ (own'.settled <=> start' \in {"done", "failed"})
  BY <1>1, <1>2 DEF ProcessTypeOK, StartPCs, Preparing, Identity, NoFault, Fails, world
<1>4. ProcessTypeOK'
  BY <1>1, <1>3
     DEF OwnFields, ProcessTypeOK, States, ProcessConstants, Identity, NoFault, Fails, world
<1>5. Spent => Spent'
  BY <1>1, <1>2
     DEF Spent, Refusing, Ending, StagesOK, ProcessTypeOK, Identity, NoFault, Fails, world
<1>6. StagesOK'
  BY <1>1, <1>2 DEF StagesOK, KnownOK, Unlaunching, Preparing, Unowned, Past, Ending, UsesScope,
         ProcessTypeOK, Identity, NoFault, Fails, world
<1>7. KnownOK'
 <2>0. ours' = ours /\ other' = other /\ pw' = pw /\ closes' = closes
       /\ start = "identity" /\ start' = "connect"
   BY DEF Identity, world
 <2>1. own'.childId \/ own'.holder \/ own'.proof = "own" => ours' # "none"
  <3>1. CASE own' = own
    BY <2>0, <3>1 DEF KnownOK
  <3>2. CASE own' # own
    BY <2>0, <3>2 DEF Identity, Alive
  <3>3. QED
    BY <3>1, <3>2
 <2>2. own'.proof = "other" => own.proof = "other"
   BY <1>1 DEF OwnFields
 <2>3. ~Alive("other")
   BY <2>0 DEF KnownOK, Refusing, Ending
 <2>4. ~Alive("other")'
   BY <2>0, <2>3 DEF Alive
 <2>5. QED
   BY <1>5, <2>0, <2>1, <2>2, <2>4 DEF KnownOK
<1>8. AskedOK'
  BY <1>1, <1>2 DEF AskedOK, StagesOK, ProcessTypeOK, Identity, NoFault, Fails, world
<1>9. ClosesOK'
  BY <1>1, <1>2
     DEF ClosesOK, StagesOK, UsesScope, Alive, ProcessTypeOK, Identity, NoFault, Fails, world
<1>10. Past => Past'
  BY <1>1, <1>2 DEF Past, Unlaunching, Preparing, Identity, NoFault, Fails, world
<1>11. (Closed => Closed') /\ (Closed' => Closed)
  BY DEF Closed, Identity, NoFault, Fails, world
<1>12. ToldOK'
  BY <1>1, <1>2, <1>5, <1>10, <1>11 DEF ToldOK, Alive, UsesScope, Identity, NoFault, Fails, world
<1>13. QED
  BY <1>4, <1>6, <1>7, <1>8, <1>9, <1>12

LEMMA ConnectKeeps ==
    ASSUME ProcessInv, ProcessConstants, Connect, UNCHANGED host
    PROVE  ProcessInv'
<1> USE DEF ProcessInv
<1>1. own \in OwnFields /\ own' \in OwnFields
  BY DEF ProcessTypeOK, OwnFields, UsesScope, Connect, Throw, NoFault, Fails, world
<1>2. own' = own /\ closes' = closes
  BY <1>1 DEF OwnFields, Connect, Throw, NoFault, Fails, world
<1>3. start' \in StartPCs /\ (own'.settled <=> start' \in {"done", "failed"})
  BY <1>1, <1>2 DEF ProcessTypeOK, StartPCs, Preparing, Connect, Throw, NoFault, Fails, world
<1>4. ProcessTypeOK'
  BY <1>1, <1>3
     DEF OwnFields, ProcessTypeOK, States, ProcessConstants, Connect, Throw, NoFault, Fails,
         world
<1>5. Spent => Spent'
  BY <1>1, <1>2
     DEF Spent, Refusing, Ending, StagesOK, ProcessTypeOK, Connect, Throw, NoFault, Fails, world
<1>6. StagesOK'
  BY <1>1, <1>2 DEF StagesOK, KnownOK, Unlaunching, Preparing, Unowned, Past, Ending, UsesScope,
         ProcessTypeOK, Connect, Throw, NoFault, Fails, world
<1>7. KnownOK'
  BY <1>1, <1>2, <1>5
     DEF KnownOK, StagesOK, Refusing, Ending, Holder, Alive, ProcessTypeOK, Connect, Throw,
         NoFault, Fails, world
<1>8. AskedOK'
  BY <1>1, <1>2 DEF AskedOK, StagesOK, ProcessTypeOK, Connect, Throw, NoFault, Fails, world
<1>9. ClosesOK'
  BY <1>1, <1>2
     DEF ClosesOK, StagesOK, UsesScope, Alive, ProcessTypeOK, Connect, Throw, NoFault, Fails,
         world
<1>10. Past => Past'
  BY <1>1, <1>2 DEF Past, Unlaunching, Preparing, Connect, Throw, NoFault, Fails, world
<1>11. (Closed => Closed') /\ (Closed' => Closed)
  BY DEF Closed, Connect, Throw, NoFault, Fails, world
<1>12. ToldOK'
  BY <1>1, <1>2, <1>5, <1>10, <1>11
     DEF ToldOK, Alive, UsesScope, Connect, Throw, NoFault, Fails, world
<1>13. QED
  BY <1>4, <1>6, <1>7, <1>8, <1>9, <1>12

LEMMA RaceKeeps ==
    ASSUME ProcessInv, ProcessConstants, Race, UNCHANGED host
    PROVE  ProcessInv'
<1> USE DEF ProcessInv
<1>1. own \in OwnFields /\ own' \in OwnFields
      /\ own' \in {own, [own EXCEPT !.context = TRUE, !.launched = TRUE],
                      [own EXCEPT !.inFlight = FALSE]}
 <2>1. own \in OwnFields
   BY DEF ProcessTypeOK, OwnFields
 <2>2. own' \in {own, [own EXCEPT !.context = TRUE, !.launched = TRUE],
                   [own EXCEPT !.inFlight = FALSE]}
   BY DEF Race, Throw
 <2>3. own' \in OwnFields
   BY <2>1, <2>2 DEF OwnFields
 <2>4. QED
   BY <2>1, <2>2, <2>3
<1>2. own'.cancel = own.cancel /\ own'.committed = own.committed /\ own'.fallback = own.fallback
      /\ own'.settled = own.settled /\ own'.child = own.child /\ own'.childId = own.childId /\
      own'.holder = own.holder /\ own'.proof = own.proof
 <2>1. CASE own' = own
   BY <1>1, <2>1 DEF OwnFields
 <2>2. CASE own' = [own EXCEPT !.context = TRUE, !.launched = TRUE]
   BY <1>1, <2>2 DEF OwnFields
 <2>3. CASE own' = [own EXCEPT !.inFlight = FALSE]
   BY <1>1, <2>3 DEF OwnFields
 <2>4. QED
   BY <1>1, <2>1, <2>2, <2>3
<1>3. start' \in StartPCs /\ (own'.settled <=> start' \in {"done", "failed"})
  BY <1>1, <1>2 DEF ProcessTypeOK, StartPCs, Preparing, Race, Throw, NoFault, world
<1>4. ProcessTypeOK'
  BY <1>1, <1>3 DEF OwnFields, ProcessTypeOK, States, ProcessConstants, Race, Throw, NoFault, world
<1>5. Spent => Spent'
  BY <1>1, <1>2 DEF Spent, Refusing, Ending, StagesOK, ProcessTypeOK, Race, Throw, NoFault, world
<1>6. StagesOK'
  BY <1>1, <1>2 DEF StagesOK, KnownOK, Unlaunching, Preparing, Unowned, Past, Ending, UsesScope,
         ProcessTypeOK, Race, Throw, NoFault, world
<1>7. KnownOK'
  BY <1>1, <1>2, <1>5
     DEF KnownOK, StagesOK, Refusing, Ending, Holder, Alive, ProcessTypeOK, Race, Throw,
         NoFault, world
<1>8. AskedOK'
  BY <1>1, <1>2 DEF AskedOK, StagesOK, ProcessTypeOK, Race, Throw, NoFault, world
<1>9. ClosesOK'
  BY <1>1, <1>2 DEF ClosesOK, StagesOK, UsesScope, Alive, ProcessTypeOK, Race, Throw, NoFault, world
<1>10. Past => Past'
  BY <1>1, <1>2 DEF Past, Unlaunching, Preparing, Race, Throw, NoFault, world
<1>11. (Closed => Closed') /\ (Closed' => Closed)
  BY DEF Closed, Race, Throw, NoFault, world
<1>12. ToldOK'
  BY <1>1, <1>2, <1>5, <1>10, <1>11 DEF ToldOK, Alive, UsesScope, Race, Throw, NoFault, world
<1>13. QED
  BY <1>4, <1>6, <1>7, <1>8, <1>9, <1>12

LEMMA MonitorKeeps ==
    ASSUME ProcessInv, ProcessConstants, Monitor, UNCHANGED host
    PROVE  ProcessInv'
<1> USE DEF ProcessInv
<1>1. own \in OwnFields /\ own' \in OwnFields
  BY DEF ProcessTypeOK, OwnFields, UsesScope, Monitor
<1>2. own'.cancel = own.cancel /\ own'.committed = own.committed /\ own'.fallback = own.fallback
      /\ own'.settled = own.settled /\ own'.child = own.child /\ own'.launched = own.launched /\
      own'.childId = own.childId
  BY <1>1 DEF OwnFields, Monitor
<1>3. start' \in StartPCs /\ (own'.settled <=> start' \in {"done", "failed"})
  BY <1>1, <1>2 DEF ProcessTypeOK, StartPCs, Preparing, Monitor
<1>4. ProcessTypeOK'
  BY <1>1, <1>3 DEF OwnFields, ProcessTypeOK, States, ProcessConstants, Monitor
<1>5. Spent => Spent'
  BY <1>1, <1>2 DEF Spent, Refusing, Ending, StagesOK, ProcessTypeOK, Monitor
<1>6. StagesOK'
  BY <1>1, <1>2 DEF StagesOK, KnownOK, Unlaunching, Preparing, Unowned, Past, Ending, UsesScope,
         ProcessTypeOK, Monitor
<1>7. KnownOK'
  BY <1>1, <1>2, <1>5 DEF KnownOK, StagesOK, Refusing, Ending, Holder, Alive, ProcessTypeOK, Monitor
<1>8. AskedOK'
  BY <1>1, <1>2 DEF AskedOK, StagesOK, ProcessTypeOK, Monitor
<1>9. ClosesOK'
  BY <1>1, <1>2 DEF ClosesOK, StagesOK, UsesScope, Alive, ProcessTypeOK, Monitor
<1>10. Past => Past'
  BY <1>1, <1>2 DEF Past, Unlaunching, Preparing, Monitor
<1>11. (Closed => Closed') /\ (Closed' => Closed)
  BY DEF Closed, Monitor
<1>12. ToldOK'
  BY <1>1, <1>2, <1>5, <1>10, <1>11 DEF ToldOK, Alive, UsesScope, Monitor
<1>13. QED
  BY <1>4, <1>6, <1>7, <1>8, <1>9, <1>12

LEMMA CloseKeeps ==
    ASSUME ProcessInv, ProcessConstants, Close, UNCHANGED host
    PROVE  ProcessInv'
<1> USE DEF ProcessInv
<1>1. own \in OwnFields /\ own' \in OwnFields
  BY DEF ProcessTypeOK, OwnFields, UsesScope, Close
<1>2. own' = own /\ closes' = closes
  BY <1>1 DEF OwnFields, Close
<1>3. start' \in StartPCs /\ (own'.settled <=> start' \in {"done", "failed"})
  BY <1>1, <1>2 DEF ProcessTypeOK, StartPCs, Preparing, Close
<1>4. ProcessTypeOK'
 <2>1. answer \in [Closers \ {"start"} -> States \cup {"none", "pending", "early", "raced", "error"}]
   BY DEF ProcessTypeOK
 <2>2. answer' \in [Closers \ {"start"} -> States \cup {"none", "pending", "early", "raced", "error"}]
   BY <2>1 DEF Close
 <2>3. QED
   BY <1>1, <1>2, <1>3, <2>2 DEF ProcessTypeOK, OwnFields, Close
<1>5. Spent => Spent'
  BY <1>1, <1>2 DEF Spent, Refusing, Ending, StagesOK, ProcessTypeOK, Close
<1>6. StagesOK'
  BY <1>1, <1>2 DEF StagesOK, KnownOK, Unlaunching, Preparing, Unowned, Past, Ending, UsesScope,
         ProcessTypeOK, Close
<1>7. KnownOK'
  BY <1>1, <1>2, <1>5 DEF KnownOK, StagesOK, Refusing, Ending, Holder, Alive, ProcessTypeOK, Close
<1>8. AskedOK'
  BY <1>1, <1>2 DEF AskedOK, StagesOK, ProcessTypeOK, Close
<1>9. ClosesOK'
  BY <1>1, <1>2 DEF ClosesOK, StagesOK, UsesScope, Alive, ProcessTypeOK, Close
<1>10. Past => Past'
  BY <1>1, <1>2 DEF Past, Unlaunching, Preparing, Close
<1>11. (Closed => Closed') /\ (Closed' => Closed)
  BY DEF Closed, Close
<1>12. ToldOK'
  BY <1>1, <1>2, <1>5, <1>10, <1>11 DEF ToldOK, Alive, UsesScope, Close
<1>13. QED
  BY <1>4, <1>6, <1>7, <1>8, <1>9, <1>12

LEMMA CancelStartKeeps ==
    ASSUME ProcessInv, ProcessConstants, CancelStart, UNCHANGED host
    PROVE  ProcessInv'
<1> USE DEF ProcessInv
<1>1. own \in OwnFields /\ own' \in OwnFields
  BY DEF ProcessTypeOK, OwnFields, UsesScope, CancelStart
<1>2. own'.committed = own.committed /\ own'.fallback = own.fallback /\ own'.settled = own.settled
      /\ own'.child = own.child /\ own'.launched = own.launched /\ own'.childId = own.childId /\
      own'.holder = own.holder /\ own'.proof = own.proof
  BY <1>1 DEF OwnFields, CancelStart
<1>3. start' \in StartPCs /\ (own'.settled <=> start' \in {"done", "failed"})
  BY <1>1, <1>2 DEF ProcessTypeOK, StartPCs, Preparing, CancelStart
<1>4. ProcessTypeOK'
  BY <1>1, <1>3 DEF OwnFields, ProcessTypeOK, States, ProcessConstants, CancelStart
<1>5. Spent => Spent'
  BY <1>1, <1>2 DEF Spent, Refusing, Ending, StagesOK, ProcessTypeOK, CancelStart
<1>6. StagesOK'
  BY <1>1, <1>2 DEF StagesOK, KnownOK, Unlaunching, Preparing, Unowned, Past, Ending, UsesScope,
         ProcessTypeOK, CancelStart
<1>7. KnownOK'
  BY <1>1, <1>2, <1>5
     DEF KnownOK, StagesOK, Refusing, Ending, Holder, Alive, ProcessTypeOK, CancelStart
<1>8. AskedOK'
  BY <1>1, <1>2 DEF AskedOK, StagesOK, ProcessTypeOK, CancelStart
<1>9. ClosesOK'
  BY <1>1, <1>2 DEF ClosesOK, StagesOK, UsesScope, Alive, ProcessTypeOK, CancelStart
<1>10. Past => Past'
  BY <1>1, <1>2 DEF Past, Unlaunching, Preparing, CancelStart
<1>11. (Closed => Closed') /\ (Closed' => Closed)
  BY DEF Closed, CancelStart
<1>12. ToldOK'
  BY <1>1, <1>2, <1>5, <1>10, <1>11 DEF ToldOK, Alive, UsesScope, CancelStart
<1>13. QED
  BY <1>4, <1>6, <1>7, <1>8, <1>9, <1>12

LEMMA PrepareKeeps ==
    ASSUME ProcessInv, ProcessConstants, Prepare, UNCHANGED host
    PROVE  ProcessInv'
<1> USE DEF ProcessInv
<1>1. UNCHANGED <<own, closes, ours, other, hit, pw, reaper, answer, dropped>>
  BY DEF Prepare, Throw, world
<1>2. faults' \in 0..MaxFailures
  BY DEF Prepare, NoFault, Fails, ProcessTypeOK, ProcessConstants
<1>3. /\ start \in {"channel", "proxy", "display", "geo"}
      /\ start' \in {"catch", "proxy", "display", "geo", "policy"}
      /\ own.cancel => start' \in {"catch", "geo"}
      /\ Holder # "none" => start' # "policy"
  BY DEF Prepare, Throw, After, Preparing
<1>4. ProcessTypeOK'
  BY <1>1, <1>2, <1>3 DEF ProcessTypeOK, StartPCs, Preparing
<1>5. Spent => Spent'
  BY <1>1, <1>3 DEF Spent, Refusing, Ending
<1>6. StagesOK'
  BY <1>1, <1>3 DEF StagesOK, Unlaunching, Preparing, Unowned, Ending, UsesScope
<1>7. KnownOK'
  BY <1>1, <1>3, <1>5 DEF KnownOK, StagesOK, Refusing, Ending, Holder, Alive, Preparing
<1>8. AskedOK'
  BY <1>1 DEF AskedOK
<1>9. ClosesOK'
  BY <1>1, <1>3 DEF ClosesOK, UsesScope, Alive, ProcessTypeOK
<1>10. Past => Past'
  BY <1>3 DEF Past, Unlaunching, Preparing
<1>11. ToldOK'
  BY <1>1, <1>5, <1>10 DEF ToldOK, Closed, Alive, UsesScope
<1>12. QED
  BY <1>4, <1>6, <1>7, <1>8, <1>9, <1>11

LEMMA SpawnKeeps ==
    ASSUME ProcessInv, ProcessConstants, Spawn, UNCHANGED host
    PROVE  ProcessInv'
<1> USE DEF ProcessInv
<1>1. /\ start = "policy" /\ UNCHANGED <<other, hit, reaper, answer, dropped, closes>>
  BY DEF Spawn, Throw, world
<1>2. own \in OwnFields /\ own.settled = FALSE /\ faults' \in 0..MaxFailures
 <2>1. own \in OwnFields /\ own.settled = FALSE
   BY <1>1 DEF ProcessTypeOK, OwnFields
 <2>2. NoFault \/ Fails
   BY DEF Spawn
 <2>3. QED
   BY <2>1, <2>2 DEF NoFault, Fails, ProcessTypeOK, ProcessConstants
<1>3. /\ ours = "none" /\ pw = "none" /\ own.fallback = "none" /\ Unowned /\ ~dropped
      /\ other \notin {"up", "quitting"}
  BY <1>1 DEF StagesOK, Preparing, Unlaunching, Ending, KnownOK, Alive, Refusing
<1>4. ~Spent
  BY <1>1 DEF Spent, Refusing, Ending
<1>5. /\ own.proof = "none" /\ ~own.childId /\ ~own.holder
      /\ \A c \in Closers : closes[c].knows = "none"
  BY <1>2, <1>3, <1>4 DEF KnownOK, OwnFields, ProcessTypeOK
<1>6. ~Closed /\ ~Closed'
  BY <1>1, <1>2, <1>3, <1>4 DEF ToldOK, Past, Unlaunching, Preparing, Closed
<1>7. closes["start"].pc = "idle"
  BY <1>1 DEF ClosesOK, ProcessTypeOK, Closers
<1>8. CASE start' = "catch" /\ own' = own /\ UNCHANGED <<ours, pw>>
 <2>1. ProcessTypeOK'
   BY <1>1, <1>2, <1>8 DEF ProcessTypeOK, StartPCs
 <2>2. StagesOK' /\ AskedOK'
   BY <1>1, <1>3, <1>5, <1>8 DEF StagesOK, AskedOK, Unlaunching, Preparing, Unowned, UsesScope
 <2>3. KnownOK' /\ ClosesOK' /\ ToldOK'
   BY <1>1, <1>3, <1>5, <1>6, <1>7, <1>8 DEF KnownOK, ClosesOK, ToldOK, Alive, UsesScope
 <2>4. QED
   BY <2>1, <2>2, <2>3
<1>9. CASE /\ host.spawns /\ ~own.cancel /\ ours' = "forked" /\ start' = "endpoint" /\ UNCHANGED pw
           /\ \E seen \in IF UsesScope THEN {FALSE} ELSE BOOLEAN :
                 own' = [own EXCEPT !.child = TRUE, !.committed = TRUE, !.childId = seen,
                                    !.proof = IF seen THEN "own" ELSE @]
 <2>1. PICK seen \in BOOLEAN :
           /\ UsesScope => seen = FALSE
           /\ own' = [own EXCEPT !.child = TRUE, !.committed = TRUE, !.childId = seen,
                                 !.proof = IF seen THEN "own" ELSE @]
   BY <1>9
 <2>2. /\ own' \in OwnFields /\ own'.childId = seen /\ own'.child /\ own'.committed
       /\ own'.proof = (IF seen THEN "own" ELSE own.proof) /\ own'.cancel = own.cancel
       /\ own'.fallback = own.fallback /\ own'.settled = own.settled
   BY <1>2, <2>1 DEF OwnFields
 <2>3. ProcessTypeOK'
   BY <1>1, <1>2, <1>9, <2>2 DEF ProcessTypeOK, StartPCs, OwnFields
 <2>4. StagesOK' /\ AskedOK'
   BY <1>1, <1>3, <1>5, <1>9, <2>1, <2>2
      DEF StagesOK, AskedOK, Unlaunching, Preparing, Unowned, UsesScope
 <2>5. KnownOK'
   BY <1>1, <1>3, <1>5, <1>9, <2>1, <2>2 DEF KnownOK, Alive
 <2>6. ClosesOK' /\ ToldOK'
   BY <1>1, <1>3, <1>5, <1>6, <1>7, <1>9, <2>1, <2>2 DEF ClosesOK, ToldOK, Alive, UsesScope
 <2>7. QED
   BY <2>3, <2>4, <2>5, <2>6
<1>10. CASE /\ start' = "launching" /\ pw' = "pending" /\ UNCHANGED ours
            /\ own' = [own EXCEPT !.inFlight = TRUE]
 <2>1. /\ own' \in OwnFields /\ own'.childId = own.childId /\ own'.child = own.child
       /\ own'.proof = own.proof /\ own'.cancel = own.cancel /\ own'.holder = own.holder
       /\ own'.committed = own.committed /\ own'.launched = own.launched
       /\ own'.fallback = own.fallback /\ own'.settled = own.settled
   BY <1>2, <1>10 DEF OwnFields
 <2>2. ProcessTypeOK'
   BY <1>1, <1>2, <1>10, <2>1 DEF ProcessTypeOK, StartPCs, OwnFields
 <2>3. StagesOK' /\ AskedOK'
   BY <1>1, <1>3, <1>5, <1>10, <2>1
      DEF StagesOK, AskedOK, Unlaunching, Preparing, Unowned, UsesScope
 <2>4. KnownOK'
   BY <1>1, <1>3, <1>5, <1>10, <2>1 DEF KnownOK, Alive
 <2>5. ClosesOK' /\ ToldOK'
   BY <1>1, <1>3, <1>5, <1>6, <1>7, <1>10, <2>1 DEF ClosesOK, ToldOK, Alive, UsesScope
 <2>6. QED
   BY <2>2, <2>3, <2>4, <2>5
<1>11. QED
  BY <1>8, <1>9, <1>10 DEF Spawn, Throw, world

(* A step of the start that gives up: its catch comes next. *)
LEMMA ThrowKeeps ==
    ASSUME ProcessInv, NEW o \in OwnFields, Throw(o), Wanes, faults' \in 0..MaxFailures,
           UNCHANGED <<pw, reaper, answer, host>>, dropped' \in BOOLEAN,
           start \notin {"idle", "done", "failed", "closing", "catch", "catching"},
           o.cancel = own.cancel, o.committed = own.committed, o.settled = own.settled,
           o.child => own.child, o.launched => own.launched,
           o.childId \/ o.holder \/ o.proof = "own" => ours # "none",
           o.proof = "other" => own.proof = "other", UsesScope => o.proof = "none",
           o.fallback # own.fallback => start = "late",
           o.fallback = "closed" => ours' = "dead",
           pw = "pending" \/ ours' = "forked" => dropped'
    PROVE  ProcessInv'
<1> USE DEF ProcessInv
<1>1. /\ own' = o /\ start' = "catch" /\ UNCHANGED closes
      /\ own \in OwnFields /\ ~own.settled
  BY DEF Throw, ProcessTypeOK, OwnFields
<1>2. ~dropped /\ own.fallback = "none"
  BY <1>1 DEF StagesOK, Ending, ProcessTypeOK
<1>3. Alive("own")' => Alive("own")
  BY DEF Wanes, Alive
<1>4. ProcessTypeOK'
  BY <1>1 DEF ProcessTypeOK, StartPCs, OwnFields, Wanes, OurStates
<1>5. Spent => Spent'
  BY <1>1 DEF Spent, Ending, Wanes
<1>6. Past => Past'
  BY <1>1, <1>2 DEF Past, Unlaunching, Preparing
<1>7. o.fallback # "none" => Unowned' /\ own.cancel
  BY <1>1, <1>2 DEF StagesOK, Unowned, Unlaunching, OwnFields
<1>8. StagesOK'
  BY <1>1, <1>2, <1>7 DEF StagesOK, Unlaunching, Preparing, Ending, UsesScope, Wanes
<1>9. KnownOK'
  BY <1>1, <1>5 DEF KnownOK, Ending, Wanes, Refusing
<1>10. AskedOK'
  BY <1>1 DEF AskedOK, Wanes
<1>11. ClosesOK'
  BY <1>1, <1>2, <1>3 DEF ClosesOK, UsesScope
<1>12. ToldOK'
  BY <1>1, <1>2, <1>3, <1>5, <1>6 DEF ToldOK, Closed, UsesScope, Wanes
<1>13. QED
  BY <1>4, <1>8, <1>9, <1>10, <1>11, <1>12

(* A start that was cancelled closes what it has. *)
LEMMA StartHeadKeeps ==
    ASSUME ProcessInv, ProcessConstants, NEW o \in OwnFields, CloseHead("start", o),
           UNCHANGED <<ours, other, hit, pw, reaper, answer, dropped, host, faults>>,
           start' \in {"closing", "catching"}, start \in {"permissions", "pages", "ownership", "catch"},
           start = "catch" => start' = "catching",
           own.cancel, o.cancel, ~o.settled, own.committed => o.committed,
           o.fallback = "none", own.fallback = "none",
           o.childId \/ o.holder \/ o.proof = "own" => ours # "none",
           o.proof = "other" => own.proof = "other", UsesScope => o.proof = "none"
    PROVE  ProcessInv'
<1> USE DEF ProcessInv
<1>1. "start" \in Closers /\ own \in OwnFields /\ ~own.settled
  BY DEF Closers, ProcessTypeOK, OwnFields
<1>2. Headed("start", o)
  BY <1>1, HeadEffects
<1>3. /\ own' \in OwnFields /\ closes' \in [Closers -> CloseRuns]
      /\ closes'["start"].pc = "flush"
      /\ \A d \in Closers \ {"start"} : closes'[d] = closes[d]
      /\ own'.cancel /\ ~own'.settled /\ own'.fallback = "none"
      /\ own'.committed = o.committed
  BY <1>2 DEF Headed
<1>4. Spent => Spent'
  BY DEF Spent, Ending
<1>5. Holder = "own" => ours # "none"
  BY DEF Holder
<1>6. Holder = "other" => Spent
  BY DEF Holder, Alive, KnownOK, Spent, Ending, Refusing
<1>7. closes'["start"].knows = "own" => ours # "none"
  BY <1>2, <1>5 DEF Headed
<1>8. closes'["start"].knows = "other" => Spent
  BY <1>2, <1>6 DEF Headed, KnownOK
<1>9. /\ own'.childId \/ own'.holder \/ own'.proof = "own" => ours # "none"
      /\ own'.proof = "other" => Spent
      /\ UsesScope => own'.proof = "none"
  BY <1>2, <1>7, <1>8 DEF Headed, KnownOK
<1>10. ProcessTypeOK'
  BY <1>3 DEF ProcessTypeOK, StartPCs, OwnFields, CloseRuns
<1>11. StagesOK'
  BY <1>3, <1>9 DEF StagesOK, Unlaunching, Preparing, Ending, UsesScope
<1>12. KnownOK'
  BY <1>3, <1>4, <1>7, <1>8, <1>9 DEF KnownOK, Alive, Ending, Refusing
<1>13. AskedOK'
  BY <1>3 DEF AskedOK
<1>14. ClosesOK'
 <2>1. \A f \in Forcers : f \in Closers \ {"start"}
   BY DEF Closers, ProcessConstants
 <2>2. "close" \in Closers \ {"start"}
   BY DEF Closers
 <2>3. closes["close"].pc # "idle" => answer["close"] = "early" \/ (own.cancel /\ own.committed)
   BY <1>1 DEF ClosesOK
 <2>4. own.committed => o.committed
   OBVIOUS
 <2>5. QED
   BY <1>1, <1>3, <2>1, <2>2, <2>3, <2>4 DEF ClosesOK, UsesScope, Alive
<1>15. ToldOK'
 <2>1. Past'
   BY <1>3 DEF Past, Unlaunching, Preparing
 <2>2. QED
   BY <1>3, <1>4, <2>1 DEF ToldOK, Closed, Alive, UsesScope
<1>16. QED
  BY <1>10, <1>11, <1>12, <1>13, <1>14, <1>15

LEMMA AdoptKeeps ==
    ASSUME ProcessInv, ProcessConstants, NEW o \in OwnFields, Adopt(o),
           UNCHANGED <<ours, other, hit, pw, reaper, answer, dropped, host, faults>>,
           start \in {"permissions", "ownership"},
           o.cancel = own.cancel, o.settled = own.settled, own.committed => o.committed,
           o.fallback = own.fallback,
           o.childId \/ o.holder \/ o.proof = "own" => ours # "none",
           o.proof = "other" => own.proof = "other", UsesScope => o.proof = "none"
    PROVE  ProcessInv'
<1> USE DEF ProcessInv
<1> DEFINE a == Adopted(o)
<1>1. own \in OwnFields /\ ~own.settled /\ own.fallback = "none" /\ ~dropped
  BY DEF ProcessTypeOK, OwnFields, StagesOK, Ending
<1>2. /\ a \in OwnFields /\ a.cancel = o.cancel /\ a.settled = o.settled
      /\ a.committed = o.committed /\ a.fallback = o.fallback /\ a.childId = o.childId
      /\ a.holder = (o.childId \/ Holder = "own")
      /\ a.proof = o.proof \/ (~UsesScope /\ Alive("own") /\ a.proof = "own")
  BY DEF Adopted, OwnFields
<1> HIDE DEF a
<1>3. /\ a.childId \/ a.holder \/ a.proof = "own" => ours # "none"
      /\ a.proof = "other" => own.proof = "other"
      /\ UsesScope => a.proof = "none"
  BY <1>2 DEF Holder, Alive
<1>4. CASE o.cancel
 <2>1. start' = "closing" /\ CloseHead("start", a)
   BY <1>4 DEF Adopt, StartCloses, a
 <2>2. QED
   BY <1>1, <1>2, <1>3, <1>4, <2>1, StartHeadKeeps
<1>5. CASE ~o.cancel
 <2>1. start' = "pages" /\ own' = a /\ UNCHANGED closes
   BY <1>5 DEF Adopt, a
 <2>2. ProcessTypeOK'
   BY <1>1, <1>2, <2>1 DEF ProcessTypeOK, StartPCs, OwnFields
 <2>3. ~Spent
   BY DEF Spent, Ending, Refusing
 <2>4. StagesOK'
   BY <1>1, <1>2, <1>3, <2>1 DEF StagesOK, Unlaunching, Preparing, UsesScope
 <2>5. KnownOK'
   BY <1>3, <2>1, <2>3 DEF KnownOK, Alive, Ending, Refusing
 <2>6. AskedOK'
   BY <2>1 DEF AskedOK
 <2>7. ClosesOK'
   BY <1>1, <1>2, <2>1 DEF ClosesOK, UsesScope, Alive
 <2>8. Past => Past'
   BY <1>1, <1>2, <2>1 DEF Past, Unlaunching, Preparing
 <2>9. ToldOK'
   BY <1>1, <1>2, <2>1, <2>3, <2>8 DEF ToldOK, Closed, Alive, UsesScope
 <2>10. QED
   BY <2>2, <2>4, <2>5, <2>6, <2>7, <2>9
<1>6. QED
  BY <1>2, <1>4, <1>5 DEF OwnFields

LEMMA PermissionsKeeps ==
    ASSUME ProcessInv, ProcessConstants, Permissions, UNCHANGED host
    PROVE  ProcessInv'
<1>1. own \in OwnFields
  BY DEF ProcessInv, ProcessTypeOK, OwnFields
<1>2. /\ Adopt(own) /\ start = "permissions"
      /\ UNCHANGED <<ours, other, hit, pw, reaper, answer, dropped, host, faults>>
  BY DEF Permissions, NoFault, world
<1>3. /\ own.childId \/ own.holder \/ own.proof = "own" => ours # "none"
      /\ UsesScope => own.proof = "none"
  BY DEF ProcessInv, KnownOK, StagesOK
<1>4. QED
  BY <1>1, <1>2, <1>3, AdoptKeeps

LEMMA OwnershipKeeps ==
    ASSUME ProcessInv, ProcessConstants, Ownership, UNCHANGED host
    PROVE  ProcessInv'
<1> USE DEF ProcessInv
<1>1. /\ start = "ownership" /\ UNCHANGED <<ours, other, hit, pw, reaper, answer, dropped, host>>
      /\ own \in OwnFields /\ ~own.settled /\ own.fallback = "none" /\ ~dropped
  BY DEF Ownership, world, ProcessTypeOK, OwnFields, StagesOK, Ending
<1>2. faults' \in 0..MaxFailures
  BY DEF Ownership, NoFault, Fails, Outlasted, ProcessTypeOK, ProcessConstants
<1>3. ~Spent /\ pw # "pending" /\ ours # "forked" /\ (UsesScope => own.proof = "none")
  BY <1>1 DEF Spent, Ending, Refusing, StagesOK
<1> DEFINE o == [own EXCEPT !.holder = TRUE, !.proof = IF UsesScope THEN @ ELSE "own"]
           d == [o EXCEPT !.committed = TRUE, !.inFlight = FALSE]
<1>4. /\ o \in OwnFields /\ o.cancel = own.cancel /\ o.committed = own.committed
      /\ o.settled = own.settled /\ o.child = own.child /\ o.launched = own.launched
      /\ o.fallback = own.fallback /\ o.proof = (IF UsesScope THEN own.proof ELSE "own")
  BY <1>1 DEF OwnFields
<1>5. /\ d \in OwnFields /\ d.cancel = own.cancel /\ d.committed /\ d.settled = own.settled
      /\ d.fallback = own.fallback /\ d.proof = (IF UsesScope THEN own.proof ELSE "own")
  BY <1>1 DEF OwnFields
<1>6. \/ own.proof # "none" \/ (Linux /\ Holder = "own")
      \/ start' = "disown" /\ UNCHANGED <<own, closes>>
  BY DEF Ownership
<1>7. CASE start' = "disown" /\ UNCHANGED <<own, closes>>
 <2>1. ProcessTypeOK'
   BY <1>1, <1>2, <1>7 DEF ProcessTypeOK, StartPCs
 <2>2. Past => Past'
   BY <1>7 DEF Past, Unlaunching, Preparing
 <2>3. StagesOK' /\ AskedOK' /\ ClosesOK'
   BY <1>1, <1>7 DEF StagesOK, AskedOK, ClosesOK, Unlaunching, Preparing, UsesScope, Alive
 <2>4. KnownOK' /\ ToldOK'
   BY <1>1, <1>3, <1>7, <2>2 DEF KnownOK, ToldOK, Closed, UsesScope, Alive, Ending, Refusing
 <2>5. QED
   BY <2>1, <2>3, <2>4
<1>8. CASE ~(start' = "disown" /\ UNCHANGED <<own, closes>>)
 <2>1. /\ own.proof # "none" \/ Holder = "own"
       /\ faults' = faults
       /\ IF own.cancel THEN Throw(o) ELSE Adopt(d)
   BY <1>8 DEF Ownership, NoFault
 <2>2. ours # "none"
   BY <1>1, <1>3, <2>1 DEF Holder, KnownOK, OwnFields
 <2> HIDE DEF o, d
 <2>3. o.proof # "other" /\ d.proof # "other" /\ (UsesScope => o.proof = "none" /\ d.proof = "none")
   BY <1>3, <1>4, <1>5
 <2>4. CASE own.cancel
  <3>1. Throw(o)
    BY <2>1, <2>4
  <3>2. Wanes /\ o.fallback # "closed" /\ dropped' \in BOOLEAN
    BY <1>1, <1>4 DEF Wanes, ProcessTypeOK, OurStates, Alive
  <3>3. QED
    BY <1>1, <1>2, <1>3, <1>4, <2>2, <2>3, <3>1, <3>2, ThrowKeeps
 <2>5. CASE ~own.cancel
  <3>1. Adopt(d)
    BY <2>1, <2>5
  <3>2. QED
    BY <1>1, <1>5, <2>1, <2>2, <2>3, <3>1, AdoptKeeps
 <2>6. QED
   BY <2>4, <2>5
<1>9. QED
  BY <1>7, <1>8

LEMMA PagesKeeps ==
    ASSUME ProcessInv, ProcessConstants, Pages, UNCHANGED host
    PROVE  ProcessInv'
<1> USE DEF ProcessInv
<1>1. /\ start = "pages" /\ UNCHANGED <<ours, other, hit, pw, reaper, answer, dropped, host>>
      /\ own \in OwnFields /\ ~own.settled /\ own.fallback = "none" /\ ~dropped
  BY DEF Pages, world, ProcessTypeOK, OwnFields, StagesOK, Ending
<1>2. faults' \in 0..MaxFailures
  BY DEF Pages, NoFault, Fails, ProcessTypeOK, ProcessConstants
<1>3. /\ ~Spent /\ pw # "pending" /\ ours # "forked" /\ (UsesScope => own.proof = "none")
      /\ own.childId \/ own.holder \/ own.proof = "own" => ours # "none"
  BY <1>1 DEF Spent, Ending, Refusing, StagesOK, KnownOK
<1>4. CASE ours = "up" /\ faults' = faults /\ own.cancel /\ StartCloses(own)
  BY <1>1, <1>3, <1>4, StartHeadKeeps DEF StartCloses
<1>5. CASE Throw(own)
 <2>1. Wanes /\ dropped' \in BOOLEAN
   BY <1>1 DEF Wanes, ProcessTypeOK, OurStates, Alive
 <2>2. QED
   BY <1>1, <1>2, <1>3, <1>5, <2>1, ThrowKeeps
<1>6. CASE /\ ours = "up" /\ ~own.cancel /\ start' = "done" /\ own' = [own EXCEPT !.settled = TRUE]
           /\ UNCHANGED closes
 <2>1. /\ own' \in OwnFields /\ own'.cancel = own.cancel /\ own'.settled
       /\ own'.committed = own.committed /\ own'.fallback = own.fallback
       /\ own'.childId = own.childId /\ own'.holder = own.holder /\ own'.proof = own.proof
   BY <1>1, <1>6 DEF OwnFields
 <2>2. ~Closed
   BY <1>1, <1>3, <1>6 DEF ToldOK
 <2>3. ProcessTypeOK'
   BY <1>1, <1>2, <1>6, <2>1 DEF ProcessTypeOK, StartPCs, OwnFields
 <2>4. StagesOK'
   BY <1>1, <1>6, <2>1 DEF StagesOK, Unlaunching, Preparing, UsesScope
 <2>5. KnownOK' /\ AskedOK'
   BY <1>1, <1>3, <1>6, <2>1 DEF KnownOK, AskedOK, Alive, Refusing, Ending
 <2>6. ClosesOK' /\ ToldOK'
   BY <1>1, <1>6, <2>1, <2>2 DEF ClosesOK, ToldOK, Closed, UsesScope, Alive
 <2>7. QED
   BY <2>3, <2>4, <2>5, <2>6
<1>7. QED
  BY <1>4, <1>5, <1>6 DEF Pages, NoFault

LEMMA CatchKeeps ==
    ASSUME ProcessInv, ProcessConstants, Catch, UNCHANGED host
    PROVE  ProcessInv'
<1> USE DEF ProcessInv
<1>1. /\ start = "catch" /\ UNCHANGED <<ours, other, hit, pw, reaper, answer, faults, dropped, host>>
      /\ own \in OwnFields /\ ~own.settled
  BY DEF Catch, world, ProcessTypeOK, OwnFields
<1>2. /\ UsesScope => own.proof = "none"
      /\ own.childId \/ own.holder \/ own.proof = "own" => ours # "none"
  BY DEF StagesOK, KnownOK
<1>3. CASE own.cancel /\ own.fallback = "none"
 <2>1. start' = "catching" /\ CloseHead("start", own)
   BY <1>3 DEF Catch
 <2>2. QED
   BY <1>1, <1>2, <1>3, <2>1, StartHeadKeeps
<1>4. CASE ~(own.cancel /\ own.fallback = "none")
 <2>1. start' = "failed" /\ own' = [own EXCEPT !.settled = TRUE] /\ UNCHANGED closes
   BY <1>4 DEF Catch
 <2>2. /\ own' \in OwnFields /\ own'.cancel = own.cancel /\ own'.settled
       /\ own'.committed = own.committed /\ own'.fallback = own.fallback
       /\ own'.launched = own.launched /\ own'.child = own.child
       /\ own'.childId = own.childId /\ own'.holder = own.holder /\ own'.proof = own.proof
   BY <1>1, <2>1 DEF OwnFields
 <2>3. Spent => Spent'
   BY <1>1, <2>1 DEF Spent, Ending
 <2>4. Closed /\ UsesScope => ours = "dead"
   BY <1>1, <1>4 DEF ToldOK, Past
 <2>5. ProcessTypeOK'
   BY <1>1, <2>1, <2>2 DEF ProcessTypeOK, StartPCs, OwnFields
 <2>6. StagesOK'
   BY <1>1, <2>1, <2>2 DEF StagesOK, Unlaunching, Preparing, UsesScope, Unowned, Ending
 <2>7. KnownOK' /\ AskedOK'
   BY <1>1, <2>1, <2>2, <2>3 DEF KnownOK, AskedOK, Alive, Refusing, Ending
 <2>8. ClosesOK' /\ ToldOK'
   BY <1>1, <2>1, <2>2, <2>3, <2>4 DEF ClosesOK, ToldOK, Closed, UsesScope, Alive
 <2>9. QED
   BY <2>5, <2>6, <2>7, <2>8
<1>5. QED
  BY <1>3, <1>4

LEMMA UnspawnKeeps ==
    ASSUME ProcessInv, ProcessConstants, Unspawn, UNCHANGED host
    PROVE  ProcessInv'
<1> USE DEF ProcessInv
<1>1. /\ start = "unspawn" /\ UNCHANGED <<pw, reaper, answer, host>>
      /\ own \in OwnFields /\ ~own.settled /\ own.fallback = "none"
      /\ dropped' = (ours' \in {"forked", "up"})
  BY DEF Unspawn, ProcessTypeOK, OwnFields, StagesOK
<1> DEFINE cleared == [own EXCEPT !.child = FALSE, !.childId = FALSE]
<1>2. faults' \in 0..MaxFailures
 <2>1. NoFault \/ Fails
   BY DEF Unspawn, Outlasted
 <2>2. QED
   BY <2>1 DEF NoFault, Fails, ProcessTypeOK, ProcessConstants
<1>3. Wanes
 <2>1. CASE UNCHANGED world
   BY <2>1 DEF Wanes, ProcessTypeOK, OurStates, Alive, world
 <2>2. CASE SignalTree("own", TRUE) \/ SignalTree("none", TRUE)
   BY <2>2, SignalWanes
 <2>3. QED
   BY <2>1, <2>2 DEF Unspawn
<1>4. /\ cleared \in OwnFields /\ cleared.cancel = own.cancel /\ cleared.committed = own.committed
      /\ cleared.settled = own.settled /\ ~cleared.child /\ cleared.launched = own.launched
      /\ ~cleared.childId /\ cleared.holder = own.holder /\ cleared.proof = own.proof
      /\ cleared.fallback = own.fallback
  BY <1>1 DEF OwnFields
<1>5. Throw(own) \/ Throw(cleared)
  BY DEF Unspawn
<1> HIDE DEF cleared
<1>6. /\ UsesScope => own.proof = "none"
      /\ own.childId \/ own.holder \/ own.proof = "own" => ours # "none"
      /\ pw # "pending"
  BY <1>1 DEF StagesOK, KnownOK, Ending
<1>7. pw = "pending" \/ ours' = "forked" => dropped'
  BY <1>1, <1>6
<1>8. dropped' \in BOOLEAN
  BY <1>1
<1>9. CASE Throw(own)
  BY <1>1, <1>2, <1>3, <1>6, <1>7, <1>8, <1>9, ThrowKeeps
<1>10. CASE Throw(cleared)
  BY <1>1, <1>2, <1>3, <1>4, <1>6, <1>7, <1>8, <1>10, ThrowKeeps
<1>11. QED
  BY <1>5, <1>9, <1>10

LEMMA DisownKeeps ==
    ASSUME ProcessInv, ProcessConstants, Disown, UNCHANGED host
    PROVE  ProcessInv'
<1> USE DEF ProcessInv
<1>1. /\ start = "disown" /\ UNCHANGED <<pw, reaper, answer, dropped, host>>
      /\ own \in OwnFields /\ ~own.settled /\ own.fallback = "none" /\ dropped \in BOOLEAN
  BY DEF Disown, ProcessTypeOK, OwnFields, StagesOK
<1> DEFINE o == [own EXCEPT !.inFlight = FALSE, !.context = FALSE, !.launched = FALSE]
           p == [own EXCEPT !.inFlight = FALSE]
<1>2. faults' \in 0..MaxFailures
  BY DEF Disown, NoFault, Fails, ProcessTypeOK, ProcessConstants
<1>3. Wanes
 <2>1. CASE UNCHANGED world
   BY <2>1 DEF Wanes, ProcessTypeOK, OurStates, Alive, world
 <2>2. CASE SignalTree("own", UsesScope)
  <3>1. UsesScope \in BOOLEAN
    BY DEF UsesScope, ProcessTypeOK, ProcessConstants, HostType
  <3>2. QED
    BY <2>2, <3>1, SignalWanes
 <2>3. QED
   BY <2>1, <2>2 DEF Disown
<1>4. /\ o \in OwnFields /\ o.cancel = own.cancel /\ o.committed = own.committed
      /\ o.settled = own.settled /\ o.child = own.child /\ ~o.launched
      /\ o.childId = own.childId /\ o.holder = own.holder /\ o.proof = own.proof
      /\ o.fallback = own.fallback
      /\ p \in OwnFields /\ p.cancel = own.cancel /\ p.committed = own.committed
      /\ p.settled = own.settled /\ p.child = own.child /\ p.launched = own.launched
      /\ p.childId = own.childId /\ p.holder = own.holder /\ p.proof = own.proof
      /\ p.fallback = own.fallback
  BY <1>1 DEF OwnFields
<1>5. Throw(o) \/ Throw(p)
  BY DEF Disown
<1> HIDE DEF o, p
<1>6. /\ UsesScope => own.proof = "none"
      /\ own.childId \/ own.holder \/ own.proof = "own" => ours # "none"
      /\ pw # "pending" /\ ours # "forked"
  BY <1>1 DEF StagesOK, KnownOK, Ending
<1>7. ours' # "forked"
  BY <1>3, <1>6 DEF Wanes
<1>8. QED
  BY <1>1, <1>2, <1>3, <1>4, <1>5, <1>6, <1>7, ThrowKeeps

LEMMA CleanedUpKeeps ==
    ASSUME ProcessInv, ProcessConstants, CleanedUp, UNCHANGED host
    PROVE  ProcessInv'
<1> USE DEF ProcessInv
<1>1. /\ start = "late" /\ UNCHANGED <<pw, reaper, answer, host>>
      /\ own \in OwnFields /\ ~own.settled /\ own.fallback = "none"
      /\ dropped' = (pw = "pending" \/ ours' = "up")
  BY DEF CleanedUp, ProcessTypeOK, OwnFields, StagesOK
<1>2. faults' \in 0..MaxFailures
 <2>1. NoFault \/ Fails
   BY DEF CleanedUp
 <2>2. QED
   BY <2>1 DEF NoFault, Fails, ProcessTypeOK, ProcessConstants
<1>3. PICK state \in States :
          /\ Throw([own EXCEPT !.inFlight = FALSE, !.fallback = state])
          /\ \/ pw = "resolved" /\ SignalTree("own", TRUE)
             \/ pw = "rejected" /\ UNCHANGED world
             \/ state = "unknown" /\ UNCHANGED world
  BY DEF CleanedUp, States
<1>4. Wanes
 <2>1. CASE UNCHANGED world
   BY <2>1 DEF Wanes, ProcessTypeOK, OurStates, Alive, world
 <2>2. CASE SignalTree("own", TRUE)
   BY <2>2, SignalWanes
 <2>3. QED
   BY <1>3, <2>1, <2>2
<1>5. state = "closed" => ours' = "dead"
 <2>1. CASE pw = "resolved" /\ SignalTree("own", TRUE)
  <3>1. ours' \in {"none", "dead"} /\ ours # "none"
    BY <2>1, SignalWanes DEF StagesOK
  <3>2. QED
    BY <1>4, <3>1 DEF Wanes
 <2>2. CASE pw = "rejected" /\ UNCHANGED world
   BY <2>2 DEF StagesOK, world
 <2>3. QED
   BY <1>3, <2>1, <2>2
<1> DEFINE o == [own EXCEPT !.inFlight = FALSE, !.fallback = state]
<1>6. /\ o \in OwnFields /\ o.cancel = own.cancel /\ o.committed = own.committed
      /\ o.settled = own.settled /\ o.child = own.child /\ o.launched = own.launched
      /\ o.childId = own.childId /\ o.holder = own.holder /\ o.proof = own.proof
      /\ o.fallback = state
  BY <1>1 DEF OwnFields
<1>7. Throw(o)
  BY <1>3
<1> HIDE DEF o
<1>8. /\ UsesScope => own.proof = "none"
      /\ own.childId \/ own.holder \/ own.proof = "own" => ours # "none"
      /\ ours = "forked" => pw = "pending"
  BY <1>1 DEF StagesOK, KnownOK, ProcessTypeOK
<1>9. ours' = "forked" => ours = "forked"
  BY <1>4 DEF Wanes
<1>10. QED
  BY <1>1, <1>2, <1>4, <1>5, <1>6, <1>7, <1>8, <1>9, ThrowKeeps

LEMMA RacesKeep ==
    ASSUME ProcessInv, ProcessConstants, CleanUp \/ Reap, UNCHANGED host
    PROVE  ProcessInv'
<1> USE DEF ProcessInv
<1>1. UNCHANGED <<own, start, pw, closes, answer, dropped, host>> /\ faults' = faults
  BY DEF CleanUp, Reap
<1>2. PICK who \in {"none", "own", "other"}, kill \in BOOLEAN :
          /\ UNCHANGED world \/ SignalTree(who, kill)
          /\ reaper' = reaper \/ reaper' = "over"
             \/ (reaper' = "wait" /\ Populated /\ who = "own" /\ SignalTree(who, kill))
 <2>1. CASE CleanUp
   BY <2>1 DEF CleanUp, UsesScope, ProcessTypeOK, ProcessConstants, HostType
 <2>2. CASE Reap
  <3>1. Current \in {"none", "own", "other"}
    BY DEF Current, Holder, ProcessTypeOK
  <3>2. QED
    BY <2>2, <3>1 DEF Reap
 <2>3. QED
   BY <2>1, <2>2
<1>3. Wanes
 <2>1. CASE UNCHANGED world
   BY <2>1 DEF Wanes, ProcessTypeOK, OurStates, Alive, world
 <2>2. QED
   BY <1>2, <2>1, SignalWanes
<1>4. reaper' = "wait" => reaper = "wait" \/ ours' \in {"quitting", "dead"}
 <2>1. CASE reaper' = "wait" /\ Populated /\ who = "own" /\ SignalTree(who, kill)
  <3>1. ours' \in {"none", "quitting", "dead"}
    BY <2>1, SignalWanes
  <3>2. QED
    BY <1>3, <2>1, <3>1 DEF Wanes, Populated
 <2>2. QED
   BY <1>2, <2>1
<1>5. faults' \in 0..MaxFailures /\ reaper' \in {"off", "on", "wait", "over"}
  BY <1>1, <1>2 DEF ProcessTypeOK
<1>6. QED
  BY <1>1, <1>3, <1>4, <1>5, ReapWaneKeeps

LEMMA CloseGoesKeeps ==
    ASSUME ProcessInv, ProcessConstants, CloseGoes, UNCHANGED host
    PROVE  ProcessInv'
<1> USE DEF ProcessInv
<1>1. /\ answer["close"] = "pending" /\ (own.settled \/ own.cancel) /\ start # "idle"
      /\ UNCHANGED <<ours, other, hit, start, pw, faults, dropped, host>>
      /\ own \in OwnFields /\ "close" \in Closers /\ "close" # "start"
  BY DEF CloseGoes, world, ProcessTypeOK, OwnFields, ClosesOK, Closers
<1>2. reaper' \in {"off", "on", "wait", "over"} /\ (reaper' = "wait" => reaper = "wait")
  BY DEF CloseGoes, ProcessTypeOK
<1>3. answer \in [Closers \ {"start"} -> States \cup {"none", "pending", "early", "raced", "error"}]
  BY DEF ProcessTypeOK
<1>4. CASE own.cancel /\ own.fallback # "none"
 <2>1. answer' = [answer EXCEPT !["close"] = own.fallback] /\ UNCHANGED <<own, closes>>
   BY <1>4 DEF CloseGoes
 <2>2. /\ answer' \in [Closers \ {"start"} -> States \cup {"none", "pending", "early", "raced", "error"}]
       /\ answer'["close"] = own.fallback /\ own.fallback # "none"
       /\ \A d \in (Closers \ {"start"}) \ {"close"} : answer'[d] = answer[d]
   BY <1>1, <1>3, <1>4, <2>1 DEF OwnFields
 <2>3. Closed' => Closed \/ ours = "dead"
   BY <1>1, <1>3, <2>2 DEF Closed, StagesOK
 <2>4. ProcessTypeOK'
   BY <1>1, <1>2, <2>1, <2>2 DEF ProcessTypeOK
 <2>5. StagesOK' /\ KnownOK' /\ AskedOK'
   BY <1>1, <1>2, <2>1 DEF StagesOK, KnownOK, AskedOK, Unowned, UsesScope, Spent, Alive
 <2>6. ClosesOK'
  <3>1. closes["close"].pc # "idle" => own.settled \/ (own.cancel /\ own.committed)
    BY <1>1 DEF ClosesOK
  <3>2. QED
    BY <1>1, <2>1, <2>2, <3>1 DEF ClosesOK, UsesScope, Alive
 <2>7. ToldOK'
   BY <1>1, <1>4, <2>1, <2>3 DEF ToldOK, UsesScope, Spent, Past, Alive
 <2>8. QED
   BY <2>4, <2>5, <2>6, <2>7
<1>5. CASE ~(own.cancel /\ own.fallback # "none")
 <2>1. /\ CloseHead("close", own)
       /\ answer' = [answer EXCEPT !["close"] =
                        IF own.cancel /\ ~own.committed THEN "early" ELSE "raced"]
   BY <1>5 DEF CloseGoes
 <2>2. Headed("close", own)
   BY <1>1, <2>1, HeadEffects
 <2>3. /\ answer' \in [Closers \ {"start"} -> States \cup {"none", "pending", "early", "raced", "error"}]
       /\ answer'["close"] \in {"early", "raced"}
       /\ answer'["close"] = "early" \/ ~own.cancel \/ own.committed
       /\ \A d \in (Closers \ {"start"}) \ {"close"} : answer'[d] = answer[d]
   BY <1>1, <1>3, <2>1
 <2>4. /\ own' \in OwnFields /\ closes' \in [Closers -> CloseRuns]
       /\ closes'["close"].pc = "flush" /\ ~closes'["close"].owns
       /\ \A d \in Closers \ {"close"} : closes'[d] = closes[d]
       /\ own'.cancel = own.cancel /\ own'.settled = own.settled /\ own'.fallback = own.fallback
       /\ own'.committed = own.committed /\ own'.child = FALSE
       /\ own'.launched => own.launched
   BY <2>2 DEF Headed
 <2>5. Holder = "own" => ours # "none"
   BY DEF Holder
 <2>6. Holder = "other" => Spent
  <3>1. Holder = "other" => ours = "none" /\ pw = "none" /\ start \in Refusing \cup Ending
    BY DEF Holder, Alive, KnownOK
  <3>2. own.settled => start \in {"done", "failed"}
    BY DEF ProcessTypeOK
  <3>3. QED
    BY <1>1, <3>1, <3>2 DEF Spent, Ending
 <2>7. /\ closes'["close"].knows = "own" => ours # "none"
       /\ closes'["close"].knows = "other" => Spent
   BY <2>2, <2>5, <2>6 DEF Headed, KnownOK
 <2>8. /\ own'.childId \/ own'.holder \/ own'.proof = "own" => ours # "none"
       /\ own'.proof = "other" => Spent
       /\ UsesScope => own'.proof = "none"
   BY <2>2, <2>7 DEF Headed, KnownOK, StagesOK
 <2>9. (Spent => Spent') /\ (Past => Past') /\ (Closed' => Closed)
   BY <1>1, <1>3, <2>3, <2>4 DEF Spent, Past, Closed
 <2>10. ProcessTypeOK'
   BY <1>1, <1>2, <2>3, <2>4 DEF ProcessTypeOK, OwnFields, CloseRuns
 <2>11. Unowned => Unowned'
   BY <2>4, <1>1 DEF Unowned, ProcessConstants, Closers
 <2>12. StagesOK'
   BY <1>1, <2>4, <2>8, <2>11 DEF StagesOK, UsesScope
 <2>13. KnownOK'
   BY <1>1, <2>4, <2>7, <2>8, <2>9 DEF KnownOK, Alive
 <2>14. AskedOK'
   BY <1>1, <1>2, <2>4 DEF AskedOK
 <2>15. ClosesOK'
  <3>1. \A f \in Forcers : f \in Closers \ {"close"}
    BY DEF Closers, ProcessConstants
  <3>2. "start" \in Closers \ {"close"}
    BY DEF Closers
  <3>3. QED
    BY <1>1, <2>3, <2>4, <3>1, <3>2 DEF ClosesOK, UsesScope, Alive
 <2>16. ToldOK'
   BY <1>1, <2>4, <2>9 DEF ToldOK, UsesScope, Alive
 <2>17. QED
   BY <2>10, <2>12, <2>13, <2>14, <2>15, <2>16
<1>6. QED
  BY <1>4, <1>5

LEMMA ChromeEndsKeeps ==
    ASSUME ProcessInv, ProcessConstants, ChromeEnds,
           UNCHANGED <<own, start, closes, reaper, answer, dropped, host>>
    PROVE  ProcessInv'
<1>1. UNCHANGED <<hit, pw>> /\ faults' \in 0..MaxFailures
  BY DEF ChromeEnds, NoFault, Fails, ProcessInv, ProcessTypeOK, ProcessConstants
<1>2. Wanes
  BY <1>1 DEF ChromeEnds, Wanes, Alive, OurStates, ProcessInv, ProcessTypeOK
<1>3. reaper' \in {"off", "on", "wait", "over"}
  BY DEF ProcessInv, ProcessTypeOK
<1>4. QED
  BY <1>1, <1>2, <1>3, ReapWaneKeeps

LEMMA CloseFlushesKeeps ==
    ASSUME ProcessInv, ProcessConstants, NEW c \in Closers, CloseFlushes(c), UNCHANGED host
    PROVE  ProcessInv'
<1> USE DEF ProcessInv
<1> DEFINE who == IF ~UsesScope THEN closes[c].knows ELSE IF Populated THEN "own" ELSE "none"
           x == [closes[c] EXCEPT !.pc = "wait", !.knows = who]
<1>1. /\ closes[c].pc = "flush" /\ SignalTree(who, FALSE) /\ faults' = faults
      /\ closes' = [closes EXCEPT ![c].pc = "wait", ![c].knows = who]
      /\ UNCHANGED <<own, start, pw, reaper, answer, dropped, host>>
  BY DEF CloseFlushes
<1>2. closes \in [Closers -> CloseRuns] /\ closes[c] \in CloseRuns /\ who \in {"none", "own", "other"}
  BY DEF ProcessTypeOK, CloseRuns
<1>3. Wanes /\ (who = "own" => ours' \in {"none", "quitting", "dead"}) /\ (who # "own" => ours' = ours)
  BY <1>1, <1>2, SignalWanes
<1>4. who = "own" => ours # "none"
  BY <1>2 DEF KnownOK, Populated
<1>5. who = "other" => closes[c].knows = "other"
  OBVIOUS
<1>6. UsesScope /\ who # "own" => ours \notin {"up", "quitting"}
  BY DEF Populated
<1> HIDE DEF who
<1>7. /\ closes' \in [Closers -> CloseRuns] /\ closes'[c].pc = "wait" /\ closes'[c].knows = who
      /\ closes'[c].owns = closes[c].owns
      /\ \A d \in Closers \ {c} : closes'[d] = closes[d]
  BY <1>1, <1>2 DEF CloseRuns
<1>8. /\ \A d \in Closers : closes'[d].owns = closes[d].owns
      /\ \A d \in Closers : closes'[d].pc = "idle" <=> closes[d].pc = "idle"
  BY <1>1, <1>7
<1>9. Spent => Spent'
  BY <1>1, <1>3 DEF Spent, Wanes
<1>10. Alive("own")' => Alive("own")
  BY <1>3 DEF Wanes, Alive
<1>11. ProcessTypeOK'
  BY <1>1, <1>3, <1>7 DEF ProcessTypeOK, Wanes, OurStates, CloseRuns
<1>12. Unowned => Unowned'
  BY <1>1, <1>8 DEF Unowned, Closers
<1>13. StagesOK'
  BY <1>1, <1>3, <1>12 DEF StagesOK, UsesScope, Wanes
<1>14. KnownOK'
  BY <1>1, <1>3, <1>4, <1>5, <1>7, <1>9 DEF KnownOK, Wanes
<1>15. AskedOK'
  BY <1>1, <1>3, <1>4, <1>7 DEF AskedOK, Wanes
<1>16. ClosesOK'
 <2>1. /\ closes'["start"].pc = "idle" <=> closes["start"].pc = "idle"
       /\ closes'["close"].pc = "idle" <=> closes["close"].pc = "idle"
       /\ \A f \in Forcers : closes'[f].pc = "idle" <=> closes[f].pc = "idle"
   BY <1>8 DEF Closers
 <2>2. ASSUME UsesScope, closes'["start"].pc = "wait", closes'["start"].knows # "own"
       PROVE  ~Alive("own")' \/ dropped'
  <3>1. CASE c = "start"
   <4>1. ours \notin {"up", "quitting"} /\ ours' = ours
     BY <1>3, <1>6, <1>7, <2>2, <3>1
   <4>2. start \in {"closing", "catching"}
     BY <1>1, <3>1 DEF ClosesOK
   <4>3. ours = "forked" => dropped
     BY <4>2 DEF StagesOK
   <4>4. QED
     BY <1>1, <4>1, <4>3 DEF Alive
  <3>2. CASE c # "start"
   <4>1. closes'["start"] = closes["start"]
     BY <1>7, <3>2 DEF Closers
   <4>2. QED
     BY <1>1, <1>10, <2>2, <4>1 DEF ClosesOK
  <3>3. QED
    BY <3>1, <3>2
 <2>3. QED
   BY <1>1, <2>1, <2>2 DEF ClosesOK, UsesScope
<1>17. ToldOK'
  BY <1>1, <1>3, <1>9, <1>10 DEF ToldOK, Closed, Past, UsesScope, Wanes
<1>18. QED
  BY <1>11, <1>13, <1>14, <1>15, <1>16, <1>17

(* A run of closeBrowser ends; closed is said of what is gone. *)
LEMMA ReturnKeeps ==
    ASSUME ProcessInv, ProcessConstants, NEW c \in Closers, NEW state \in States \cup {"error"},
           NEW o \in OwnFields, Returns(c, state, o), closes[c].pc = "wait", Wanes,
           UNCHANGED <<pw, reaper, host>>, faults' \in 0..MaxFailures,
           dropped' \in BOOLEAN, dropped => dropped', dropped' => dropped \/ c = "start",
           o.cancel = own.cancel, o.committed = own.committed, o.fallback = own.fallback,
           o.child = own.child, o.launched = own.launched, o.childId = own.childId,
           o.holder = own.holder, o.settled = own.settled, o.proof \in {own.proof, "none"},
           state = "closed" /\ ~UsesScope => ours' = "dead" \/ Spent,
           state = "closed" /\ UsesScope => /\ c \notin Forcers \/ closes[c].owns
                                            /\ own.settled => dropped' \/ ~Alive("own")',
           UsesScope /\ c = "start" => dropped' \/ ~Alive("own")'
    PROVE  ProcessInv'
<1> USE DEF ProcessInv
<1>1. Returned(c, state, o)
  BY ReturnEffects
<1>2. own \in OwnFields
  BY DEF ProcessTypeOK, OwnFields
<1>3. /\ own' \in OwnFields /\ closes' \in [Closers -> CloseRuns] /\ start' \in StartPCs
      /\ answer' \in [Closers \ {"start"} -> States \cup {"none", "pending", "early", "raced", "error"}]
      /\ closes'[c].pc = "idle" /\ ~closes'[c].owns /\ closes'[c].knows = "none"
      /\ \A d \in Closers \ {c} : closes'[d] = closes[d]
  BY <1>1 DEF Returned, Idle
<1>4. /\ own'.cancel = own.cancel /\ own'.committed = own.committed /\ own'.fallback = own.fallback
      /\ own'.child = own.child /\ own'.launched = own.launched /\ own'.childId = own.childId
      /\ own'.holder = own.holder /\ own'.proof \in {own.proof, "none"}
  BY <1>1 DEF Returned, Carried
<1>5. c = "start" => start \in {"closing", "catching"} /\ own.fallback = "none" /\ ~own.settled
  BY <1>2 DEF ClosesOK, StagesOK, ProcessTypeOK
<1>6. /\ c = "start" => /\ start' = (IF start = "closing" THEN "catch" ELSE "failed")
                        /\ own'.settled = (start # "closing") /\ answer' = answer
      /\ c # "start" => start' = start /\ own'.settled = own.settled
  BY <1>1, <1>5, <1>3 DEF Returned, OwnFields
<1>7. Spent => Spent'
  BY <1>4, <1>5, <1>6 DEF Spent, Ending, Wanes
<1>8. Alive("own")' => Alive("own")
  BY DEF Wanes, Alive
<1>9. Past => Past'
  BY <1>4, <1>5, <1>6 DEF Past, Unlaunching, Preparing
<1>10. ProcessTypeOK'
  BY <1>2, <1>3, <1>6 DEF ProcessTypeOK, OwnFields, CloseRuns, Wanes, OurStates
<1>11. Unowned => Unowned'
 <2>1. \A f \in Forcers : closes'[f].owns => closes[f].owns
   BY <1>3 DEF Closers
 <2>2. QED
   BY <1>4, <2>1 DEF Unowned
<1>12. start' = start \/ start' \in {"catch", "failed"}
  BY <1>6
<1>13. StagesOK'
  BY <1>4, <1>5, <1>6, <1>11, <1>12 DEF StagesOK, UsesScope, Wanes, Unlaunching, Preparing, Ending
<1>14. KnownOK'
  BY <1>3, <1>4, <1>7, <1>12 DEF KnownOK, Wanes, Ending, Refusing
<1>15. AskedOK'
  BY <1>3 DEF AskedOK, Wanes
<1>16. c # "start" => /\ \A d \in DOMAIN answer \ {c} : answer'[d] = answer[d]
                      /\ answer'[c] = "closed" => state = "closed" /\ (answer[c] = "early" => own.settled)
                      /\ answer'[c] # "none" \/ answer[c] = "none" \/ state = "none"
  BY <1>1 DEF Returned
<1>17. ClosesOK'
 <2>1. closes'["start"].pc # "idle" <=> start' \in {"closing", "catching"}
   BY <1>3, <1>6 DEF ClosesOK, Closers
 <2>2. answer'["close"] # "none" => start' # "idle"
  <3>1. CASE c = "close"
   <4>1. CASE answer["close"] = "early"
     BY <1>6, <3>1, <4>1 DEF ClosesOK
   <4>2. CASE own.settled
     BY <1>6, <3>1, <4>2 DEF ProcessTypeOK
   <4>3. CASE own.cancel /\ own.committed
    <5>1. start # "idle"
      BY <4>3 DEF StagesOK, Unowned, Unlaunching
    <5>2. QED
      BY <1>6, <3>1, <5>1
   <4>4. QED
     BY <3>1, <4>1, <4>2, <4>3 DEF ClosesOK
  <3>2. CASE c # "close"
    BY <1>6, <1>12, <1>16, <3>2 DEF ClosesOK, ProcessTypeOK, Closers
  <3>3. QED
    BY <3>1, <3>2
 <2>3. closes'["close"].pc # "idle" =>
          answer'["close"] = "early" \/ own'.settled \/ (own'.cancel /\ own'.committed)
  <3>1. CASE c = "close"
    BY <1>3, <3>1
  <3>2. CASE c # "close"
   <4>1. closes'["close"] = closes["close"] /\ answer'["close"] = answer["close"]
     BY <1>3, <1>6, <1>16, <3>2 DEF Closers, ProcessTypeOK
   <4>2. own.settled => own'.settled
     BY <1>5, <1>6
   <4>3. QED
     BY <1>4, <4>1, <4>2 DEF ClosesOK
  <3>3. QED
    BY <3>1, <3>2
 <2>4. \A f \in Forcers : closes'[f].pc # "idle" => own'.cancel
   BY <1>3, <1>4 DEF ClosesOK, Closers
 <2>5. UsesScope' /\ closes'["start"].pc = "wait" /\ closes'["start"].knows # "own" =>
          ~Alive("own")' \/ dropped'
   BY <1>3, <1>8 DEF ClosesOK, Closers, UsesScope
 <2>6. QED
   BY <2>1, <2>2, <2>3, <2>4, <2>5 DEF ClosesOK
<1>18. Closed' => Closed \/ (c # "start" /\ state = "closed" /\ (answer[c] = "early" => own.settled))
 <2>1. DOMAIN answer' = DOMAIN answer
   BY <1>3 DEF ProcessTypeOK
 <2>2. CASE c = "start"
   BY <1>6, <2>2 DEF Closed
 <2>3. CASE c # "start"
   BY <1>16, <2>1, <2>3 DEF Closed
 <2>4. QED
   BY <2>2, <2>3
<1>19. ToldOK'
 <2>1. CASE Closed
  <3>1. ~UsesScope => dropped' \/ ours' = "dead" \/ Spent'
    BY <1>7, <2>1 DEF ToldOK, Wanes
  <3>2. UsesScope /\ own'.settled => dropped' \/ ~Alive("own")'
    BY <1>6, <1>8, <2>1 DEF ToldOK
  <3>3. UsesScope /\ ~own'.settled => own'.cancel /\ (ours' = "dead" \/ Past')
    BY <1>4, <1>5, <1>6, <1>9, <2>1 DEF ToldOK, Wanes
  <3>4. QED
    BY <3>1, <3>2, <3>3 DEF ToldOK, UsesScope
 <2>2. CASE Closed' /\ ~Closed
  <3>1. c # "start" /\ state = "closed" /\ (answer[c] = "early" => own.settled)
    BY <1>18, <2>2
  <3>2. own'.settled = own.settled /\ start' = start
    BY <1>6, <3>1
  <3>3. UsesScope /\ ~own.settled => own.cancel /\ Past
   <4> SUFFICES ASSUME UsesScope, ~own.settled
                PROVE  own.cancel /\ Past
     OBVIOUS
   <4>1. CASE c = "close"
    <5>1. own.cancel /\ own.committed
      BY <3>1, <4>1 DEF ClosesOK
    <5>2. QED
      BY <5>1 DEF StagesOK, Unowned, Past
   <4>2. CASE c \in Forcers
    <5>1. own.cancel /\ closes[c].owns
      BY <3>1, <4>2 DEF ClosesOK
    <5>2. QED
      BY <4>2, <5>1 DEF StagesOK, Unowned, Past
   <4>3. QED
     BY <3>1, <4>1, <4>2 DEF Closers
  <3>4. QED
    BY <1>4, <1>7, <1>9, <3>1, <3>2, <3>3 DEF ToldOK, UsesScope
 <2>3. QED
   BY <2>1, <2>2 DEF ToldOK
<1>20. QED
  BY <1>10, <1>13, <1>14, <1>15, <1>17, <1>19

LEMMA ScopeEndsKeeps ==
    ASSUME ProcessInv, ProcessConstants, NEW c \in Closers, ScopeEnds(c), UNCHANGED host
    PROVE  ProcessInv'
<1> USE DEF ProcessInv
<1>1. /\ closes[c].pc = "wait" /\ UsesScope /\ UNCHANGED <<pw, reaper, host>>
      /\ own \in OwnFields /\ faults \in 0..MaxFailures /\ dropped \in BOOLEAN
  BY DEF ScopeEnds, ProcessTypeOK, OwnFields
<1>2. own.settled => start \in {"done", "failed"}
  BY DEF ProcessTypeOK
<1>3. c = "start" => start \in {"closing", "catching"}
  BY <1>1 DEF ClosesOK
<1>4. own.settled \/ c = "start" => (ours = "forked" => dropped)
  BY <1>2, <1>3 DEF StagesOK
<1>5. c = "start" /\ closes[c].knows # "own" => ~Alive("own") \/ dropped
  BY <1>1 DEF ClosesOK
<1>6. "own" \in {"none", "own", "other"} /\ TRUE \in BOOLEAN
  OBVIOUS
<1> DEFINE stopped == closes[c].knows = "own"
           owned == c \notin Forcers \/ closes[c].owns
<1>7. CASE /\ ~stopped \/ ~Populated
           /\ Returns(c, IF owned /\ ~Populated THEN "closed" ELSE "unknown", own)
           /\ UNCHANGED <<world, faults, dropped>>
 <2> DEFINE state == IF owned /\ ~Populated THEN "closed" ELSE "unknown"
 <2>1. state \in States \cup {"error"}
   BY DEF States
 <2>2. Wanes /\ faults' \in 0..MaxFailures
   BY <1>1, <1>7 DEF Wanes, world, ProcessTypeOK, OurStates, Alive
 <2>3. state = "closed" => owned /\ (own.settled => dropped \/ ~Alive("own")')
   BY <1>4, <1>7 DEF Populated, Alive, world
 <2>4. c = "start" => dropped \/ ~Alive("own")'
   BY <1>4, <1>5, <1>7 DEF Populated, Alive, world
 <2>5. Returns(c, state, own)
   BY <1>7
 <2> HIDE DEF state
 <2>6. QED
   BY <1>1, <1>7, <2>1, <2>2, <2>3, <2>4, <2>5, ReturnKeeps
<1>8. CASE /\ stopped /\ Populated /\ SignalTree("own", TRUE) /\ NoFault
           /\ Returns(c, IF owned THEN "closed" ELSE "unknown", own) /\ UNCHANGED dropped
 <2> DEFINE state == IF owned THEN "closed" ELSE "unknown"
 <2>1. state \in States \cup {"error"}
   BY DEF States
 <2>2. Wanes /\ ours' \in {"none", "dead"}
   BY <1>6, <1>8, SignalWanes
 <2>3. ~Alive("own")' /\ faults' \in 0..MaxFailures
   BY <1>1, <1>8, <2>2 DEF Alive, NoFault
 <2>4. state = "closed" => owned
   OBVIOUS
 <2>5. Returns(c, state, own)
   BY <1>8
 <2> HIDE DEF state
 <2>6. QED
   BY <1>1, <1>8, <2>1, <2>2, <2>3, <2>4, <2>5, ReturnKeeps
<1>9. CASE /\ stopped /\ Populated /\ Fails /\ Returns(c, "error", own)
           /\ dropped' = (dropped \/ c = "start") /\ UNCHANGED world
 <2>1. Wanes
   BY <1>9 DEF Wanes, world, ProcessTypeOK, OurStates, Alive
 <2>2. faults' \in 0..MaxFailures
   BY <1>1, <1>9 DEF Fails, ProcessConstants
 <2>3. dropped' \in BOOLEAN /\ (dropped => dropped') /\ (dropped' => dropped \/ c = "start")
   BY <1>1, <1>9
 <2>4. c = "start" => dropped'
   BY <1>9
 <2>5. "error" \in States \cup {"error"} /\ Returns(c, "error", own) /\ "error" # "closed"
   BY <1>9
 <2>6. QED
   BY <1>1, <2>1, <2>2, <2>3, <2>4, <2>5, ReturnKeeps
<1>10. QED
  BY <1>7, <1>8, <1>9 DEF ScopeEnds

LEMMA ProofEndsKeeps ==
    ASSUME ProcessInv, ProcessConstants, NEW c \in Closers, ProofEnds(c), UNCHANGED host
    PROVE  ProcessInv'
<1> USE DEF ProcessInv
<1> DEFINE who == closes[c].knows
           released == [own EXCEPT !.proof = IF @ = who THEN "none" ELSE @]
<1>1. /\ closes[c].pc = "wait" /\ ~UsesScope /\ UNCHANGED <<pw, reaper, dropped, host>>
      /\ own \in OwnFields /\ faults \in 0..MaxFailures /\ dropped \in BOOLEAN
      /\ who \in {"none", "own", "other"} /\ TRUE \in BOOLEAN
  BY DEF ProofEnds, ProcessTypeOK, OwnFields
<1>2. \A o \in {own, released} :
        /\ o \in OwnFields
        /\ o.cancel = own.cancel /\ o.committed = own.committed /\ o.fallback = own.fallback
        /\ o.child = own.child /\ o.launched = own.launched /\ o.childId = own.childId
        /\ o.holder = own.holder /\ o.settled = own.settled /\ o.proof \in {own.proof, "none"}
  BY <1>1 DEF OwnFields
<1>3. who # "none" /\ ~Alive(who) => ours = "dead" \/ Spent
  BY <1>1 DEF KnownOK, Alive, ProcessTypeOK
<1>4. UNCHANGED <<world, faults>> => Wanes /\ faults' \in 0..MaxFailures
  BY <1>1 DEF Wanes, world, ProcessTypeOK, OurStates, Alive
<1>5. {"unknown", "closed", "force_closed_unproven"} \subseteq States \cup {"error"}
  BY DEF States
<1> HIDE DEF who, released
<1>6. CASE who = "none" /\ Returns(c, "unknown", own) /\ UNCHANGED <<world, faults>>
 <2>1. Wanes /\ faults' \in 0..MaxFailures /\ "unknown" \in States \cup {"error"}
   BY <1>4, <1>5, <1>6
 <2>2. own \in {own, released} /\ own \in OwnFields /\ "unknown" # "closed"
   BY <1>1
 <2>3. QED
   BY <1>1, <1>2, <1>6, <2>1, <2>2, ReturnKeeps
<1>7. CASE /\ who # "none" /\ ~Alive(who)
           /\ Returns(c, "closed", released) /\ UNCHANGED <<world, faults>>
 <2>1. Wanes /\ faults' \in 0..MaxFailures /\ "closed" \in States \cup {"error"}
   BY <1>4, <1>5, <1>7
 <2>2. released \in {own, released} /\ (ours' = "dead" \/ Spent)
   BY <1>3, <1>7 DEF world
 <2>3. released \in OwnFields
   BY <1>2
 <2>4. QED
   BY <1>1, <1>2, <1>7, <2>1, <2>2, <2>3, ReturnKeeps
<1>8. CASE /\ Alive(who) /\ SignalTree(who, TRUE) /\ NoFault
           /\ \E o \in {own, released} : Returns(c, "force_closed_unproven", o)
 <2>1. PICK o \in {own, released} : Returns(c, "force_closed_unproven", o)
   BY <1>8
 <2>2. Wanes
   BY <1>1, <1>8, SignalWanes
 <2>3. faults' \in 0..MaxFailures /\ "force_closed_unproven" \in States \cup {"error"}
   BY <1>1, <1>5, <1>8 DEF NoFault
 <2>4. o \in OwnFields /\ "force_closed_unproven" # "closed"
   BY <1>2, <2>1
 <2>5. QED
   BY <1>1, <1>2, <2>1, <2>2, <2>3, <2>4, ReturnKeeps
<1>9. CASE Alive(who) /\ Fails /\ Returns(c, "unknown", own) /\ UNCHANGED world
 <2>1. Wanes
   BY <1>9 DEF Wanes, world, ProcessTypeOK, OurStates, Alive
 <2>2. faults' \in 0..MaxFailures /\ "unknown" \in States \cup {"error"}
   BY <1>1, <1>5, <1>9 DEF Fails, ProcessConstants
 <2>3. own \in {own, released} /\ own \in OwnFields /\ "unknown" # "closed"
   BY <1>1
 <2>4. QED
   BY <1>1, <1>2, <1>9, <2>1, <2>2, <2>3, ReturnKeeps
<1>10. QED
  BY <1>6, <1>7, <1>8, <1>9 DEF ProofEnds, who, released

(* A forced close: what it knows it kills, and it cancels the start. *)
LEMMA ForceTreeKeeps ==
    ASSUME ProcessInv, ProcessConstants, NEW f \in Forcers, ForceTree(f), ~UsesScope, UNCHANGED host
    PROVE  ProcessInv'
<1> USE DEF ProcessInv
<1>1. own \in OwnFields /\ Current \in {"none", "own", "other"} /\ TRUE \in BOOLEAN
  BY DEF ProcessTypeOK, OwnFields, Current, Holder
<1>2. /\ SignalTree(Current, TRUE) /\ UNCHANGED <<closes, start, pw, reaper, dropped, host>>
      /\ \E a \in {"closed", "unknown"} :
            /\ answer' = [answer EXCEPT ![f] = a]
            /\ a = "closed" => Current # "none" \/ Unlaunched
      /\ NoFault \/ Fails
      /\ own' \in {[own EXCEPT !.cancel = TRUE], [own EXCEPT !.cancel = TRUE, !.proof = "none"]}
  BY DEF ForceTree
<1>3. /\ own' \in OwnFields /\ own'.cancel /\ own'.proof \in {own.proof, "none"}
      /\ own'.committed = own.committed /\ own'.fallback = own.fallback
      /\ own'.child = own.child /\ own'.launched = own.launched /\ own'.childId = own.childId
      /\ own'.holder = own.holder /\ own'.settled = own.settled
  BY <1>1, <1>2 DEF OwnFields
<1>4. /\ Wanes
      /\ Current = "own" => ours' \in {"none", "dead"}
      /\ Current # "own" => ours' = ours
  BY <1>1, <1>2, SignalWanes
<1>5. PICK a \in {"closed", "unknown"} :
            /\ answer' = [answer EXCEPT ![f] = a]
            /\ a = "closed" => Current # "none" \/ Unlaunched
  BY <1>2
<1>6. f \in Closers \ {"start"} /\ f # "close" /\ a \in States /\ faults' \in 0..MaxFailures
 <2>1. f \in Closers \ {"start"} /\ f # "close" /\ a \in States
   BY DEF Closers, States, ProcessConstants
 <2>2. faults' \in 0..MaxFailures
   BY <1>2 DEF NoFault, Fails, ProcessConstants, ProcessTypeOK
 <2>3. QED
   BY <2>1, <2>2
<1>7. /\ answer' \in [Closers \ {"start"} -> States \cup {"none", "pending", "early", "raced", "error"}]
      /\ answer'["close"] = answer["close"]
      /\ Closed' => Closed \/ a = "closed"
 <2>1. answer \in [Closers \ {"start"} -> States \cup {"none", "pending", "early", "raced", "error"}]
   BY DEF ProcessTypeOK
 <2>2. answer' \in [Closers \ {"start"} -> States \cup {"none", "pending", "early", "raced", "error"}]
   BY <1>5, <1>6, <2>1
 <2>3. \A d \in DOMAIN answer' : answer'[d] = IF d = f THEN a ELSE answer[d]
   BY <1>5, <1>6, <2>1
 <2>4. answer'["close"] = answer["close"]
   BY <1>5, <1>6, <2>1
 <2>5. QED
   BY <2>1, <2>2, <2>3, <2>4 DEF Closed
<1>8. Spent => Spent'
  BY <1>2, <1>3, <1>4 DEF Spent, Wanes
<1>9. Current = "own" => ours' = "dead"
 <2>1. SUFFICES ASSUME Current = "own" PROVE ours # "none"
   BY <1>4 DEF Wanes
 <2>2. own.childId \/ own.holder \/ own.proof = "own" => ours # "none"
   BY DEF ProcessInv, KnownOK
 <2>3. QED
   BY <2>1, <2>2 DEF Current, Holder
<1>10. Current = "other" => Spent'
 <2>1. CASE Current = "other" /\ own.proof = "other"
   BY <1>8, <2>1 DEF ProcessInv, KnownOK
 <2>2. CASE Current = "other" /\ own.proof # "other"
  <3>1. Alive("other")
    BY <2>2 DEF Current, Holder, Alive
  <3>2. ours = "none" /\ pw = "none" /\ start \in Refusing \cup Ending
    BY <3>1 DEF ProcessInv, KnownOK
  <3>3. QED
    BY <1>2, <1>3, <1>4, <2>2, <3>2 DEF Spent
 <2>3. QED
   BY <2>1, <2>2
<1>11. Current = "none" /\ Unlaunched => dropped \/ ours' = "dead" \/ Spent'
 <2> SUFFICES ASSUME Current = "none", Unlaunched PROVE dropped \/ ours' = "dead" \/ Spent'
   OBVIOUS
 <2>1. start \in {"done", "failed"}
   BY DEF Unlaunched, ProcessInv, ProcessTypeOK
 <2>2. ours \in {"none", "forked", "dead"}
   BY <1>1 DEF Current, Holder, ProcessInv, ProcessTypeOK
 <2>3. (ours = "forked" => dropped) /\ (pw = "pending" => dropped)
   BY <2>1 DEF ProcessInv, StagesOK
 <2>4. QED
   BY <1>2, <1>4, <2>1, <2>2, <2>3 DEF Spent, Ending
<1>12. ProcessTypeOK'
  BY <1>2, <1>3, <1>4, <1>6, <1>7 DEF ProcessTypeOK, OwnFields, Wanes, OurStates
<1>13. Unowned' <=> Unowned
  BY <1>2, <1>3 DEF Unowned
<1>14. StagesOK'
  BY <1>2, <1>3, <1>4, <1>13 DEF StagesOK, UsesScope, Wanes
<1>15. KnownOK'
  BY <1>2, <1>3, <1>4, <1>8 DEF KnownOK, Wanes
<1>16. AskedOK'
  BY <1>2, <1>4 DEF AskedOK, Wanes
<1>17. ClosesOK'
  BY <1>2, <1>3, <1>7 DEF ClosesOK, UsesScope
<1>18. ToldOK'
 <2>1. ~UsesScope'
   BY <1>2 DEF UsesScope
 <2>2. CASE Closed
   BY <1>2, <1>4, <1>8, <2>1, <2>2 DEF ToldOK, Wanes
 <2>3. CASE a = "closed"
   BY <1>1, <1>2, <1>5, <1>9, <1>10, <1>11, <2>1, <2>3 DEF ToldOK
 <2>4. QED
   BY <1>7, <2>1, <2>2, <2>3 DEF ToldOK
<1>19. QED
  BY <1>12, <1>14, <1>15, <1>16, <1>17, <1>18

LEMMA ForceScopeKeeps ==
    ASSUME ProcessInv, ProcessConstants, NEW f \in Forcers, ForceTree(f), UsesScope, UNCHANGED host
    PROVE  ProcessInv'
<1> USE DEF ProcessInv
<1> DEFINE who == IF Populated THEN "own" ELSE "none"
           x == [pc |-> "wait", knows |-> who, owns |-> own.child \/ own.launched]
<1>1. own \in OwnFields /\ who \in {"none", "own", "other"} /\ FALSE \in BOOLEAN
  BY DEF ProcessTypeOK, OwnFields
<1>2. /\ SignalTree(who, FALSE) /\ UNCHANGED <<faults, start, pw, reaper, dropped, host>>
      /\ own' = [own EXCEPT !.cancel = TRUE]
      /\ closes' = [closes EXCEPT ![f] = x]
      /\ answer' = [answer EXCEPT ![f] = "raced"]
  BY DEF ForceTree, NoFault
<1>3. /\ own' \in OwnFields /\ own'.cancel /\ own'.proof = own.proof
      /\ own'.committed = own.committed /\ own'.fallback = own.fallback
      /\ own'.child = own.child /\ own'.launched = own.launched /\ own'.childId = own.childId
      /\ own'.holder = own.holder /\ own'.settled = own.settled
  BY <1>1, <1>2 DEF OwnFields
<1>4. /\ Wanes
      /\ who = "own" => ours' \in {"none", "quitting", "dead"}
  BY <1>1, <1>2, SignalWanes
<1>5. who # "none" => who = "own" /\ ours \in {"up", "quitting"}
  BY DEF Populated
<1>6. f \in Closers \ {"start"} /\ f # "close"
  BY DEF Closers, ProcessConstants
<1>7. /\ closes' \in [Closers -> CloseRuns]
      /\ closes'[f].pc = "wait" /\ closes'[f].knows = who
      /\ closes'[f].owns => own.child \/ own.launched
      /\ \A d \in Closers \ {f} : closes'[d] = closes[d]
 <2>1. closes \in [Closers -> CloseRuns] /\ x \in CloseRuns
   BY <1>1 DEF ProcessTypeOK, CloseRuns, OwnFields
 <2>2. closes'[f] = x /\ closes' \in [Closers -> CloseRuns]
       /\ \A d \in Closers \ {f} : closes'[d] = closes[d]
   BY <1>2, <1>6, <2>1
 <2>3. x.pc = "wait" /\ x.knows = who /\ x.owns = (own.child \/ own.launched)
   OBVIOUS
 <2> HIDE DEF x, who
 <2>4. QED
   BY <2>2, <2>3
<1> HIDE DEF who, x
<1>8. /\ answer' \in [Closers \ {"start"} -> States \cup {"none", "pending", "early", "raced", "error"}]
      /\ answer'["close"] = answer["close"]
      /\ Closed' => Closed
 <2>1. answer \in [Closers \ {"start"} -> States \cup {"none", "pending", "early", "raced", "error"}]
   BY DEF ProcessTypeOK
 <2>2. answer' \in [Closers \ {"start"} -> States \cup {"none", "pending", "early", "raced", "error"}]
   BY <1>2, <1>6, <2>1
 <2>3. \A d \in DOMAIN answer' : answer'[d] = IF d = f THEN "raced" ELSE answer[d]
   BY <1>2, <1>6, <2>1
 <2>4. answer'["close"] = answer["close"]
   BY <1>2, <1>6, <2>1
 <2>5. QED
   BY <2>1, <2>2, <2>3, <2>4 DEF Closed
<1>9. /\ closes'["start"] = closes["start"] /\ closes'["close"] = closes["close"]
      /\ \A d \in Forcers \ {f} : closes'[d] = closes[d]
  BY <1>6, <1>7 DEF Closers
<1>10. Unowned => Unowned'
  BY <1>3, <1>7, <1>9 DEF Unowned
<1>11. Alive("own")' => Alive("own")
  BY <1>4 DEF Wanes, Alive
<1>12. ProcessTypeOK'
  BY <1>2, <1>3, <1>4, <1>7, <1>8 DEF ProcessTypeOK, OwnFields, CloseRuns, Wanes, OurStates
<1>13. StagesOK'
  BY <1>2, <1>3, <1>4, <1>10 DEF StagesOK, UsesScope, Wanes
<1>14. Spent => Spent'
  BY <1>2, <1>3, <1>4 DEF Spent, Wanes
<1>15. KnownOK'
  BY <1>2, <1>3, <1>4, <1>5, <1>7, <1>14 DEF KnownOK, Wanes
<1>16. AskedOK'
  BY <1>2, <1>4, <1>5, <1>7 DEF AskedOK, Wanes
<1>17. ClosesOK'
  BY <1>2, <1>3, <1>8, <1>9, <1>11 DEF ClosesOK, UsesScope
<1>18. ToldOK'
  BY <1>2, <1>3, <1>4, <1>8, <1>11 DEF ToldOK, UsesScope, Past, Wanes
<1>19. QED
  BY <1>12, <1>13, <1>15, <1>16, <1>17, <1>18

-----------------------------------------------------------------------------
(* The invariant holds from the start and is kept by every step. *)
LEMMA InitProc == ProcessConstants /\ ProcessInit => ProcessInv
<1> SUFFICES ASSUME ProcessConstants, ProcessInit PROVE ProcessInv
  OBVIOUS
<1>1. host \in HostType /\ 0 \in 0..MaxFailures
  BY DEF ProcessInit, ProcessConstants
<1>2. /\ own.cancel = FALSE /\ own.committed = FALSE /\ own.settled = FALSE
      /\ own.fallback = "none" /\ own.proof = "none" /\ own.child = FALSE
      /\ own.launched = FALSE /\ own.childId = FALSE /\ own.holder = FALSE
  BY DEF ProcessInit
<1>3. /\ \A c \in Closers : closes[c].pc = "idle" /\ closes[c].knows = "none" /\ closes[c].owns = FALSE
      /\ \A c \in Closers \ {"start"} : answer[c] = "none"
      /\ DOMAIN answer = Closers \ {"start"}
  BY DEF ProcessInit, Idle
<1>4. own \in OwnFields /\ closes \in [Closers -> CloseRuns]
  BY DEF ProcessInit, OwnFields, CloseRuns, Idle, States
<1>5. /\ start = "idle" /\ pw = "none" /\ ours = "none" /\ other \in {"none", "up"}
      /\ reaper = "off" /\ faults = 0 /\ hit = {} /\ dropped = FALSE /\ host \in Hosts
      /\ answer \in [Closers \ {"start"} -> States \cup {"none", "pending", "early", "raced", "error"}]
  BY DEF ProcessInit
<1>6. ProcessTypeOK
  BY <1>1, <1>2, <1>4, <1>5 DEF ProcessTypeOK, OwnFields, CloseRuns, StartPCs
<1>7. {"start", "close"} \subseteq Closers /\ Forcers \subseteq Closers /\ "close" # "start"
  BY DEF Closers
<1>8. StagesOK
  BY <1>2, <1>3, <1>5, <1>7 DEF StagesOK, Unowned, Unlaunching, Preparing
<1>9. KnownOK
  BY <1>2, <1>3, <1>5 DEF KnownOK, Refusing, Ending
<1>10. AskedOK
  BY <1>3, <1>5 DEF AskedOK
<1>11. ClosesOK
  BY <1>3, <1>5, <1>7 DEF ClosesOK
<1>12. ToldOK
  BY <1>3 DEF ToldOK, Closed
<1>13. QED
  BY <1>6, <1>8, <1>9, <1>10, <1>11, <1>12 DEF ProcessInv

LEMMA IdleProcKeeps ==
    ASSUME ProcessInv, UNCHANGED processVars
    PROVE  ProcessInv'
BY DEF ProcessInv, ProcessTypeOK, StagesOK, KnownOK, AskedOK, ClosesOK, ToldOK, Closed, Spent, Past,
       Unowned, Alive, UsesScope, processVars

LEMMA NextProc ==
    ASSUME ProcessInv, ProcessConstants, [ProcessNext]_processVars
    PROVE  ProcessInv'
<1>1. CASE UNCHANGED processVars
  BY <1>1, IdleProcKeeps
<1>2. CASE ProcessNext
 <2>1. UNCHANGED host
   BY <1>2 DEF ProcessNext
 <2>2. CASE External
   BY <2>1, <2>2, ChromeUpKeeps, ChromeEndsKeeps, PlaywrightKeeps DEF External
 <2>3. CASE Begin
   BY <2>1, <2>3, BeginKeeps
 <2>4. CASE StartRuns
   BY <2>1, <2>4, PrepareKeeps, SpawnKeeps, EndpointKeeps, IdentityKeeps, UnspawnKeeps, ConnectKeeps,
      PermissionsKeeps, PagesKeeps, RaceKeeps, CleanedUpKeeps, OwnershipKeeps, DisownKeeps, CatchKeeps
      DEF StartRuns
 <2>5. CASE CleanUp \/ Reap
   BY <2>1, <2>5, RacesKeep
 <2>6. CASE Monitor
   BY <2>1, <2>6, MonitorKeeps
 <2>7. CASE Close
   BY <2>1, <2>7, CloseKeeps
 <2>8. CASE CancelStart
   BY <2>1, <2>8, CancelStartKeeps
 <2>9. CASE CloseGoes
   BY <2>1, <2>9, CloseGoesKeeps
 <2>10. CASE \E f \in Forcers : ForceTree(f)
   BY <2>1, <2>10, ForceTreeKeeps, ForceScopeKeeps
 <2>11. CASE \E c \in Closers : Closing(c)
   BY <2>1, <2>11, CloseFlushesKeeps, ScopeEndsKeeps, ProofEndsKeeps DEF Closing, CloseEnds
 <2>12. QED
   BY <1>2, <2>2, <2>3, <2>4, <2>5, <2>6, <2>7, <2>8, <2>9, <2>10, <2>11 DEF ProcessNext
<1>3. QED
  BY <1>1, <1>2

LEMMA ProcClosed ==
    ASSUME ProcessInv
    PROVE  ClosedIsGone
<1>1. Closed <=> \E c \in DOMAIN answer : answer[c] = "closed"
  BY DEF Closed
<1>2. ours \in {"dead", "none"} => ~Alive("own")
  BY DEF Alive
<1>3. QED
  BY <1>1, <1>2 DEF ProcessInv, ToldOK, ClosedIsGone, Spent

(* No step but a failure or a forced close ends a Chrome that is up before  *)
(* it was asked to quit.                                                    *)
LEMMA ProcQuits ==
    ASSUME ProcessInv, ProcessConstants, [ProcessNext]_processVars, start = "done", ours = "up",
           ours' = "dead"
    PROVE  faults' > faults \/ \E f \in Forcers : answer'[f] # "none"
<1> USE DEF ProcessInv
<1>1. ProcessNext /\ faults \in 0..MaxFailures /\ own.settled /\ MaxFailures \in Nat
  BY DEF processVars, ProcessTypeOK, ProcessConstants
<1>2. ASSUME Fails PROVE faults' > faults
  BY <1>1, <1>2 DEF Fails
<1>3. CASE External
 <2>1. pw # "pending" \/ dropped
   BY DEF StagesOK
 <2>2. ~dropped
   BY DEF StagesOK, Ending
 <2>3. QED
   BY <1>2, <1>3, <2>1, <2>2 DEF External, ChromeUp, ChromeEnds, Playwright
<1>4. CASE Begin \/ StartRuns \/ CleanUp \/ Monitor
  BY <1>4 DEF Begin, StartRuns, CleanUp, Monitor, Prepare, Spawn, Endpoint, Identity, Unspawn,
         Connect,
     Permissions, Pages, Race, CleanedUp, Ownership, Disown, Catch, Preparing, world
<1>5. CASE Close \/ CancelStart \/ CloseGoes
  BY <1>5 DEF Close, CancelStart, CloseGoes, world
<1>6. CASE Reap
 <2>1. reaper # "wait"
   BY DEF AskedOK
 <2>2. QED
   BY <1>1, <1>6, <2>1 DEF Reap, SignalTree, world, Alive
<1>7. ASSUME NEW f \in Forcers, ForceTree(f) PROVE answer'[f] # "none"
 <2>1. \E a \in {"raced", "closed", "unknown"} : answer' = [answer EXCEPT ![f] = a]
   BY <1>7 DEF ForceTree
 <2>2. f \in DOMAIN answer
   BY DEF ProcessTypeOK, ProcessConstants, Closers
 <2>3. QED
   BY <2>1, <2>2
<1>8. ASSUME NEW c \in Closers, Closing(c) PROVE faults' > faults
 <2>1. CASE CloseFlushes(c)
   BY <2>1 DEF CloseFlushes, SignalTree, Alive
 <2>2. CASE CloseEnds(c)
  <3>1. closes[c].pc = "wait" => closes[c].knows # "own"
    BY DEF AskedOK
  <3>2. closes[c].pc = "wait"
    BY <2>2 DEF CloseEnds, ScopeEnds, ProofEnds
  <3>3. QED
    BY <2>2, <3>1, <3>2 DEF CloseEnds, ScopeEnds, ProofEnds, SignalTree, Alive, world
 <2>3. QED
   BY <1>8, <2>1, <2>2 DEF Closing
<1>9. QED
  BY <1>1, <1>3, <1>4, <1>5, <1>6, <1>7, <1>8 DEF ProcessNext

(* The types of a launch, and what its stages, its closes, its reaper and    *)
(* its answers know of each other, hold in every reachable state.            *)
THEOREM ProcessIsSound == ProcessConstants /\ ProcessSpec => []ProcessInv
<1> SUFFICES ASSUME ProcessConstants PROVE ProcessSpec => []ProcessInv
  OBVIOUS
<1>1. ProcessInit => ProcessInv
  BY InitProc
<1>2. ProcessInv /\ [ProcessNext]_processVars => ProcessInv'
  BY NextProc
<1>3. QED
  BY <1>1, <1>2, PTL DEF ProcessSpec

(* A Chrome that was told to be closed is gone, whatever its start was doing *)
(* meanwhile, and one that started well is asked to quit before it is killed.*)
THEOREM ProcessIsSafe == ProcessConstants /\ ProcessSpec => ProcessSafe
<1> SUFFICES ASSUME ProcessConstants PROVE ProcessSpec => ProcessSafe
  OBVIOUS
<1>1. ProcessInv => ProcessTypeOK /\ ClosedIsGone
  BY ProcClosed DEF ProcessInv
<1>2. ProcessInv /\ [ProcessNext]_processVars
      => [start = "done" /\ ours = "up" /\ ours' = "dead"
            => faults' > faults \/ \E f \in Forcers : answer'[f] # "none"]_processVars
  BY ProcQuits
<1>3. ProcessSpec => []ProcessInv
  BY ProcessIsSound
<1>4. QED
  BY <1>1, <1>2, <1>3, PTL DEF ProcessSpec, ProcessSafe, QuitBeforeKill

-----------------------------------------------------------------------------
(* The commands and the closers of a session. *)

(* Before a start is named nobody commands, closes or expires the session. *)
Early ==
    /\ opening \in {"creating", "made", "naming", "cleaning"} => actor = "none"
    /\ opening # "ready" => \A c \in Operations : cmd[c] = "idle"
    /\ opening = "creating" => ~registered
    /\ opening \in {"made", "naming"} => registered
    /\ actor = "none" =>
         /\ trans.stage = "none" /\ ~ending /\ ~retry /\ ~forced /\ expiry = "idle"
         /\ \A x \in Enders : verdict[x] = "idle"
         /\ release.on => opening = "cleaning"

(* The queue has each command that is invoked and not settled, once. *)
Unanswered(c) == cmd[c] \notin {"idle", "done"}
Queued ==
    /\ queue \in Seq(Operations)
    /\ \A i, j \in 1..Len(queue) : queue[i] = queue[j] => i = j
    /\ \A c \in Operations : Unanswered(c) <=> \E i \in 1..Len(queue) : queue[i] = c

EndsFirst == forced \/ retry \/ trans.stage # "none" => ending

(* Whoever releases the tabs, may retry it, or removed the session, found no *)
(* lease, and none is given from then on.                                    *)
NoMoreLeases == CallLeases = {} /\ (ending \/ ~registered \/ opening # "ready")
Settling ==
    release.on \/ retry \/ trans.stage = "clean" \/ (opening = "ready" /\ ~registered)
        => forced \/ NoMoreLeases

(* An open page belongs to a tab family, which a release takes with it. *)
Kept ==
    /\ tabs = "open" => family = "kept" /\ browser # "lost"
    /\ release.on /\ ~release.had => family # "kept"
    /\ \A x \in Enders : verdict[x] = "release" => ~registered

SessionTypes ==
    /\ link \in {"up", "dropped", "closed"}
    /\ opening \in {"creating", "made", "naming", "cleaning", "ready", "failed"}
    /\ aborted \subseteq Operations \cup {TheStart}
    /\ actor \in {"none", "live", "gone"}
    /\ fenced \in BOOLEAN /\ registered \in BOOLEAN /\ ending \in BOOLEAN
    /\ forced \in BOOLEAN /\ retry \in BOOLEAN
    /\ cmd \in [Operations -> {"idle", "asked", "preparing", "queued", "doomed", "running", "done"}]
    /\ trans \in [by : Enders \cup {Nobody}, stage : {"none", "drain", "clean"}, again : BOOLEAN]
    /\ verdict \in [Enders -> {"idle", "tail", "wait", "release", "closed", "pending", "error"}]
    /\ family \in {"none", "kept", "dropped", "proven"}
    /\ tabs \in {"none", "open", "closed"}
    /\ release \in [on : BOOLEAN, had : BOOLEAN, hook : BOOLEAN]
    /\ expiry \in {"idle", "release", "done", "failed"}
    /\ browser \in {"up", "lost", "replaced"}

SessionInv ==
    /\ SessionTypes /\ Queued /\ OneAtATime /\ Early /\ EndsFirst /\ Settling /\ Kept
    /\ ToldIsClosed

(* A queue without repetitions has as many members as it is long. *)
LEMMA QueueCounts ==
    ASSUME Queued
    PROVE  /\ ToSet(queue) = {c \in Operations : Unanswered(c)}
           /\ Len(queue) = Cardinality(ToSet(queue))
<1>1. queue \in [1..Len(queue) -> Operations] /\ DOMAIN queue = 1..Len(queue) /\ Len(queue) \in Nat
  BY DEF Queued
<1>2. ToSet(queue) = {queue[i] : i \in 1..Len(queue)}
  BY <1>1 DEF ToSet
<1>3. ToSet(queue) = {c \in Operations : Unanswered(c)}
  BY <1>1, <1>2 DEF Queued
<1>4. queue \in Bijection(1..Len(queue), ToSet(queue))
  BY <1>1, <1>2 DEF Bijection, Injection, Surjection, IsInjective, Queued
<1>5. IsFiniteSet(1..Len(queue)) /\ Cardinality(1..Len(queue)) = Len(queue)
 <2>1. /\ IsFiniteSet(1..Len(queue))
       /\ Cardinality(1..Len(queue)) = IF 1 > Len(queue) THEN 0 ELSE Len(queue) - 1 + 1
   BY ONLY <1>1, FS_Interval
 <2>2. QED
   BY ONLY <1>1, <2>1
<1>6. Cardinality(1..Len(queue)) = Cardinality(ToSet(queue))
 <2>1. ExistsBijection(1..Len(queue), ToSet(queue))
   BY ONLY <1>4 DEF ExistsBijection
 <2>2. QED
   BY ONLY <1>5, <2>1, FS_Bijection
<1>7. QED
  BY <1>3, <1>5, <1>6

LEMMA SessionTyped ==
    ASSUME SessionTypes, Queued
    PROVE  SessionTypeOK
BY QueueCounts DEF SessionTypes, SessionTypeOK, Unanswered

LEMMA SessionStartsSound == SessionInit => SessionInv
<1> SUFFICES ASSUME SessionInit PROVE SessionInv
  OBVIOUS
<1>1. SessionTypes
  BY DEF SessionInit, SessionTypes, NoTrans, NoRelease, Nobody, TheStart
<1>2. Queued /\ OneAtATime
  BY DEF SessionInit, Queued, OneAtATime, Unanswered
<1>3. QED
  BY <1>1, <1>2 DEF SessionInit, SessionInv, Early, EndsFirst, Settling, Kept, ToldIsClosed, NoTrans,
     NoRelease

(* What the commands and the queue say stays while neither moves. *)
LEMMA CommandsRest ==
    ASSUME UNCHANGED commandVars
    PROVE  /\ Queued => Queued'
           /\ OneAtATime => OneAtATime'
           /\ CallLeases' = CallLeases
BY DEF commandVars, Queued, OneAtATime, CallLeases, Unanswered

-----------------------------------------------------------------------------
(* The commands. *)

(* A command moves: it becomes s, or its turn ends. *)
LEMMA BecomesKeeps ==
    ASSUME SessionInv, NEW c \in Operations, NEW s \in {"asked", "preparing", "queued", "doomed", "running"},
           Becomes(c, s), UNCHANGED queue, Unanswered(c),
           s = "running" => Head(queue) = c
    PROVE  Queued' /\ OneAtATime'
<1>1. cmd' = [cmd EXCEPT ![c] = s] /\ queue' = queue /\ cmd \in [Operations ->
        {"idle", "asked", "preparing", "queued", "doomed", "running", "done"}]
  BY DEF Becomes, SessionInv, SessionTypes
<1>2. Queued'
  BY <1>1 DEF SessionInv, Queued, Unanswered
<1>3. \E i \in 1..Len(queue) : queue[i] = c
  BY DEF SessionInv, Queued
<1>4. queue # <<>>
  BY <1>3 DEF SessionInv, Queued
<1>5. OneAtATime'
  BY <1>1, <1>4 DEF SessionInv, OneAtATime
<1>6. QED
  BY <1>2, <1>5

LEMMA SettlesKeeps ==
    ASSUME SessionInv, NEW c \in Operations, CommandSettles(c), Unanswered(c), Head(queue) = c
    PROVE  Queued' /\ OneAtATime'
<1>1. cmd' = [cmd EXCEPT ![c] = "done"] /\ queue' = Tail(queue) /\ cmd \in [Operations ->
        {"idle", "asked", "preparing", "queued", "doomed", "running", "done"}]
  BY DEF CommandSettles, Becomes, SessionInv, SessionTypes
<1>2. queue \in Seq(Operations) /\ Len(queue) \in Nat
  BY DEF SessionInv, Queued
<1>3. \E i \in 1..Len(queue) : queue[i] = c
  BY DEF SessionInv, Queued
<1>4. queue # <<>> /\ Len(queue) >= 1 /\ queue[1] = c
  BY <1>2, <1>3
<1>5. /\ queue' \in Seq(Operations) /\ Len(queue') = Len(queue) - 1
      /\ \A i \in 1..Len(queue') : queue'[i] = queue[i + 1] /\ i + 1 \in 1..Len(queue)
  BY <1>1, <1>2, <1>4
<1>6. \A i, j \in 1..Len(queue') : queue'[i] = queue'[j] => i = j
 <2> SUFFICES ASSUME NEW i \in 1..Len(queue'), NEW j \in 1..Len(queue'), queue'[i] = queue'[j]
              PROVE  i = j
   OBVIOUS
 <2>1. i + 1 = j + 1
   BY <1>5 DEF SessionInv, Queued
 <2>2. QED
   BY <2>1
<1>7. ASSUME NEW d \in Operations
      PROVE  Unanswered(d)' <=> \E i \in 1..Len(queue') : queue'[i] = d
 <2>1. CASE d = c
  <3>1. ~Unanswered(d)'
    BY <1>1, <2>1 DEF Unanswered
  <3>2. ASSUME NEW i \in 1..Len(queue'), queue'[i] = d PROVE FALSE
   <4>1. i + 1 = 1
     BY <1>2, <1>4, <1>5, <2>1, <3>2 DEF SessionInv, Queued
   <4>2. QED
     BY <4>1
  <3>3. QED
    BY <3>1, <3>2
 <2>2. CASE d # c
  <3>1. Unanswered(d)' <=> Unanswered(d)
    BY <1>1, <2>2 DEF Unanswered
  <3>2. Unanswered(d) => \E i \in 1..Len(queue') : queue'[i] = d
   <4> SUFFICES ASSUME Unanswered(d) PROVE \E i \in 1..Len(queue') : queue'[i] = d
     OBVIOUS
   <4>1. PICK i \in 1..Len(queue) : queue[i] = d
     BY DEF SessionInv, Queued
   <4>2. i # 1
     BY <4>1, <1>4, <2>2
   <4>3. i - 1 \in 1..Len(queue') /\ queue'[i - 1] = d
     BY <4>1, <4>2, <1>5, <1>2
   <4>4. QED
     BY <4>3
  <3>3. (\E i \in 1..Len(queue') : queue'[i] = d) => Unanswered(d)
    BY <1>5 DEF SessionInv, Queued
  <3>4. QED
    BY <3>1, <3>2, <3>3
 <2>3. QED
   BY <2>1, <2>2
<1>8. OneAtATime'
  BY <1>1 DEF SessionInv, OneAtATime
<1>9. QED
  BY <1>5, <1>6, <1>7, <1>8 DEF Queued

LEMMA InvokeKeeps ==
    ASSUME SessionInv, NEW c \in Operations, InvokeCommand(c)
    PROVE  Queued' /\ OneAtATime'
<1>1. PICK s \in {"asked", "queued"} : cmd' = [cmd EXCEPT ![c] = s]
  BY DEF InvokeCommand, Becomes
<1>2. cmd \in [Operations -> {"idle", "asked", "preparing", "queued", "doomed", "running", "done"}]
  BY DEF SessionInv, SessionTypes
<1>3. queue' = Append(queue, c) /\ cmd[c] = "idle"
  BY DEF InvokeCommand
<1>4. queue \in Seq(Operations) /\ Len(queue) \in Nat
  BY DEF SessionInv, Queued
<1>5. /\ queue' \in Seq(Operations) /\ Len(queue') = Len(queue) + 1
      /\ \A i \in 1..Len(queue) : queue'[i] = queue[i] /\ i \in 1..Len(queue')
      /\ queue'[Len(queue) + 1] = c
      /\ \A i \in 1..Len(queue') : i \in 1..Len(queue) \/ i = Len(queue) + 1
  BY <1>3, <1>4
<1>6. \A i \in 1..Len(queue) : queue[i] # c
  BY <1>3 DEF SessionInv, Queued, Unanswered
<1>7. \A i, j \in 1..Len(queue') : queue'[i] = queue'[j] => i = j
  BY <1>5, <1>6 DEF SessionInv, Queued
<1>8. ASSUME NEW d \in Operations
      PROVE  Unanswered(d)' <=> \E i \in 1..Len(queue') : queue'[i] = d
 <2>1. CASE d = c
  <3>1. Unanswered(d)'
    BY <1>1, <1>2, <2>1 DEF Unanswered
  <3>2. Len(queue) + 1 \in 1..Len(queue')
    BY <1>4, <1>5
  <3>3. QED
    BY <1>5, <2>1, <3>1, <3>2
 <2>2. CASE d # c
  <3>1. Unanswered(d)' <=> Unanswered(d)
    BY <1>1, <1>2, <2>2 DEF Unanswered
  <3>2. (\E i \in 1..Len(queue') : queue'[i] = d) <=> \E i \in 1..Len(queue) : queue[i] = d
    BY <1>5, <2>2
  <3>3. QED
    BY <3>1, <3>2 DEF SessionInv, Queued
 <2>3. QED
   BY <2>1, <2>2
<1>9. OneAtATime'
 <2> SUFFICES ASSUME NEW d \in Operations, cmd'[d] = "running"
              PROVE  queue' # <<>> /\ Head(queue') = d
   BY DEF OneAtATime
 <2>1. cmd[d] = "running"
   BY <1>1, <1>2
 <2>2. queue # <<>> /\ Head(queue) = d
   BY <2>1 DEF SessionInv, OneAtATime
 <2>3. QED
   BY <2>2, <1>3, <1>4
<1>10. QED
  BY <1>5, <1>7, <1>8, <1>9 DEF Queued

(* A command leaves alone what is not its own; it takes a lease only where   *)
(* the session gives one.                                                    *)
LEMMA CommandKeeps ==
    ASSUME SessionInv, NEW c \in Operations, opening = "ready",
           cmd' \in [Operations -> {"idle", "asked", "preparing", "queued", "doomed", "running", "done"}],
           \A d \in Operations \ {c} : cmd'[d] = cmd[d],
           cmd'[c] \in {"preparing", "running"} => Leasable \/ c \in CallLeases,
           Queued', OneAtATime',
           UNCHANGED <<link, actorVars, registered, closeVars, verdict, tabVars, expiry>>
    PROVE  SessionInv'
<1>1. SessionTypes'
  BY DEF SessionInv, SessionTypes, actorVars, closeVars, tabVars
<1>2. Early' /\ EndsFirst' /\ Kept' /\ ToldIsClosed'
  BY DEF SessionInv, Early, EndsFirst, Kept, ToldIsClosed, actorVars, closeVars, tabVars
<1>3. Settling'
 <2>1. NoMoreLeases => NoMoreLeases'
   BY DEF NoMoreLeases, CallLeases, Leasable, actorVars, closeVars
 <2>2. QED
   BY <2>1 DEF SessionInv, Settling, actorVars, closeVars, tabVars
<1>4. QED
  BY <1>1, <1>2, <1>3 DEF SessionInv

LEMMA CommandStep ==
    ASSUME SessionInv, NEW c \in Operations, InvokeCommand(c) \/ Working(c)
    PROVE  SessionInv'
<1>1. cmd \in [Operations -> {"idle", "asked", "preparing", "queued", "doomed", "running", "done"}]
  BY DEF SessionInv, SessionTypes
<1>2. CASE InvokeCommand(c)
 <2>1. Queued' /\ OneAtATime'
   BY <1>2, InvokeKeeps
 <2>2. \E s \in {"asked", "queued"} : cmd' = [cmd EXCEPT ![c] = s]
   BY <1>2 DEF InvokeCommand, Becomes
 <2>3. opening = "ready" /\ UNCHANGED <<link, actorVars, registered, closeVars, verdict, tabVars, expiry>>
   BY <1>2 DEF InvokeCommand
 <2>4. QED
   BY <1>1, <2>1, <2>2, <2>3, CommandKeeps
<1>3. ASSUME Working(c), Unanswered(c) PROVE opening = "ready"
  BY <1>3 DEF SessionInv, Early, Unanswered
<1>4. CASE PrepareCommand(c)
 <2>1. PICK s \in {"preparing", "doomed"} : Becomes(c, s) /\ (s = "preparing" => Leasable)
   BY <1>4 DEF PrepareCommand
 <2>2. Unanswered(c)
   BY <1>4 DEF PrepareCommand, Unanswered
 <2>3. UNCHANGED <<link, actorVars, registered, closeVars, verdict, tabVars, expiry>> /\ UNCHANGED queue
   BY <1>4 DEF PrepareCommand
 <2>4. Queued' /\ OneAtATime'
   BY <2>1, <2>2, <2>3, BecomesKeeps
 <2>5. opening = "ready"
   BY <1>3, <1>4, <2>2 DEF Working
 <2>6. cmd' = [cmd EXCEPT ![c] = s]
   BY <2>1 DEF Becomes
 <2>7. QED
   BY <1>1, <2>1, <2>3, <2>4, <2>5, <2>6, CommandKeeps
<1>5. CASE CommandPrepared(c)
 <2>1. PICK s \in {"queued", "doomed"} : Becomes(c, s)
   BY <1>5 DEF CommandPrepared
 <2>2. Unanswered(c)
   BY <1>5 DEF CommandPrepared, Unanswered
 <2>3. UNCHANGED <<link, actorVars, registered, closeVars, verdict, tabVars, expiry>> /\ UNCHANGED queue
   BY <1>5 DEF CommandPrepared
 <2>4. Queued' /\ OneAtATime'
   BY <2>1, <2>2, <2>3, BecomesKeeps
 <2>5. opening = "ready"
   BY <1>3, <1>5, <2>2 DEF Working
 <2>6. cmd' = [cmd EXCEPT ![c] = s]
   BY <2>1 DEF Becomes
 <2>7. QED
   BY <1>1, <2>1, <2>3, <2>4, <2>5, <2>6, CommandKeeps
<1>6. CASE TurnComes(c)
 <2>1. Unanswered(c) /\ Head(queue) = c
   BY <1>6 DEF TurnComes, OnTurn, Unanswered
 <2>2. UNCHANGED <<link, actorVars, registered, closeVars, verdict, tabVars, expiry>>
   BY <1>6 DEF TurnComes
 <2>3. opening = "ready"
   BY <1>3, <1>6, <2>1 DEF Working
 <2>4. CASE Becomes(c, "running") /\ UNCHANGED queue /\ Leasable
  <3>1. Queued' /\ OneAtATime'
    BY <2>1, <2>4, BecomesKeeps
  <3>2. cmd' = [cmd EXCEPT ![c] = "running"]
    BY <2>4 DEF Becomes
  <3>3. QED
    BY <1>1, <2>2, <2>3, <2>4, <3>1, <3>2, CommandKeeps
 <2>5. CASE CommandSettles(c)
  <3>1. Queued' /\ OneAtATime'
    BY <2>1, <2>5, SettlesKeeps
  <3>2. cmd' = [cmd EXCEPT ![c] = "done"]
    BY <2>5 DEF CommandSettles, Becomes
  <3>3. QED
    BY <1>1, <2>2, <2>3, <3>1, <3>2, CommandKeeps
 <2>6. QED
   BY <1>6, <2>4, <2>5 DEF TurnComes
<1>7. CASE Return(c)
 <2>1. Unanswered(c) /\ Head(queue) = c /\ CommandSettles(c)
   BY <1>7 DEF Return, Unanswered, SessionInv, OneAtATime
 <2>2. UNCHANGED <<link, actorVars, registered, closeVars, verdict, tabVars, expiry>>
   BY <1>7 DEF Return
 <2>3. opening = "ready"
   BY <1>3, <1>7, <2>1 DEF Working
 <2>4. Queued' /\ OneAtATime'
   BY <2>1, SettlesKeeps
 <2>5. cmd' = [cmd EXCEPT ![c] = "done"]
   BY <2>1 DEF CommandSettles, Becomes
 <2>6. QED
   BY <1>1, <2>2, <2>3, <2>4, <2>5, CommandKeeps
<1>8. QED
  BY <1>2, <1>4, <1>5, <1>6, <1>7 DEF Working

-----------------------------------------------------------------------------
(* Every other step leaves the commands alone. *)

LEMMA AsksReleaseIs ==
    ASSUME SessionTypes, NEW hook \in BOOLEAN, AsksRelease(hook),
           release.on /\ ~release.had => family # "kept"
    PROVE  /\ release' \in [on : BOOLEAN, had : BOOLEAN, hook : BOOLEAN] /\ release'.on
           /\ ~release'.had => family # "kept"
<1>1. release \in [on : BOOLEAN, had : BOOLEAN, hook : BOOLEAN]
  BY DEF SessionTypes
<1>2. CASE release.on
 <2>1. release' = [release EXCEPT !.hook = release.hook \/ hook]
   BY <1>2 DEF AsksRelease
 <2>2. QED
   BY <1>1, <1>2, <2>1
<1>3. CASE ~release.on
 <2>1. release' = [on |-> TRUE, had |-> family = "kept", hook |-> hook]
   BY <1>3 DEF AsksRelease
 <2>2. (family = "kept") \in BOOLEAN
   OBVIOUS
 <2>3. QED
   BY <2>1, <2>2
<1>4. QED
  BY <1>2, <1>3

LEMMA EntersKeeps ==
    ASSUME SessionInv, NEW x \in Enders, Enters(x), registered, actor # "none",
           UNCHANGED <<commandVars, opening, actor, registered, family, tabs, expiry>>,
           UNCHANGED <<link, aborted, browser>>, fenced' \in BOOLEAN
    PROVE  SessionInv'
<1>1. Queued' /\ OneAtATime' /\ CallLeases' = CallLeases
  BY CommandsRest DEF SessionInv
<1>2. SessionTypes /\ Early /\ EndsFirst /\ Settling /\ Kept /\ ToldIsClosed
  BY DEF SessionInv
<1>3. /\ ending' \in BOOLEAN /\ forced' \in BOOLEAN /\ retry' \in BOOLEAN
      /\ trans' \in [by : Enders \cup {Nobody}, stage : {"none", "drain", "clean"}, again : BOOLEAN]
      /\ release' \in [on : BOOLEAN, had : BOOLEAN, hook : BOOLEAN]
      /\ \E v \in {"wait", "pending"} : verdict' = [verdict EXCEPT ![x] = v]
      /\ ending' /\ (~ending => ~forced' /\ trans'.stage = "drain" /\ retry' = retry /\ release' = release)
      /\ ending => forced' = forced
      /\ retry' => retry
      /\ ending /\ ~retry => trans' = trans /\ release' = release
      /\ release'.on /\ ~release'.had => family # "kept"
 <2>1. CASE ~ending
  <3>1. trans' = [by |-> x, stage |-> "drain", again |-> FALSE]
    BY <2>1 DEF Enters
  <3>2. QED
    BY <1>2, <2>1, <3>1 DEF Enters, SessionTypes, Kept
 <2>2. CASE ending /\ retry
  <3>1. trans' = [by |-> x, stage |-> "clean", again |-> TRUE] /\ AsksRelease(TRUE)
    BY <2>2 DEF Enters
  <3>2. release' \in [on : BOOLEAN, had : BOOLEAN, hook : BOOLEAN] /\ (~release'.had => family # "kept")
    BY <1>2, <3>1, AsksReleaseIs DEF Kept
  <3>3. QED
    BY <1>2, <2>2, <3>1, <3>2 DEF Enters, SessionTypes
 <2>3. CASE ending /\ ~retry
   BY <1>2, <2>3 DEF Enters, SessionTypes, Kept, closeVars
 <2>4. QED
   BY <2>1, <2>2, <2>3
<1>4. SessionTypes'
  BY <1>2, <1>3 DEF SessionTypes, commandVars
<1>5. Early' /\ EndsFirst' /\ Kept' /\ ToldIsClosed'
  BY <1>2, <1>3 DEF Early, EndsFirst, Kept, ToldIsClosed, commandVars, SessionTypes
<1>6. Settling'
  BY <1>1, <1>2, <1>3 DEF Settling, NoMoreLeases, EndsFirst
<1>7. QED
  BY <1>1, <1>4, <1>5, <1>6 DEF SessionInv

LEMMA StartingKeeps ==
    ASSUME SessionInv, SessionStarts
    PROVE  SessionInv'
<1>0. UNCHANGED commandVars
  BY DEF SessionStarts, StartMade, StartRefused, StartFails, StartObserved, StartNamed
<1>1. Queued' /\ OneAtATime' /\ CallLeases' = CallLeases /\ cmd' = cmd
  BY <1>0, CommandsRest DEF SessionInv, commandVars
<1>2. SessionTypes /\ Early /\ EndsFirst /\ Settling /\ Kept /\ ToldIsClosed
  BY DEF SessionInv
<1>3. opening # "ready" => CallLeases = {}
  BY <1>2 DEF Early, CallLeases
<1>4. CASE StartMade
 <2>1. SessionTypes'
   BY <1>1, <1>2, <1>4 DEF SessionTypes, StartMade, closeVars
 <2>2. Early' /\ EndsFirst' /\ Kept' /\ ToldIsClosed'
   BY <1>1, <1>2, <1>4 DEF Early, EndsFirst, Kept, ToldIsClosed, StartMade, closeVars
 <2>3. Settling'
   BY <1>1, <1>2, <1>3, <1>4 DEF Early, Settling, NoMoreLeases, StartMade, closeVars
 <2>4. QED
   BY <1>1, <2>1, <2>2, <2>3 DEF SessionInv
<1>5. CASE StartRefused
 <2>1. SessionTypes'
   BY <1>1, <1>2, <1>5 DEF SessionTypes, StartRefused, closeVars, tabVars
 <2>2. Early' /\ EndsFirst' /\ Kept' /\ ToldIsClosed'
   BY <1>1, <1>2, <1>5 DEF Early, EndsFirst, Kept, ToldIsClosed, StartRefused, closeVars, tabVars
 <2>3. Settling'
   BY <1>1, <1>2, <1>3, <1>5 DEF Early, Settling, NoMoreLeases, StartRefused, closeVars, tabVars
 <2>4. QED
   BY <1>1, <2>1, <2>2, <2>3 DEF SessionInv
<1>6. ASSUME opening = "made", opening' = "cleaning", AsksRelease(FALSE), registered' \in {FALSE, registered},
             UNCHANGED <<link, aborted, actor, fenced, closeVars, verdict, family, tabs, expiry, browser>>
      PROVE  SessionInv'
 <2>1. /\ release' \in [on : BOOLEAN, had : BOOLEAN, hook : BOOLEAN] /\ release'.on
       /\ ~release'.had => family # "kept"
   BY <1>2, <1>6, AsksReleaseIs DEF Kept
 <2>2. SessionTypes'
  <3>1. registered' \in BOOLEAN /\ opening' = "cleaning"
    BY <1>2, <1>6 DEF SessionTypes
  <3>2. UNCHANGED <<link, aborted, actor, fenced, closeVars, verdict, family, tabs, expiry, browser, cmd>>
    BY <1>1, <1>6
  <3>3. QED
    BY ONLY <2>1, <3>1, <3>2, <1>2 DEF SessionTypes, closeVars
 <2>3. Early' /\ EndsFirst' /\ Kept' /\ ToldIsClosed'
   BY <1>1, <1>2, <1>6, <2>1 DEF Early, EndsFirst, Kept, ToldIsClosed, closeVars
 <2>4. Settling'
   BY <1>1, <1>2, <1>3, <1>6 DEF Early, Settling, NoMoreLeases, closeVars
 <2>5. QED
   BY <1>1, <2>2, <2>3, <2>4 DEF SessionInv
<1>7. CASE StartFails
  BY <1>6, <1>7 DEF StartFails
<1>8. CASE StartObserved
 <2>1. CASE TheStart \in aborted
   BY <1>6, <1>8, <2>1 DEF StartObserved
 <2>2. CASE TheStart \notin aborted
  <3>1. opening = "made" /\ opening' = "naming" /\ UNCHANGED release
    BY <1>8, <2>2 DEF StartObserved
  <3>2. SessionTypes'
    BY <1>1, <1>2, <1>8, <3>1 DEF SessionTypes, StartObserved, closeVars
  <3>3. Early' /\ EndsFirst' /\ Kept' /\ ToldIsClosed'
    BY <1>1, <1>2, <1>8, <3>1 DEF Early, EndsFirst, Kept, ToldIsClosed, StartObserved, closeVars
  <3>4. Settling'
    BY <1>1, <1>2, <1>3, <1>8, <3>1 DEF Early, Settling, NoMoreLeases, StartObserved, closeVars
  <3>5. QED
    BY <1>1, <3>2, <3>3, <3>4 DEF SessionInv
 <2>3. QED
   BY <2>1, <2>2
<1>9. CASE StartNamed
 <2>1. /\ opening = "naming" /\ opening' \in {"failed", "ready"} /\ actor' = "live"
       /\ fenced' \in BOOLEAN
       /\ \/ verdict' = verdict
          \/ verdict' = [verdict EXCEPT ![Drop] = "tail"]
   BY <1>9 DEF StartNamed
 <2>2. UNCHANGED <<link, aborted, registered, closeVars, tabVars, expiry>>
   BY <1>9 DEF StartNamed
 <2>3. SessionTypes'
   BY <1>1, <1>2, <2>1, <2>2 DEF SessionTypes, closeVars, tabVars
 <2>4. Early' /\ EndsFirst' /\ Kept' /\ ToldIsClosed'
   BY <1>1, <1>2, <2>1, <2>2 DEF Early, EndsFirst, Kept, ToldIsClosed, closeVars, tabVars, SessionTypes
 <2>5. Settling'
   BY <1>1, <1>2, <1>3, <2>1, <2>2 DEF Early, Settling, NoMoreLeases, closeVars, tabVars
 <2>6. QED
   BY <1>1, <2>3, <2>4, <2>5 DEF SessionInv
<1>10. QED
  BY <1>4, <1>5, <1>7, <1>8, <1>9 DEF SessionStarts

LEMMA CleanKeeps ==
    ASSUME SessionInv, Clean
    PROVE  SessionInv'
<1>1. Queued' /\ OneAtATime' /\ CallLeases' = CallLeases /\ cmd' = cmd
  BY CommandsRest DEF SessionInv, commandVars, Clean
<1>2. SessionTypes /\ Early /\ EndsFirst /\ Settling /\ Kept /\ ToldIsClosed
  BY DEF SessionInv
<1>3. trans.stage = "drain" /\ CallLeases = {} /\ ending
  BY <1>2 DEF Clean, LeasesDrained, EndsFirst
<1>4. UNCHANGED <<link, opening, aborted, actor, fenced, registered, ending, forced, retry, family,
                  tabs, expiry, browser>>
  BY DEF Clean, actorVars
<1>5. actor # "none"
  BY <1>2, <1>3 DEF Early
<1>6. CASE forced \/ ~registered
 <2>1. trans' = NoTrans /\ UNCHANGED release
   BY <1>6 DEF Clean
 <2>2. verdict' = [verdict EXCEPT ![trans.by] = IF @ = "wait" THEN "error" ELSE @]
   BY <1>6 DEF Clean
 <2>3. /\ verdict' \in [Enders -> {"idle", "tail", "wait", "release", "closed", "pending", "error"}]
       /\ \A x \in Enders : verdict'[x] \in {"closed", "release"} => verdict'[x] = verdict[x]
   BY <1>2, <2>2 DEF SessionTypes
 <2>4. NoTrans \in [by : Enders \cup {Nobody}, stage : {"none", "drain", "clean"}, again : BOOLEAN] /\ NoTrans.stage = "none"
   BY DEF NoTrans
 <2>5. SessionTypes'
   BY <1>1, <1>2, <1>4, <2>1, <2>3, <2>4 DEF SessionTypes
 <2>6. Early' /\ EndsFirst' /\ Kept' /\ ToldIsClosed'
   BY <1>1, <1>2, <1>4, <1>5, <2>1, <2>3, <2>4 DEF Early, EndsFirst, Kept, ToldIsClosed
 <2>7. Settling'
   BY <1>1, <1>2, <1>4, <2>1, <2>4 DEF Settling, NoMoreLeases
 <2>8. QED
   BY <1>1, <2>5, <2>6, <2>7 DEF SessionInv
<1>7. CASE ~forced /\ registered
 <2>1. trans' = [trans EXCEPT !.stage = "clean"] /\ AsksRelease(TRUE) /\ UNCHANGED verdict
   BY <1>7 DEF Clean
 <2>2. /\ release' \in [on : BOOLEAN, had : BOOLEAN, hook : BOOLEAN] /\ release'.on
       /\ ~release'.had => family # "kept"
   BY <1>2, <2>1, AsksReleaseIs DEF Kept
 <2>3. trans' \in [by : Enders \cup {Nobody}, stage : {"none", "drain", "clean"}, again : BOOLEAN] /\ trans'.stage = "clean"
   BY <1>2, <2>1 DEF SessionTypes
 <2>4. SessionTypes'
   BY <1>1, <1>2, <1>4, <2>1, <2>2, <2>3 DEF SessionTypes
 <2>5. Early' /\ EndsFirst' /\ Kept' /\ ToldIsClosed'
   BY <1>1, <1>2, <1>3, <1>4, <1>5, <2>1, <2>2, <2>3 DEF Early, EndsFirst, Kept, ToldIsClosed
 <2>6. Settling'
   BY <1>1, <1>3, <1>4 DEF Settling, NoMoreLeases
 <2>7. QED
   BY <1>1, <2>4, <2>5, <2>6 DEF SessionInv
<1>8. QED
  BY <1>2, <1>6, <1>7 DEF SessionTypes

(* The release ends: who awaits it is told. *)
LEMMA ToldIs ==
    ASSUME SessionTypes, NEW x \in Enders, NEW ok \in BOOLEAN
    PROVE  /\ Told(x, ok) \in {"idle", "tail", "wait", "release", "closed", "pending", "error"}
           /\ Told(x, ok) # "release"
           /\ verdict[x] = "idle" => Told(x, ok) = "idle"
           /\ Told(x, ok) = "closed" =>
                verdict[x] = "closed" \/ (ok /\ (verdict[x] = "release" \/ trans.stage = "clean"))
<1>1. verdict[x] \in {"idle", "tail", "wait", "release", "closed", "pending", "error"}
  BY DEF SessionTypes
<1>2. CASE verdict[x] = "wait" /\ trans.by = x /\ trans.stage = "clean"
 <2>1. Told(x, ok) = IF ok THEN "closed" ELSE IF trans.again THEN "pending" ELSE "error"
   BY <1>2 DEF Told
 <2>2. trans.stage = "clean"
   BY <1>2
 <2>3. QED
   BY <1>2, <2>1, <2>2
<1>3. CASE verdict[x] = "release"
 <2>1. Told(x, ok) = IF ok THEN "closed" ELSE "error"
   BY <1>3 DEF Told
 <2>2. QED
   BY <1>3, <2>1
<1>4. CASE ~(verdict[x] = "wait" /\ trans.by = x /\ trans.stage = "clean") /\ verdict[x] # "release"
 <2>1. Told(x, ok) = verdict[x]
   BY <1>4 DEF Told
 <2>2. QED
   BY <1>1, <1>4, <2>1
<1>5. QED
  BY <1>2, <1>3, <1>4

LEMMA ReleasedKeeps ==
    ASSUME SessionInv, TabsReleased
    PROVE  SessionInv'
<1>1. Queued' /\ OneAtATime' /\ CallLeases' = CallLeases /\ cmd' = cmd
  BY CommandsRest DEF SessionInv, commandVars, TabsReleased
<1>2. SessionTypes /\ Early /\ EndsFirst /\ Settling /\ Kept /\ ToldIsClosed
  BY DEF SessionInv
<1>3. UNCHANGED <<link, aborted, fenced, ending, forced, browser>> /\ release.on
  BY DEF TabsReleased
<1>4. PICK ok \in BOOLEAN : ok = Proves
  BY <1>2 DEF Proves, SessionTypes
<1>5. release' = NoRelease /\ NoRelease \in [on : BOOLEAN, had : BOOLEAN, hook : BOOLEAN] /\ ~NoRelease.on
  BY DEF TabsReleased, NoRelease
<1>6. tabs' \in {"none", "open", "closed"} /\ tabs' # "open" /\ family' \in {"none", "kept", "dropped", "proven"}
  BY <1>2, <1>3 DEF TabsReleased, Kept, SessionTypes
<1>7. /\ registered' \in BOOLEAN /\ (registered' => registered)
      /\ ok /\ trans.stage = "clean" => ~registered'
      /\ registered /\ ~registered' => trans.stage = "clean"
  BY <1>2, <1>4 DEF TabsReleased, SessionTypes
<1>8. retry' \in BOOLEAN /\ (retry' => retry \/ trans.stage = "clean")
  BY <1>2, <1>4 DEF TabsReleased, SessionTypes
<1>9. /\ trans' \in [by : Enders \cup {Nobody}, stage : {"none", "drain", "clean"}, again : BOOLEAN]
      /\ trans'.stage # "clean" /\ (trans'.stage # "none" => trans.stage # "none")
  BY <1>2 DEF TabsReleased, NoTrans, SessionTypes
<1>10. /\ actor' \in {"none", "live", "gone"} /\ (actor' = "live" => actor = "live")
       /\ actor' = "none" => actor = "none"
       /\ Retires(ok) => actor' = "gone"
       /\ actor = "none" => actor' = "none"
 <2>1. actor' = IF Retires(ok) THEN "gone" ELSE actor
   BY <1>4 DEF TabsReleased
 <2>2. ASSUME actor = "none" PROVE ~Retires(ok)
  <3>1. trans.stage = "none" /\ expiry = "idle" /\ \A x \in Enders : verdict[x] = "idle"
    BY <1>2, <2>2 DEF Early
  <3>2. \A x \in Enders : Told(x, ok) = "idle"
    BY <1>2, <3>1, ToldIs
  <3>3. QED
    BY <3>1, <3>2 DEF Retires
 <2>3. QED
   BY <1>2, <2>1, <2>2 DEF SessionTypes
<1>11. /\ expiry' \in {"idle", "release", "done", "failed"} /\ (expiry = "idle" => expiry' = "idle")
  BY <1>2 DEF TabsReleased, SessionTypes
<1>12. /\ opening' \in {"creating", "made", "naming", "cleaning", "ready", "failed"}
       /\ opening' = opening \/ (opening = "cleaning" /\ opening' = "failed")
  BY <1>2 DEF TabsReleased, SessionTypes
<1>13. verdict' = [x \in Enders |-> Told(x, ok)]
  BY <1>4 DEF TabsReleased
<1>14. /\ verdict' \in [Enders -> {"idle", "tail", "wait", "release", "closed", "pending", "error"}]
       /\ \A x \in Enders : verdict'[x] # "release" /\ (verdict[x] = "idle" => verdict'[x] = "idle")
       /\ \A x \in Enders : verdict'[x] = "closed" =>
            verdict[x] = "closed" \/ (Retires(ok) /\ ~registered')
 <2>1. ASSUME NEW x \in Enders, Told(x, ok) = "closed", verdict[x] # "closed"
       PROVE  Retires(ok) /\ ~registered'
  <3>1. ok /\ (verdict[x] = "release" \/ trans.stage = "clean")
    BY <1>2, <2>1, ToldIs
  <3>2. Retires(ok)
    BY <2>1, <3>1 DEF Retires
  <3>3. ~registered'
    BY <1>2, <1>7, <3>1 DEF Kept
  <3>4. QED
    BY <3>2, <3>3
 <2>2. QED
   BY <1>2, <1>13, <2>1, ToldIs
<1>15. SessionTypes'
  BY <1>1, <1>2, <1>3, <1>5, <1>6, <1>7, <1>8, <1>9, <1>10, <1>11, <1>12, <1>14 DEF SessionTypes
<1>16. Early'
  BY <1>1, <1>2, <1>3, <1>5, <1>7, <1>8, <1>9, <1>10, <1>11, <1>12, <1>14 DEF Early
<1>17. EndsFirst' /\ Kept'
  BY <1>2, <1>3, <1>5, <1>6, <1>8, <1>9, <1>14 DEF EndsFirst, Kept
<1>18. ToldIsClosed'
  BY <1>2, <1>6, <1>7, <1>10, <1>14 DEF ToldIsClosed
<1>19. Settling'
  BY <1>1, <1>2, <1>3, <1>5, <1>7, <1>8, <1>9, <1>12 DEF Settling, NoMoreLeases
<1>20. QED
  BY <1>1, <1>15, <1>16, <1>17, <1>18, <1>19 DEF SessionInv

LEMMA ClosersKeep ==
    ASSUME SessionInv, CloseActor \/ CloseSession
    PROVE  SessionInv'
<1>2. SessionTypes /\ Early /\ EndsFirst /\ Settling /\ Kept /\ ToldIsClosed
  BY DEF SessionInv
<1>3. Drop \in Enders
  BY DEF Enders
<1>4. CASE CloseActor
 <2>1. Queued' /\ OneAtATime' /\ CallLeases' = CallLeases /\ cmd' = cmd
   BY <1>4, CommandsRest DEF SessionInv, commandVars, CloseActor
 <2>2. /\ fenced' \in BOOLEAN /\ link' = "closed"
       /\ \/ verdict' = verdict
          \/ actor = "live" /\ verdict' = [verdict EXCEPT ![Drop] = "tail"]
   BY <1>2, <1>4 DEF CloseActor, SessionTypes
 <2>3. UNCHANGED <<opening, aborted, actor, registered, closeVars, tabVars, expiry>>
   BY <1>4 DEF CloseActor
 <2>4. SessionTypes'
   BY <1>2, <1>3, <2>1, <2>2, <2>3 DEF SessionTypes, closeVars, tabVars
 <2>5. Early' /\ EndsFirst' /\ Kept' /\ ToldIsClosed'
   BY <1>2, <1>3, <2>1, <2>2, <2>3 DEF Early, EndsFirst, Kept, ToldIsClosed, closeVars, tabVars, SessionTypes
 <2>6. Settling'
   BY <1>2, <2>1, <2>3 DEF Settling, NoMoreLeases, closeVars, tabVars
 <2>7. QED
   BY <2>1, <2>4, <2>5, <2>6 DEF SessionInv
<1>5. CASE CloseSession
 <2>1. verdict[Drop] = "tail" /\ queue = <<>>
   BY <1>5 DEF CloseSession
 <2>2. actor # "none"
   BY <1>2, <1>3, <2>1 DEF Early
 <2>3. CASE registered
  <3>1. Enters(Drop) /\ fenced' \in BOOLEAN
    BY <1>2, <1>5, <2>3 DEF CloseSession, actorVars, SessionTypes
  <3>2. UNCHANGED <<commandVars, opening, actor, registered, family, tabs, expiry>>
        /\ UNCHANGED <<link, aborted, browser>>
    BY <1>5 DEF CloseSession, actorVars
  <3>3. QED
    BY <1>3, <2>2, <2>3, <3>1, <3>2, EntersKeeps
 <2>4. CASE ~registered
  <3>1. verdict' = [verdict EXCEPT ![Drop] = "release"] /\ AsksRelease(FALSE) /\ UNCHANGED closeVars
    BY <1>5, <2>4 DEF CloseSession
  <3>2. UNCHANGED <<link, actorVars, registered, family, tabs, expiry, browser>>
    BY <1>5 DEF CloseSession
  <3>3. Queued' /\ OneAtATime' /\ CallLeases' = CallLeases /\ cmd' = cmd
    BY <1>5, CommandsRest DEF SessionInv, commandVars, CloseSession
  <3>4. /\ release' \in [on : BOOLEAN, had : BOOLEAN, hook : BOOLEAN] /\ release'.on
        /\ ~release'.had => family # "kept"
    BY <1>2, <3>1, AsksReleaseIs DEF Kept
  <3>5. CallLeases = {}
   <4>1. \A c \in Operations : ~Unanswered(c)
     BY <2>1 DEF SessionInv, Queued
   <4>2. QED
     BY <4>1 DEF CallLeases, Unanswered
  <3>6. SessionTypes'
    BY <1>2, <1>3, <3>1, <3>2, <3>3, <3>4 DEF SessionTypes, closeVars, actorVars
  <3>7. Early' /\ EndsFirst' /\ Kept' /\ ToldIsClosed'
    BY <1>2, <1>3, <2>2, <2>4, <3>1, <3>2, <3>3, <3>4
       DEF Early, EndsFirst, Kept, ToldIsClosed, closeVars, actorVars, SessionTypes
  <3>8. Settling'
    BY <2>4, <3>2, <3>3, <3>5 DEF Settling, NoMoreLeases, actorVars
  <3>9. QED
    BY <3>3, <3>6, <3>7, <3>8 DEF SessionInv
 <2>5. QED
   BY <1>2, <2>3, <2>4 DEF SessionTypes
<1>6. QED
  BY <1>4, <1>5

LEMMA ShutdownKeeps ==
    ASSUME SessionInv, Shutdown
    PROVE  SessionInv'
<1>1. Queued' /\ OneAtATime' /\ CallLeases' = CallLeases /\ cmd' = cmd
  BY CommandsRest DEF SessionInv, commandVars, Shutdown
<1>2. SessionTypes /\ Early /\ EndsFirst /\ Settling /\ Kept /\ ToldIsClosed
  BY DEF SessionInv
<1>3. AsksRelease(FALSE) /\ actor = "live"
  BY DEF Shutdown
<1>4. /\ release' \in [on : BOOLEAN, had : BOOLEAN, hook : BOOLEAN] /\ release'.on
      /\ ~release'.had => family # "kept"
  BY <1>2, <1>3, AsksReleaseIs DEF Kept
<1>5. aborted' \subseteq Operations \cup {TheStart}
 <2>1. ToSet(queue) \subseteq Operations
   BY QueueCounts DEF SessionInv
 <2>2. QED
   BY <1>2, <2>1 DEF Shutdown, SessionTypes
<1>6. /\ fenced' = TRUE /\ registered' = FALSE /\ expiry' = "release"
      /\ forced' \in BOOLEAN /\ (forced' <=> forced \/ registered)
      /\ ending' \in BOOLEAN /\ (ending' <=> ending \/ registered)
  BY <1>2 DEF Shutdown, SessionTypes
<1>7. UNCHANGED <<link, opening, actor, trans, retry, verdict, family, tabs, browser>>
  BY DEF Shutdown
<1>8. SessionTypes'
 <2>1. /\ fenced' \in BOOLEAN /\ registered' \in BOOLEAN /\ forced' \in BOOLEAN
       /\ ending' \in BOOLEAN /\ expiry' \in {"idle", "release", "done", "failed"}
   BY <1>6
 <2>2. UNCHANGED <<cmd, link, opening, actor, trans, retry, verdict, family, tabs, browser>>
   BY <1>1, <1>7
 <2>3. release' \in [on : BOOLEAN, had : BOOLEAN, hook : BOOLEAN]
   BY <1>4
 <2>4. QED
   BY ONLY <1>2, <1>5, <2>1, <2>2, <2>3 DEF SessionTypes
<1>9. Early' /\ EndsFirst' /\ Kept' /\ ToldIsClosed'
  BY <1>1, <1>2, <1>3, <1>4, <1>6, <1>7 DEF Early, EndsFirst, Kept, ToldIsClosed, SessionTypes
<1>10. Settling'
 <2>1. CASE registered
   BY <1>6, <2>1 DEF Settling
 <2>2. CASE ~registered
  <3>1. opening # "ready" => CallLeases = {}
    BY <1>2 DEF Early, CallLeases
  <3>2. forced \/ CallLeases = {}
    BY <1>2, <2>2, <3>1 DEF Settling, NoMoreLeases
  <3>3. QED
    BY <1>1, <1>6, <3>2 DEF Settling, NoMoreLeases
 <2>3. QED
   BY <1>2, <2>1, <2>2 DEF SessionTypes
<1>11. QED
  BY <1>1, <1>8, <1>9, <1>10 DEF SessionInv

LEMMA OthersKeep ==
    ASSUME SessionInv,
           \/ Disconnect \/ Lose \/ Replace
           \/ \E x \in Operations \cup {TheStart} : Abort(x)
           \/ \E x \in Enders : AnswerPending(x)
    PROVE  SessionInv'
<1>1. UNCHANGED <<commandVars, opening, actor, fenced, registered, closeVars, release, expiry>>
  BY DEF Disconnect, Lose, Replace, Abort, AnswerPending, actorVars, tabVars
<1>2. Queued' /\ OneAtATime' /\ CallLeases' = CallLeases /\ cmd' = cmd
  BY <1>1, CommandsRest DEF SessionInv, commandVars
<1>3. SessionTypes /\ Early /\ EndsFirst /\ Settling /\ Kept /\ ToldIsClosed
  BY DEF SessionInv
<1>4. ToSet(queue) \subseteq Operations
  BY QueueCounts DEF SessionInv
<1>5. link' \in {"up", "dropped", "closed"} /\ browser' \in {"up", "lost", "replaced"}
  BY <1>3 DEF Disconnect, Lose, Replace, Abort, AnswerPending, tabVars, SessionTypes
<1>6. aborted' \subseteq Operations \cup {TheStart}
 <2>1. CASE Disconnect
   BY <1>3, <1>4, <2>1 DEF Disconnect, SessionTypes
 <2>2. CASE ~Disconnect
   BY <1>3, <2>2 DEF Lose, Replace, Abort, AnswerPending, actorVars, SessionTypes
 <2>3. QED
   BY <2>1, <2>2
<1>7. /\ verdict' = verdict \/ \E x \in Enders : verdict[x] = "wait" /\ verdict' = [verdict EXCEPT ![x] = "pending"]
  BY DEF Disconnect, Lose, Replace, Abort, AnswerPending
<1>8. /\ tabs' \in {"none", "open", "closed"} /\ family' \in {"none", "kept", "dropped", "proven"}
      /\ tabs' = "open" => tabs = "open" /\ family' = family /\ browser' # "lost"
      /\ family' = "kept" => family = "kept"
  BY <1>3 DEF Disconnect, Lose, Replace, Abort, AnswerPending, tabVars, SessionTypes, Kept
<1>9. SessionTypes'
  BY <1>1, <1>2, <1>3, <1>5, <1>6, <1>7, <1>8 DEF SessionTypes, closeVars
<1>10. Early' /\ EndsFirst' /\ Kept' /\ ToldIsClosed'
  BY <1>1, <1>2, <1>3, <1>7, <1>8 DEF Early, EndsFirst, Kept, ToldIsClosed, closeVars, SessionTypes
<1>11. Settling'
  BY <1>1, <1>2, <1>3 DEF Settling, NoMoreLeases, closeVars
<1>12. QED
  BY <1>2, <1>9, <1>10, <1>11 DEF SessionInv

LEMMA FinishKeeps2 ==
    ASSUME SessionInv, NEW x \in Finishes, FinishSession(x)
    PROVE  SessionInv'
<1>1. x \in Enders /\ actor = "live" /\ fenced' = TRUE
  BY DEF FinishSession, Enders
<1>2. UNCHANGED <<link, opening, aborted, actor, commandVars, registered, family, tabs, expiry, browser>>
  BY DEF FinishSession
<1>3. SessionTypes /\ Early /\ EndsFirst /\ Settling /\ Kept /\ ToldIsClosed
  BY DEF SessionInv
<1>4. CASE browser = "up" /\ registered
 <2>1. Enters(x)
   BY <1>4 DEF FinishSession
 <2>2. QED
   BY <1>1, <1>2, <1>4, <2>1, EntersKeeps
<1>5. CASE ~(browser = "up" /\ registered)
 <2>1. verdict' = [verdict EXCEPT ![x] = "error"] /\ UNCHANGED <<closeVars, release>>
   BY <1>5 DEF FinishSession
 <2>2. Queued' /\ OneAtATime' /\ CallLeases' = CallLeases /\ cmd' = cmd
   BY <1>2, CommandsRest DEF SessionInv, commandVars
 <2>3. SessionTypes'
   BY <1>1, <1>2, <1>3, <2>1, <2>2 DEF SessionTypes, closeVars
 <2>4. Early' /\ EndsFirst' /\ Kept' /\ ToldIsClosed'
   BY <1>1, <1>2, <1>3, <2>1, <2>2 DEF Early, EndsFirst, Kept, ToldIsClosed, closeVars, SessionTypes
 <2>5. Settling'
   BY <1>2, <1>3, <2>1, <2>2 DEF Settling, NoMoreLeases, closeVars
 <2>6. QED
   BY <2>2, <2>3, <2>4, <2>5 DEF SessionInv
<1>6. QED
  BY <1>4, <1>5

LEMMA SessionStep == SessionInv /\ [SessionNext]_sessionVars => SessionInv'
<1> SUFFICES ASSUME SessionInv, [SessionNext]_sessionVars PROVE SessionInv'
  OBVIOUS
<1>1. CASE UNCHANGED sessionVars
 <2>1. Queued' /\ OneAtATime' /\ CallLeases' = CallLeases /\ cmd' = cmd
   BY <1>1, CommandsRest DEF SessionInv, commandVars, sessionVars
 <2>2. SessionTypes'
   BY <1>1 DEF SessionInv, SessionTypes, sessionVars
 <2>3. Early' /\ EndsFirst' /\ Kept' /\ ToldIsClosed' /\ Settling'
   BY <1>1, <2>1 DEF SessionInv, Early, EndsFirst, Kept, ToldIsClosed, Settling, NoMoreLeases, sessionVars
 <2>4. QED
   BY <2>1, <2>2, <2>3 DEF SessionInv
<1>2. CASE SessionStarts
  BY <1>2, StartingKeeps
<1>3. CASE SessionCloses
  BY <1>3, CleanKeeps, ReleasedKeeps, ClosersKeep DEF SessionCloses
<1>4. CASE Shutdown
  BY <1>4, ShutdownKeeps
<1>5. CASE \E c \in Operations : InvokeCommand(c) \/ Working(c)
  BY <1>5, CommandStep
<1>6. CASE \E x \in Finishes : FinishSession(x)
  BY <1>6, FinishKeeps2
<1>7. CASE \/ Disconnect \/ Lose \/ Replace
           \/ \E x \in Operations \cup {TheStart} : Abort(x)
           \/ \E x \in Enders : AnswerPending(x)
  BY <1>7, OthersKeep
<1>8. QED
  BY <1>1, <1>2, <1>3, <1>4, <1>5, <1>6, <1>7 DEF SessionNext

LEMMA SessionMeans ==
    SessionInv => SessionTypeOK /\ OneAtATime /\ TabsCloseIdle /\ ToldIsClosed
BY SessionTyped DEF SessionInv, TabsCloseIdle, Settling, NoMoreLeases

-----------------------------------------------------------------------------
(* The live share of a session. *)

Heads == {"queued", "waiting", "sending"}
ShareType ==
    [live : BOOLEAN, expired : BOOLEAN, published : BOOLEAN,
     owner : Viewers \cup {"none"}, wanted : BOOLEAN, driving : BOOLEAN, active : 0..1,
     tail : Seq(Items), head : Heads,
     page : Tabs \cup {"none"}, cdp : Tabs \cup {"none"}, opens : Tabs \cup {"none"}]
AgentType ==
    [does : {"none", "act", "drive", "share"}, turn : 0..MaxShares,
     at : {"idle", "waits", "acting", "yielded", "unwinding", "settling", "starting"}]
Unmade == [live |-> FALSE, expired |-> FALSE, published |-> FALSE,
           owner |-> "none", wanted |-> FALSE, driving |-> FALSE, active |-> 0,
           tail |-> <<>>, head |-> "queued", page |-> "none", cdp |-> "none", opens |-> "none"]

LiveTypes ==
    /\ share \in [Shares -> ShareType]
    /\ current \in 0..MaxShares
    /\ seat \in [Viewers -> -1..MaxShares]
    /\ tunnel \in BOOLEAN /\ shut \in BOOLEAN
    /\ agent \in AgentType
    /\ finish \in {"idle", "draining", "preparing", "done"}
    /\ page \in Tabs /\ dialog \in {"none", "open", "answering"}
    /\ reply \in [Viewers -> {"none", "waiting", "control", "answering"}]
    /\ inputs \in 0..MaxInputs /\ commands \in 0..MaxCommands /\ moves \in 0..MaxMoves

(* What a share says of itself. *)
Sound(sh) ==
    /\ ~sh.live => sh = Unmade
    /\ sh.head # "queued" => sh.tail # <<>> /\ sh.tail[1].does = "input"
    /\ sh.head = "sending" => sh.wanted
    /\ sh.cdp \in {"none", sh.page}
    /\ sh.wanted <=> sh.owner # "none"
    /\ ~sh.published => sh.tail = <<>> /\ sh.owner = "none"

(* Who has control is there, or the departure is on its way. *)
Leaving(q, v) == \E i \in 1..Len(q) : q[i] = [by |-> v, does |-> "release"]
Present(sh, s, sits) == sh.wanted => sits[sh.owner] = s \/ Leaving(sh.tail, sh.owner)

(* A viewer sits at a share that serves. *)
Serves(sh) == sh.live /\ sh.published /\ ~sh.expired
Seated == \A v \in Viewers : seat[v] > 0 => Serves(share[seat[v]])

(* The shares are made one after the other, each when the one before it has  *)
(* expired and, unless the session closes, has handled all it was sent.      *)
Numbered == \E n \in 0..MaxShares : \A s \in Shares : share[s].live <=> s <= n
Alone ==
    /\ (current # 0 => share[current].live) /\ (shut => current = 0)
    /\ \A s \in Shares : share[s].live => share[s].expired \/ s = current
    /\ ~shut => \A s \in Shares : s # current => share[s].tail = <<>>

(* The agent's turn is taken on the share it read. *)
Acts(s) == s = agent.turn /\ agent.at \in {"acting", "unwinding"}
Turned ==
    /\ \A s \in Shares : (share[s].active = 1 <=> Acts(s))
    /\ agent.at # "idle" /\ ~shut => current = agent.turn
    /\ agent.at \in {"waits", "yielded", "starting"} => agent.turn # 0
    /\ agent.turn # 0 => share[agent.turn].live
    /\ agent.at = "settling" /\ agent.turn # 0 => share[agent.turn].expired
    /\ agent.at = "starting" => ~share[agent.turn].published
    /\ finish # "idle" <=> shut

(* One input is on its way, and the agent does not act. *)
Apart ==
    \A s \in Shares : share[s].head = "sending" =>
        agent.at # "acting" /\ \A r \in Shares : share[r].head = "sending" => r = s

LiveInv ==
    /\ LiveTypes
    /\ \A s \in Shares : Sound(share[s]) /\ Present(share[s], s, seat)
    /\ Seated /\ Numbered /\ Alone /\ Turned /\ Apart
(* The action property, of a step. *)
Shown == \A s \in Shares : share'[s].head = "sending" /\ share[s].head # "sending" => share'[s].cdp = page

(* ----- the chain of a share ----- *)
LEMMA ChainHead ==
    ASSUME NEW q \in Seq(Items), q # <<>>
    PROVE  /\ q[1] \in Items /\ q[1].by \in Viewers /\ Len(q) \in Nat /\ Len(q) >= 1
           /\ Tail(q) \in Seq(Items) /\ Len(Tail(q)) = Len(q) - 1
           /\ \A i \in 1..Len(Tail(q)) : Tail(q)[i] = q[i + 1]
<1>1. Len(q) \in Nat /\ Len(q) >= 1 /\ q[1] \in Items
  OBVIOUS
<1>2. Tail(q) \in Seq(Items) /\ Len(Tail(q)) = Len(q) - 1
  BY <1>1, HeadTailProperties
<1>3. \A i \in 1..Len(Tail(q)) : Tail(q)[i] = q[i + 1]
  BY <1>1, <1>2, HeadTailProperties
<1>4. q[1].by \in Viewers
  BY <1>1 DEF Items
<1>5. QED
  BY <1>1, <1>2, <1>3, <1>4

LEMMA ChainTail ==
    ASSUME NEW q \in Seq(Items), q # <<>>, NEW v, Leaving(q, v), q[1] # [by |-> v, does |-> "release"]
    PROVE  Leaving(Tail(q), v)
<1>1. PICK i \in 1..Len(q) : q[i] = [by |-> v, does |-> "release"]
  BY DEF Leaving
<1>2. i # 1 /\ i - 1 \in 1..Len(Tail(q)) /\ Tail(q)[i - 1] = q[i]
  BY <1>1, ChainHead
<1>3. QED
  BY <1>1, <1>2 DEF Leaving

LEMMA ChainAppend ==
    ASSUME NEW q \in Seq(Items), NEW x \in Items
    PROVE  /\ Append(q, x) \in Seq(Items) /\ Append(q, x) # <<>>
           /\ q # <<>> => Append(q, x)[1] = q[1]
           /\ \A v : Leaving(q, v) => Leaving(Append(q, x), v)
           /\ \A v : x = [by |-> v, does |-> "release"] => Leaving(Append(q, x), v)
<1>1. /\ Append(q, x) \in Seq(Items) /\ Append(q, x) # <<>> /\ Len(Append(q, x)) = Len(q) + 1
      /\ \A i \in 1..Len(q) : Append(q, x)[i] = q[i]
      /\ Append(q, x)[Len(q) + 1] = x /\ Len(q) \in Nat
  BY AppendProperties
<1>2. q # <<>> => Len(q) >= 1
  OBVIOUS
<1>3. ASSUME NEW v, Leaving(q, v) PROVE Leaving(Append(q, x), v)
  BY <1>1, <1>3 DEF Leaving
<1>4. ASSUME NEW v, x = [by |-> v, does |-> "release"] PROVE Leaving(Append(q, x), v)
  BY <1>1, <1>4 DEF Leaving
<1>5. QED
  BY <1>1, <1>2, <1>3, <1>4

LEMMA ChainConcat ==
    ASSUME NEW q \in Seq(Items), NEW z \in Seq(Items)
    PROVE  /\ q \o z \in Seq(Items)
           /\ q # <<>> => q \o z # <<>> /\ (q \o z)[1] = q[1]
           /\ z = <<>> => q \o z = q
           /\ \A v : Leaving(q, v) \/ Leaving(z, v) => Leaving(q \o z, v)
<1>1. /\ q \o z \in Seq(Items) /\ Len(q \o z) = Len(q) + Len(z)
      /\ \A i \in 1..(Len(q) + Len(z)) : (q \o z)[i] = IF i <= Len(q) THEN q[i] ELSE z[i - Len(q)]
      /\ Len(q) \in Nat /\ Len(z) \in Nat
  BY ConcatProperties
<1>2. q # <<>> => Len(q) >= 1
  OBVIOUS
<1>3. q # <<>> => q \o z # <<>> /\ (q \o z)[1] = q[1]
  BY <1>1, <1>2
<1>4. z = <<>> => q \o z = q
  BY ConcatEmptySeq
<1>5. ASSUME NEW v, Leaving(q, v) PROVE Leaving(q \o z, v)
 <2>1. PICK i \in 1..Len(q) : q[i] = [by |-> v, does |-> "release"]
   BY <1>5 DEF Leaving
 <2>2. i \in 1..Len(q \o z) /\ (q \o z)[i] = q[i]
   BY <1>1, <2>1
 <2>3. QED
   BY <2>1, <2>2 DEF Leaving
<1>6. ASSUME NEW v, Leaving(z, v) PROVE Leaving(q \o z, v)
 <2>1. PICK i \in 1..Len(z) : z[i] = [by |-> v, does |-> "release"]
   BY <1>6 DEF Leaving
 <2>2. Len(q) + i \in 1..Len(q \o z) /\ (q \o z)[Len(q) + i] = z[i]
   BY <1>1, <2>1
 <2>3. QED
   BY <2>1, <2>2 DEF Leaving
<1>7. QED
  BY <1>1, <1>3, <1>4, <1>5, <1>6

(* The departures of a set of viewers, one after the other. *)
LEMMA Departures ==
    ASSUME ShareAssumption, NEW W \in SUBSET Viewers,
           NEW q, q = SetToSeq({[by |-> v, does |-> "release"] : v \in W})
    PROVE  q \in Seq(Items) /\ (W = {} => q = <<>>) /\ (\A v \in W : Leaving(q, v))
<1> DEFINE D == {[by |-> v, does |-> "release"] : v \in W}
           c == Cardinality(D)
<1>1. IsFiniteSet(W)
  BY FS_Subset DEF ShareAssumption
<1>2. IsFiniteSet(D) /\ D \subseteq Items
 <2>1. [v \in W |-> [by |-> v, does |-> "release"]] \in Surjection(W, D)
   BY DEF Surjection
 <2>2. IsFiniteSet(D)
   BY <1>1, <2>1, FS_Surjection
 <2>3. QED
   BY <2>2 DEF Items
<1>3. c \in Nat /\ ExistsBijection(1..c, D)
  BY <1>2, FS_CardinalityType
<1>4. \E f \in [1..c -> D] : IsInjective(f)
  BY <1>3 DEF ExistsBijection, Bijection, Injection, IsInjective
<1>5. q \in [1..c -> D] /\ IsInjective(q)
 <2>1. q = CHOOSE f \in [1..c -> D] : IsInjective(f)
   BY DEF SetToSeq
 <2>2. QED
   BY <1>4, <2>1
<1>6. IsFiniteSet(1..c) /\ Cardinality(1..c) = c
 <2>1. IsFiniteSet(1..c) /\ Cardinality(1..c) = IF 1 > c THEN 0 ELSE c - 1 + 1
   BY <1>3, FS_Interval
 <2>2. QED
   BY <1>3, <2>1
<1>7. q \in Surjection(1..c, D)
 <2>1. q \in Injection(1..c, D)
   BY <1>5 DEF Injection, IsInjective
 <2>2. Cardinality(1..c) = Cardinality(D)
   BY <1>6
 <2>3. Cardinality(1..c) = Cardinality(D) <=> q \in Surjection(1..c, D)
  <3> HIDE DEF c, D
  <3>1. QED
    BY <1>2, <1>6, <2>1, FS_Injection
 <2>4. QED
   BY <2>2, <2>3
<1>8. q \in Seq(Items) /\ Len(q) = c
 <2>1. q \in [1..c -> Items]
   BY <1>2, <1>5
 <2>2. QED
   BY <1>3, <2>1, SeqDef, LenProperties
<1>9. ASSUME W = {} PROVE q = <<>>
 <2>1. D = {}
   BY <1>9
 <2>2. c = 0
   BY <2>1, FS_EmptySet
 <2>3. QED
   BY <1>8, <2>2, EmptySeq
<1>10. ASSUME NEW v \in W PROVE Leaving(q, v)
 <2>1. [by |-> v, does |-> "release"] \in D
   OBVIOUS
 <2>2. \E i \in 1..c : q[i] = [by |-> v, does |-> "release"]
   BY <1>7, <2>1 DEF Surjection
 <2>3. QED
   BY <1>8, <2>2 DEF Leaving
<1>11. QED
  BY <1>8, <1>9, <1>10

(* ----- what a step makes of a share ----- *)
LEMMA FieldsOfShare ==
    ASSUME NEW r \in ShareType
    PROVE  /\ r.live \in BOOLEAN /\ r.expired \in BOOLEAN /\ r.published \in BOOLEAN
           /\ r.owner \in Viewers \cup {"none"} /\ r.wanted \in BOOLEAN /\ r.driving \in BOOLEAN
           /\ r.active \in 0..1 /\ r.tail \in Seq(Items) /\ r.head \in Heads
           /\ r.page \in Tabs \cup {"none"} /\ r.cdp \in Tabs \cup {"none"}
           /\ r.opens \in Tabs \cup {"none"}
BY DEF ShareType

(* What most steps leave alone: of the life of a share, of who has control   *)
(* of it and of its chain.                                                   *)
SameLife(x, r) == x.live = r.live /\ x.expired = r.expired /\ x.published = r.published /\ x.active = r.active
SameHands(x, r) == x.owner = r.owner /\ x.wanted = r.wanted
SameChain(x, r) == x.tail = r.tail /\ x.head = r.head
SameView(x, r) == x.page = r.page /\ x.cdp = r.cdp

LEMMA PopsIs ==
    ASSUME NEW r \in ShareType, r.tail # <<>>
    PROVE  /\ Pops(r) \in ShareType /\ SameLife(Pops(r), r) /\ SameHands(Pops(r), r) /\ SameView(Pops(r), r)
           /\ Pops(r).tail = Tail(r.tail) /\ Pops(r).head = "queued" /\ Pops(r).opens = r.opens
<1>1. Tail(r.tail) \in Seq(Items) /\ "queued" \in Heads
  BY FieldsOfShare, ChainHead DEF Heads
<1>2. QED
  BY <1>1 DEF Pops, ShareType, SameLife, SameHands, SameView

LEMMA TakenIs ==
    ASSUME NEW r \in ShareType, NEW v \in Viewers
    PROVE  /\ Taken(r, v) \in ShareType /\ SameLife(Taken(r, v), r) /\ SameView(Taken(r, v), r)
           /\ SameChain(Taken(r, v), r) /\ Taken(r, v).owner = v /\ Taken(r, v).wanted
BY DEF Taken, ShareType, SameLife, SameView, SameChain

LEMMA DrivenIs ==
    ASSUME NEW r \in ShareType
    PROVE  /\ Driven(r) \in ShareType /\ SameLife(Driven(r), r) /\ SameView(Driven(r), r)
           /\ SameChain(Driven(r), r) /\ SameHands(Driven(r), r)
BY DEF Driven, ShareType, SameLife, SameView, SameChain, SameHands

LEMMA StreamsIs ==
    ASSUME NEW r \in ShareType, page \in Tabs
    PROVE  /\ Streams(r) \in ShareType /\ SameLife(Streams(r), r) /\ SameView(Streams(r), r)
           /\ SameChain(Streams(r), r) /\ SameHands(Streams(r), r)
BY DEF Streams, ShareType, SameLife, SameView, SameChain, SameHands

LEMMA RefreshIs ==
    ASSUME NEW r \in ShareType, page \in Tabs, NEW viewed \in BOOLEAN, r.cdp \in {"none", r.page}
    PROVE  LET x == Refresh(r, viewed)
           IN /\ x \in ShareType /\ SameLife(x, r) /\ SameChain(x, r) /\ SameHands(x, r)
              /\ x.cdp \in {"none", x.page}
<1> DEFINE moved == [r EXCEPT !.page = page, !.cdp = "none"]
<1>1. /\ moved \in ShareType /\ SameLife(moved, r) /\ SameChain(moved, r) /\ SameHands(moved, r)
      /\ moved.cdp = "none"
  BY DEF ShareType, SameLife, SameChain, SameHands
<1>2. /\ Streams(moved) \in ShareType /\ SameLife(Streams(moved), moved) /\ SameView(Streams(moved), moved)
      /\ SameChain(Streams(moved), moved) /\ SameHands(Streams(moved), moved)
 <2> HIDE DEF moved
 <2>1. QED
   BY <1>1, StreamsIs
<1>3. /\ Streams(r) \in ShareType /\ SameLife(Streams(r), r) /\ SameView(Streams(r), r)
      /\ SameChain(Streams(r), r) /\ SameHands(Streams(r), r)
  BY StreamsIs
<1>4. Refresh(r, viewed) \in {r, moved, Streams(moved), Streams(r)}
  BY DEF Refresh
<1> HIDE DEF moved
<1>5. QED
  BY <1>1, <1>2, <1>3, <1>4 DEF SameLife, SameChain, SameHands, SameView

LEMMA PressedIs ==
    ASSUME NEW r \in ShareType, page \in Tabs, NEW s, r.tail # <<>>, r.cdp \in {"none", r.page}
    PROVE  LET x == Pressed(s, r)
           IN /\ x \in ShareType /\ SameLife(x, r) /\ SameHands(x, r) /\ x.cdp \in {"none", x.page}
              /\ \/ x.tail = Tail(r.tail) /\ x.head = "queued"
                 \/ x.tail = r.tail /\ x.head = "sending" /\ x.cdp = page
<1> DEFINE sent == [r EXCEPT !.head = "sending"]
           gone == Refresh(Pops(r), ViewersOf(s, seat) # {})
<1>1. Pops(r) \in ShareType /\ SameLife(Pops(r), r) /\ SameHands(Pops(r), r) /\ SameView(Pops(r), r)
      /\ Pops(r).tail = Tail(r.tail) /\ Pops(r).head = "queued"
  BY PopsIs
<1>2. /\ gone \in ShareType /\ SameLife(gone, Pops(r)) /\ SameChain(gone, Pops(r))
      /\ SameHands(gone, Pops(r)) /\ gone.cdp \in {"none", gone.page}
  BY <1>1, RefreshIs DEF SameView
<1>3. /\ sent \in ShareType /\ SameLife(sent, r) /\ SameHands(sent, r) /\ SameView(sent, r)
      /\ sent.tail = r.tail /\ sent.head = "sending"
  BY DEF ShareType, Heads, SameLife, SameHands, SameView
<1>4. \/ page # r.page /\ Pressed(s, r) = gone
      \/ page = r.page /\ r.cdp = "none" /\ Pressed(s, r) = Pops(r)
      \/ page = r.page /\ r.cdp # "none" /\ Pressed(s, r) = sent
  BY DEF Pressed
<1> HIDE DEF sent, gone
<1>5. QED
  BY <1>1, <1>2, <1>3, <1>4 DEF SameLife, SameChain, SameHands, SameView

LEMMA StoppedIs ==
    ASSUME ShareAssumption, LiveInv, NEW s \in Shares
    PROVE  LET x == Stopped(s) r == share[s]
           IN /\ x \in ShareType /\ x.live = r.live /\ x.published = r.published /\ x.active = r.active
              /\ (r.live => x.expired) /\ SameHands(x, r) /\ x.head = r.head
              /\ x.page = r.page /\ x.cdp \in {"none", r.cdp}
              /\ (r.tail # <<>> => x.tail # <<>> /\ x.tail[1] = r.tail[1])
              /\ ((\A v \in Viewers : seat[v] # s) => x.tail = r.tail)
              /\ \A v \in Viewers : Leaving(r.tail, v) => Leaving(x.tail, v)
              /\ \A v \in Viewers : seat[v] = s /\ Unseated(s)[v] # s => Leaving(x.tail, v)
<1> DEFINE r == share[s]
           q == SetToSeq({[by |-> v, does |-> "release"] : v \in ViewersOf(s, seat)})
           c == IF ViewersOf(s, seat) = {} THEN "none" ELSE r.cdp
           x == [r EXCEPT !.expired = TRUE, !.cdp = c, !.tail = r.tail \o q]
<1>1. r \in ShareType /\ r.tail \in Seq(Items) /\ r.cdp \in Tabs \cup {"none"}
  BY FieldsOfShare DEF LiveInv, LiveTypes
<1>2. q \in Seq(Items) /\ (ViewersOf(s, seat) = {} => q = <<>>) /\ (\A v \in ViewersOf(s, seat) : Leaving(q, v))
  BY Departures DEF ViewersOf
<1>3. /\ r.tail \o q \in Seq(Items)
      /\ r.tail # <<>> => r.tail \o q # <<>> /\ (r.tail \o q)[1] = r.tail[1]
      /\ q = <<>> => r.tail \o q = r.tail
      /\ \A v : Leaving(r.tail, v) \/ Leaving(q, v) => Leaving(r.tail \o q, v)
  BY <1>1, <1>2, ChainConcat
<1>4. c \in Tabs \cup {"none"} /\ c \in {"none", r.cdp}
  BY <1>1
<1>5. CASE r.expired
 <2>1. Stopped(s) = r
   BY <1>5 DEF Stopped
 <2>2. \A v \in Viewers : Unseated(s)[v] = seat[v]
   BY <1>5 DEF Unseated
 <2>3. QED
   BY <1>1, <1>5, <2>1, <2>2 DEF SameHands
<1>6. CASE ~r.expired
 <2>1. Stopped(s) = x
   BY <1>6 DEF Stopped
 <2> HIDE DEF c, q
 <2>2. /\ x \in ShareType /\ x.live = r.live /\ x.published = r.published /\ x.active = r.active
       /\ x.expired = TRUE /\ SameHands(x, r) /\ x.head = r.head /\ x.page = r.page /\ x.cdp = c
       /\ x.tail = r.tail \o q
  <3>1. r \in ShareType /\ r.tail \o q \in Seq(Items) /\ c \in Tabs \cup {"none"}
    BY <1>1, <1>3, <1>4
  <3> HIDE DEF r
  <3>2. QED
    BY <3>1 DEF ShareType, SameHands
 <2> HIDE DEF x, r
 <2>3. \A v \in Viewers : v \in ViewersOf(s, seat) <=> seat[v] = s
   BY DEF ViewersOf
 <2>4. (\A v \in Viewers : seat[v] # s) => q = <<>>
   BY <1>2, <2>3 DEF ViewersOf
 <2>5. QED
   BY <1>2, <1>3, <1>4, <2>1, <2>2, <2>3, <2>4 DEF r
<1>7. QED
  BY <1>1, <1>5, <1>6

(* ----- what the invariant says ----- *)
LEMMA LiveFacts ==
    ASSUME LiveInv, NEW s \in Shares
    PROVE  /\ share[s] \in ShareType /\ Sound(share[s]) /\ Present(share[s], s, seat)
           /\ share[s].tail \in Seq(Items) /\ page \in Tabs
           /\ (share[s].tail # <<>> => share[s].live /\ share[s].published)
           /\ (share[s].head # "queued" => share[s].live) /\ (share[s].owner # "none" => share[s].live)
           /\ share[s].cdp \in {"none", share[s].page}
<1>1. share[s] \in ShareType /\ Sound(share[s]) /\ Present(share[s], s, seat) /\ page \in Tabs
  BY DEF LiveInv, LiveTypes
<1>2. share[s].tail \in Seq(Items) /\ share[s].live \in BOOLEAN /\ share[s].published \in BOOLEAN
  BY <1>1, FieldsOfShare
<1>3. ASSUME ~share[s].live PROVE share[s].tail = <<>> /\ share[s].head = "queued" /\ share[s].owner = "none"
  BY <1>1, <1>3 DEF Sound, Unmade
<1>4. QED
  BY <1>1, <1>2, <1>3 DEF Sound

(* Of two shares only the one current is served, and only it has a chain,    *)
(* as long as the session is not closing.                                    *)
LEMMA CurrentIs ==
    ASSUME LiveInv, NEW s \in Shares, ~shut \/ ~share[s].expired,
           share[s].tail # <<>> \/ (share[s].live /\ ~share[s].expired)
    PROVE  current = s
<1>1. share[s].live /\ (share[s].expired \/ current = s)
  BY LiveFacts DEF LiveInv, Alone
<1>2. share[s].tail # <<>> /\ ~shut => current = s
  BY DEF LiveInv, Alone
<1>3. QED
  BY <1>1, <1>2

LEMMA SeatIs ==
    ASSUME LiveInv, ShareAssumption, NEW v \in Viewers, seat[v] > 0
    PROVE  /\ seat[v] \in Shares /\ seat[v] = current /\ Serves(share[seat[v]])
<1>1. seat[v] \in Shares
  BY DEF LiveInv, LiveTypes, Shares, ShareAssumption
<1>2. Serves(share[seat[v]])
  BY DEF LiveInv, Seated
<1>3. QED
  BY <1>1, <1>2, CurrentIs DEF Serves

(* Whoever may take control of a share the agent has no turn on takes it     *)
(* from nobody: no other input is on its way and the agent does not act.     *)
LEMMA HandsFree ==
    ASSUME LiveInv, NEW s \in Shares, share[s].live, ~share[s].expired, ~shut, share[s].active = 0
    PROVE  agent.at # "acting" /\ \A r \in Shares : share[r].head = "sending" => r = s
<1>1. current = s
  BY CurrentIs
<1>2. agent.at # "acting"
  BY <1>1 DEF LiveInv, Turned, Acts
<1>3. ASSUME NEW r \in Shares, share[r].head = "sending" PROVE r = s
  BY <1>1, <1>3, CurrentIs, LiveFacts DEF Sound
<1>4. QED
  BY <1>2, <1>3

(* ----- a step of one share ----- *)
LEMMA OneSet ==
    ASSUME LiveTypes, NEW s \in Shares, NEW sh \in ShareType, Sets(s, sh)
    PROVE  /\ share' \in [Shares -> ShareType] /\ share'[s] = sh
           /\ \A r \in Shares : r # s => share'[r] = share[r]
BY DEF LiveTypes, Sets

(* The value of a step that keeps the life of its share. *)
LEMMA SoundStays ==
    ASSUME NEW r \in ShareType, NEW x \in ShareType, Sound(r), r.live, SameLife(x, r),
           x.cdp \in {"none", x.page}, x.wanted <=> x.owner # "none",
           x.head # "queued" => x.tail # <<>> /\ x.tail[1].does = "input",
           x.head = "sending" => x.wanted,
           ~r.published => x.tail = <<>> /\ x.owner = "none"
    PROVE  Sound(x)
BY DEF Sound, SameLife

LEMMA SeatStep ==
    ASSUME LiveInv, NEW s \in Shares, NEW sh \in ShareType, Sets(s, sh), share[s].live,
           SameLife(sh, share[s]), Sound(sh), Present(sh, s, seat'),
           UNCHANGED <<current, tunnel, agent, finish, shut>>,
           seat' \in [Viewers -> -1..MaxShares],
           \A v \in Viewers : seat'[v] > 0 => seat'[v] = seat[v] \/ (seat'[v] = s /\ Serves(sh)),
           \A v \in Viewers : seat[v] \in Shares /\ seat[v] # s => seat'[v] = seat[v],
           page' \in Tabs, dialog' \in {"none", "open", "answering"},
           reply' \in [Viewers -> {"none", "waiting", "control", "answering"}],
           inputs' \in 0..MaxInputs, commands' \in 0..MaxCommands, moves' \in 0..MaxMoves,
           sh.tail # <<>> => share[s].tail # <<>> \/ s = current,
           sh.head = "sending" =>
               \/ share[s].head = "sending"
               \/ /\ sh.cdp = page /\ agent.at # "acting"
                  /\ \A r \in Shares : share[r].head = "sending" => r = s
    PROVE  LiveInv' /\ Shown
<1>1. /\ share' \in [Shares -> ShareType] /\ share'[s] = sh
      /\ \A r \in Shares : r # s => share'[r] = share[r]
  BY OneSet DEF LiveInv
<1>2. LiveTypes'
  BY <1>1 DEF LiveInv, LiveTypes
<1>3. \A r \in Shares : SameLife(share'[r], share[r])
  BY <1>1 DEF SameLife
<1>4. (\A r \in Shares : Sound(share[r]) /\ Present(share[r], r, seat))'
 <2> SUFFICES ASSUME NEW r \in Shares PROVE Sound(share'[r]) /\ Present(share'[r], r, seat')
   BY DEF Present
 <2>1. CASE r = s
   BY <1>1, <2>1
 <2>2. CASE r # s
  <3>1. /\ Sound(share[r]) /\ Present(share[r], r, seat) /\ (share[r].wanted <=> share[r].owner # "none")
        /\ share[r].owner \in Viewers \cup {"none"} /\ share'[r] = share[r]
    BY <1>1, <2>2, LiveFacts, FieldsOfShare DEF Sound
  <3>2. share[r].wanted /\ seat[share[r].owner] = r => seat'[share[r].owner] = r
    BY <2>2, <3>1
  <3>3. QED
    BY <3>1, <3>2 DEF Present
 <2>3. QED
   BY <2>1, <2>2
<1>5. Seated' /\ Numbered'
 <2>1. \A v \in Viewers : seat[v] > 0 => seat[v] \in Shares
   BY DEF LiveInv, LiveTypes, Shares
 <2>2. \A v \in Viewers : seat'[v] > 0 => Serves(share'[seat'[v]])
   BY <1>1, <1>3, <2>1 DEF LiveInv, Seated, Serves, SameLife
 <2>3. Numbered'
   BY <1>3 DEF LiveInv, Numbered, SameLife
 <2>4. QED
   BY <2>2, <2>3 DEF Seated, Serves
<1>6. Alone'
 <2>1. current # 0 => current \in Shares
   BY DEF LiveInv, LiveTypes, Shares
 <2>2. ASSUME ~shut, NEW r \in Shares, r # current PROVE share'[r].tail = <<>>
   BY <1>1, <2>2 DEF LiveInv, Alone
 <2>3. QED
   BY <1>3, <2>1, <2>2 DEF LiveInv, Alone, SameLife
<1>7. Turned'
 <2>1. agent.turn # 0 => agent.turn \in Shares
   BY DEF LiveInv, LiveTypes, Shares, AgentType
 <2>2. QED
   BY <1>3, <2>1 DEF LiveInv, Turned, Acts, SameLife
<1>8. Apart'
  BY <1>1 DEF LiveInv, Apart
<1>9. Shown
  BY <1>1 DEF Shown
<1>10. QED
  BY <1>2, <1>4, <1>5, <1>6, <1>7, <1>8, <1>9 DEF LiveInv

LEMMA LocalStep ==
    ASSUME LiveInv, NEW s \in Shares, NEW sh \in ShareType, Sets(s, sh), share[s].live,
           SameLife(sh, share[s]), Sound(sh), Present(sh, s, seat),
           UNCHANGED <<current, seat, tunnel, agent, finish, shut>>,
           page' \in Tabs, dialog' \in {"none", "open", "answering"},
           reply' \in [Viewers -> {"none", "waiting", "control", "answering"}],
           inputs' \in 0..MaxInputs, commands' \in 0..MaxCommands, moves' \in 0..MaxMoves,
           sh.tail # <<>> => share[s].tail # <<>> \/ s = current,
           sh.head = "sending" =>
               \/ share[s].head = "sending"
               \/ /\ sh.cdp = page /\ agent.at # "acting"
                  /\ \A r \in Shares : share[r].head = "sending" => r = s
    PROVE  LiveInv' /\ Shown
<1>1. /\ seat' = seat /\ seat \in [Viewers -> -1..MaxShares]
      /\ UNCHANGED <<current, tunnel, agent, finish, shut>>
  BY DEF LiveInv, LiveTypes
<1>2. QED
  BY <1>1, SeatStep

(* ----- the chain is worked off ----- *)
Rest == <<current, seat, tunnel, agent, endVars, browserVars, reply, counters>>

LEMMA RestIs ==
    ASSUME LiveInv, UNCHANGED Rest
    PROVE  /\ UNCHANGED <<current, seat, tunnel, agent, finish, shut>>
           /\ page' \in Tabs /\ dialog' \in {"none", "open", "answering"}
           /\ reply' \in [Viewers -> {"none", "waiting", "control", "answering"}]
           /\ inputs' \in 0..MaxInputs /\ commands' \in 0..MaxCommands /\ moves' \in 0..MaxMoves
BY DEF Rest, endVars, browserVars, counters, LiveInv, LiveTypes

(* The item at the head is dropped. *)
LEMMA PopSafe ==
    ASSUME LiveInv, NEW s \in Shares, share[s].tail # <<>>, share[s].tail[1].does # "release",
           Sets(s, Pops(share[s])), UNCHANGED Rest
    PROVE  LiveInv' /\ Shown
<1> DEFINE r == share[s]
           x == Pops(r)
<1>1. /\ r \in ShareType /\ Sound(r) /\ Present(r, s, seat) /\ r.live /\ r.published /\ r.tail \in Seq(Items)
      /\ r.cdp \in {"none", r.page}
  BY LiveFacts
<1>2. /\ x \in ShareType /\ SameLife(x, r) /\ SameHands(x, r) /\ SameView(x, r)
      /\ x.tail = Tail(r.tail) /\ x.head = "queued"
  BY <1>1, PopsIs
<1> HIDE DEF x
<1>3. Sound(x)
  BY <1>1, <1>2, SoundStays DEF SameLife, SameHands, SameView, Sound
<1>4. Present(x, s, seat)
 <2>1. \A v : r.tail[1] # [by |-> v, does |-> "release"]
   OBVIOUS
 <2>2. \A v : Leaving(r.tail, v) => Leaving(Tail(r.tail), v)
   BY <1>1, <2>1, ChainTail
 <2>3. QED
   BY <1>1, <1>2, <2>2 DEF Present, SameHands
<1>5. Sets(s, x)
  BY DEF x
<1>6. QED
  BY <1>1, <1>2, <1>3, <1>4, <1>5, RestIs, LocalStep

(* A viewer who is there takes control, and its input goes on or waits. *)
LEMMA TakeSafe ==
    ASSUME LiveInv, ShareAssumption, NEW s \in Shares, NEW v \in Viewers, seat[v] = s, share[s].tail # <<>>,
           share[s].tail[1].does = "input",
           NEW y \in ShareType, SameLife(y, share[s]), SameView(y, share[s]), y.tail = share[s].tail,
           y.owner = v, y.wanted, UNCHANGED Rest,
           \/ Sets(s, [y EXCEPT !.head = "waiting"])
           \/ share[s].active = 0 /\ ~shut /\ ~share[s].expired /\ Sets(s, Pressed(s, y))
    PROVE  LiveInv' /\ Shown
<1> DEFINE r == share[s]
<1>1. /\ r \in ShareType /\ Sound(r) /\ r.live /\ r.published /\ r.tail \in Seq(Items) /\ page \in Tabs
      /\ r.cdp \in {"none", r.page}
  BY LiveFacts
<1>2. v # "none" /\ y.cdp \in {"none", y.page} /\ r.tail[1] \in Items
  BY <1>1, ChainHead DEF ShareAssumption, SameView
<1>3. CASE Sets(s, [y EXCEPT !.head = "waiting"])
 <2> DEFINE x == [y EXCEPT !.head = "waiting"]
 <2>1. /\ x \in ShareType /\ SameLife(x, r) /\ x.owner = v /\ x.wanted /\ x.cdp \in {"none", x.page}
       /\ x.tail = r.tail /\ x.head = "waiting"
   BY <1>2 DEF ShareType, Heads, SameLife
 <2> HIDE DEF x
 <2>2. Sound(x)
   BY <1>1, <1>2, <2>1, SoundStays
 <2>3. Present(x, s, seat)
   BY <2>1 DEF Present
 <2>4. Sets(s, x)
   BY <1>3 DEF x
 <2>5. QED
   BY <1>1, <2>1, <2>2, <2>3, <2>4, RestIs, LocalStep
<1>4. CASE share[s].active = 0 /\ ~shut /\ ~share[s].expired /\ Sets(s, Pressed(s, y))
 <2> DEFINE x == Pressed(s, y)
 <2>1. /\ x \in ShareType /\ SameLife(x, y) /\ SameHands(x, y) /\ x.cdp \in {"none", x.page}
       /\ \/ x.tail = Tail(r.tail) /\ x.head = "queued"
          \/ x.tail = r.tail /\ x.head = "sending" /\ x.cdp = page
   BY <1>1, <1>2, PressedIs
 <2> HIDE DEF x
 <2>2. SameLife(x, r) /\ x.owner = v /\ x.wanted
   BY <2>1 DEF SameLife, SameHands
 <2>3. Sound(x)
   BY <1>1, <1>2, <2>1, <2>2, SoundStays
 <2>4. Present(x, s, seat)
   BY <2>2 DEF Present
 <2>5. Sets(s, x)
   BY <1>4 DEF x
 <2>6. agent.at # "acting" /\ \A q \in Shares : share[q].head = "sending" => q = s
   BY <1>1, <1>4, HandsFree
 <2>7. QED
   BY <1>1, <2>1, <2>2, <2>3, <2>4, <2>5, <2>6, RestIs, LocalStep
<1>5. QED
  BY <1>3, <1>4

LEMMA HandleSafe ==
    ASSUME LiveInv, ShareAssumption, NEW s \in Shares, Handle(s)
    PROVE  LiveInv' /\ Shown
<1> DEFINE r == share[s]
           v == Head1(s).by
           y == Taken(r, v)
           z == Driven(y)
<1>1. /\ r \in ShareType /\ r.tail \in Seq(Items) /\ r.tail # <<>> /\ r.tail[1].does = "input"
      /\ UNCHANGED Rest /\ v \in Viewers
 <2>1. r \in ShareType /\ r.tail \in Seq(Items)
   BY LiveFacts
 <2>2. r.tail # <<>> /\ r.tail[1].does = "input" /\ UNCHANGED Rest
   BY DEF Handle, Head1, Rest
 <2>3. QED
   BY <2>1, <2>2, ChainHead DEF Head1
<1>2. y \in ShareType /\ SameLife(y, r) /\ SameView(y, r) /\ SameChain(y, r) /\ y.owner = v /\ y.wanted
  BY <1>1, TakenIs
<1>3. z \in ShareType /\ SameLife(z, r) /\ SameView(z, r) /\ SameChain(z, r) /\ z.owner = v /\ z.wanted
 <2> HIDE DEF y
 <2>1. z \in ShareType /\ SameLife(z, y) /\ SameView(z, y) /\ SameChain(z, y) /\ SameHands(z, y)
   BY <1>2, DrivenIs
 <2> HIDE DEF z
 <2>2. QED
   BY <1>2, <2>1 DEF SameLife, SameView, SameChain, SameHands
<1>4. \/ Sets(s, Pops(r))
      \/ seat[v] = s /\ Sets(s, [y EXCEPT !.head = "waiting"])
      \/ seat[v] = s /\ ~(r.active > 0) /\ ~r.expired /\ ~shut /\ Sets(s, Pressed(s, z))
  BY DEF Handle, MayTake
<1>5. r.active \in 0..1
  BY <1>1, FieldsOfShare
<1>6. CASE Sets(s, Pops(r))
  BY <1>1, <1>6, PopSafe
<1> HIDE DEF y, z, v
<1>7. CASE seat[v] = s /\ Sets(s, [y EXCEPT !.head = "waiting"])
  BY <1>1, <1>2, <1>7, TakeSafe DEF SameChain
<1>8. CASE seat[v] = s /\ ~(r.active > 0) /\ ~r.expired /\ ~shut /\ Sets(s, Pressed(s, z))
 <2>1. r.active = 0
   BY <1>5, <1>8
 <2>2. QED
   BY <1>1, <1>3, <1>8, <2>1, TakeSafe DEF SameChain
<1>9. QED
  BY <1>4, <1>6, <1>7, <1>8

LEMMA ResumeSafe ==
    ASSUME LiveInv, ShareAssumption, NEW s \in Shares, ResumeInput(s)
    PROVE  LiveInv' /\ Shown
<1> DEFINE r == share[s]
           v == Head1(s).by
           z == Driven(r)
<1>1. /\ r \in ShareType /\ Sound(r) /\ r.tail \in Seq(Items) /\ r.tail # <<>> /\ r.tail[1].does = "input"
      /\ UNCHANGED Rest /\ v \in Viewers
 <2>1. r \in ShareType /\ Sound(r) /\ r.tail \in Seq(Items)
   BY LiveFacts
 <2>2. r.tail # <<>> /\ r.tail[1].does = "input" /\ UNCHANGED Rest
   BY <2>1 DEF ResumeInput, Rest, Sound
 <2>3. QED
   BY <2>1, <2>2, ChainHead DEF Head1
<1>2. z \in ShareType /\ SameLife(z, r) /\ SameView(z, r) /\ SameChain(z, r) /\ SameHands(z, r)
  BY <1>1, DrivenIs
<1>3. \/ Sets(s, Pops(r))
      \/ r.active = 0 /\ Granted(s, v) /\ Sets(s, Pressed(s, z))
  BY DEF ResumeInput, Woken, Granted, MayTake
<1>4. CASE Sets(s, Pops(r))
  BY <1>1, <1>4, PopSafe
<1>5. CASE r.active = 0 /\ Granted(s, v) /\ Sets(s, Pressed(s, z))
 <2>1. seat[v] = s /\ ~r.expired /\ ~shut /\ r.owner = v
   BY <1>5 DEF Granted, MayTake
 <2>2. z.owner = v /\ z.wanted
   BY <1>1, <1>2, <2>1 DEF SameHands, Sound, ShareAssumption
 <2> HIDE DEF z, v
 <2>3. QED
   BY <1>1, <1>2, <1>5, <2>1, <2>2, TakeSafe DEF SameChain
<1>6. QED
  BY <1>3, <1>4, <1>5

LEMMA ReleaseSafe ==
    ASSUME LiveInv, ShareAssumption, NEW s \in Shares, ReleaseViewer(s)
    PROVE  LiveInv' /\ Shown
<1> DEFINE r == share[s]
           v == Head1(s).by
           p == Pops(r)
           b == IF p.owner = v THEN [p EXCEPT !.owner = "none", !.wanted = FALSE, !.driving = FALSE] ELSE p
           x == IF ViewersOf(s, seat) = {} THEN [b EXCEPT !.cdp = "none"] ELSE b
<1>1. /\ r \in ShareType /\ Sound(r) /\ Present(r, s, seat) /\ r.tail \in Seq(Items) /\ r.tail # <<>> /\ r.live
      /\ r.published /\ r.cdp \in {"none", r.page} /\ UNCHANGED Rest /\ v \in Viewers
      /\ r.tail[1] \in Items /\ r.tail[1].by = v
 <2>1. /\ r \in ShareType /\ Sound(r) /\ Present(r, s, seat) /\ r.tail \in Seq(Items)
       /\ r.cdp \in {"none", r.page} /\ (r.tail # <<>> => r.live /\ r.published)
   BY LiveFacts
 <2>2. r.tail # <<>> /\ UNCHANGED Rest
   BY DEF ReleaseViewer, Rest
 <2>3. QED
   BY <2>1, <2>2, ChainHead DEF Head1
<1>2. Sets(s, x)
  BY DEF ReleaseViewer
<1>3. /\ p \in ShareType /\ SameLife(p, r) /\ SameHands(p, r) /\ SameView(p, r)
      /\ p.tail = Tail(r.tail) /\ p.head = "queued"
  BY <1>1, PopsIs
<1> HIDE DEF p, v
<1>4. /\ b \in ShareType /\ SameLife(b, r) /\ SameView(b, r) /\ b.tail = Tail(r.tail) /\ b.head = "queued"
      /\ \/ b.owner = "none" /\ ~b.wanted
         \/ SameHands(b, r) /\ b.owner # v
 <2>1. CASE p.owner = v
   BY <1>3, <2>1 DEF ShareType, SameLife, SameView
 <2>2. CASE p.owner # v
   BY <1>3, <2>2
 <2>3. QED
   BY <2>1, <2>2
<1> HIDE DEF b
<1>5. /\ x \in ShareType /\ SameLife(x, r) /\ x.tail = Tail(r.tail) /\ x.head = "queued" /\ SameHands(x, b)
      /\ x.page = b.page /\ x.cdp \in {"none", b.cdp}
  BY <1>4 DEF ShareType, SameLife, SameHands
<1> HIDE DEF x
<1>6. Sound(x)
 <2>1. x.cdp \in {"none", x.page} /\ (x.wanted <=> x.owner # "none")
   BY <1>1, <1>4, <1>5 DEF SameView, SameHands, Sound
 <2>2. QED
   BY <1>1, <1>5, <2>1, SoundStays
<1>7. Present(x, s, seat)
 <2>1. CASE b.owner = "none" /\ ~b.wanted
   BY <1>5, <2>1 DEF Present, SameHands
 <2>2. CASE SameHands(b, r) /\ b.owner # v
  <3>1. r.tail[1] # [by |-> r.owner, does |-> "release"]
    BY <1>1, <2>2 DEF SameHands
  <3>2. Leaving(r.tail, r.owner) => Leaving(Tail(r.tail), r.owner)
    BY <1>1, <3>1, ChainTail
  <3>3. QED
    BY <1>1, <1>5, <2>2, <3>2 DEF Present, SameHands
 <2>3. QED
   BY <1>4, <2>1, <2>2
<1>8. QED
  BY <1>1, <1>2, <1>5, <1>6, <1>7, RestIs, LocalStep

(* ----- steps that leave the chain and the control alone ----- *)
LEMMA LookSafe ==
    ASSUME LiveInv, NEW s \in Shares, NEW x \in ShareType, share[s].live, Sets(s, x),
           SameLife(x, share[s]), SameHands(x, share[s]), SameChain(x, share[s]), x.cdp \in {"none", x.page},
           UNCHANGED <<current, seat, tunnel, agent, finish, shut, dialog, reply, inputs, commands>>,
           page' \in Tabs, moves' \in 0..MaxMoves
    PROVE  LiveInv' /\ Shown
<1> DEFINE r == share[s]
<1>1. /\ r \in ShareType /\ Sound(r) /\ Present(r, s, seat) /\ r.tail \in Seq(Items)
      /\ (r.tail # <<>> => r.published)
  BY LiveFacts
<1>2. Sound(x)
  BY <1>1, SoundStays DEF SameHands, SameChain, SameLife, Sound
<1>3. Present(x, s, seat)
  BY <1>1 DEF Present, SameHands, SameChain
<1>4. x.tail # <<>> => r.tail # <<>>
  BY DEF SameChain
<1>5. x.head = "sending" => r.head = "sending"
  BY DEF SameChain
<1>6. /\ dialog' \in {"none", "open", "answering"}
      /\ reply' \in [Viewers -> {"none", "waiting", "control", "answering"}]
      /\ inputs' \in 0..MaxInputs /\ commands' \in 0..MaxCommands
  BY DEF LiveInv, LiveTypes
<1>7. QED
  BY <1>2, <1>3, <1>4, <1>5, <1>6, LocalStep

LEMMA RestRests ==
    ASSUME LiveInv, UNCHANGED Rest
    PROVE  /\ UNCHANGED <<current, seat, tunnel, agent, finish, shut, dialog, reply, inputs, commands>>
           /\ page' \in Tabs /\ moves' \in 0..MaxMoves
BY RestIs DEF Rest, browserVars, counters

LEMMA PollSafe ==
    ASSUME LiveInv, NEW s \in Shares, Poll(s)
    PROVE  LiveInv' /\ Shown
<1> DEFINE b == ViewersOf(s, seat) # {}
           x == Refresh(share[s], b)
<1>1. share[s] \in ShareType /\ page \in Tabs /\ share[s].cdp \in {"none", share[s].page}
  BY LiveFacts
<1>2. /\ x \in ShareType /\ SameLife(x, share[s]) /\ SameChain(x, share[s]) /\ SameHands(x, share[s])
      /\ x.cdp \in {"none", x.page}
 <2>1. b \in BOOLEAN
   OBVIOUS
 <2> HIDE DEF b
 <2>2. QED
   BY <1>1, <2>1, RefreshIs
<1>3. Sets(s, x) /\ UNCHANGED Rest /\ share[s].live
  BY DEF Poll, Rest
<1> HIDE DEF x
<1>4. QED
  BY <1>2, <1>3, RestRests, LookSafe

LEMMA StreamSafe ==
    ASSUME LiveInv, NEW s \in Shares, StreamOpens(s)
    PROVE  LiveInv' /\ Shown
<1> DEFINE r == share[s]
           c == IF /\ ViewersOf(s, seat) # {} /\ ~r.expired
                   /\ r.opens = r.page /\ r.opens = page
                THEN r.opens ELSE r.cdp
           x == [r EXCEPT !.opens = "none", !.cdp = c]
<1>1. /\ r \in ShareType /\ r.cdp \in {"none", r.page} /\ r.opens # "none" /\ UNCHANGED Rest
      /\ Sets(s, x)
  BY LiveFacts DEF StreamOpens, Rest
<1>2. r.live
 <2>1. ~r.live => r = Unmade
   BY LiveFacts DEF Sound
 <2>2. QED
   BY <1>1, <2>1 DEF Unmade
<1>3. c \in Tabs \cup {"none"} /\ c \in {"none", r.page}
  BY <1>1, FieldsOfShare
<1> HIDE DEF c
<1>4. /\ x \in ShareType /\ SameLife(x, r) /\ SameHands(x, r) /\ SameChain(x, r) /\ x.cdp \in {"none", x.page}
  BY <1>1, <1>3 DEF ShareType, SameLife, SameHands, SameChain
<1> HIDE DEF x
<1>5. QED
  BY <1>1, <1>2, <1>4, RestRests, LookSafe

LEMMA HumanSafe ==
    ASSUME LiveInv, ShareAssumption, NEW s \in Shares, HumanMoves(s)
    PROVE  LiveInv' /\ Shown
<1> DEFINE r == share[s]
<1>1. /\ r \in ShareType /\ r.live /\ page \in Tabs /\ r.cdp \in {"none", r.page}
      /\ UNCHANGED <<current, seat, tunnel, agent, finish, shut, reply, inputs, commands>>
  BY LiveFacts DEF HumanMoves, endVars
<1>2. moves' \in 0..MaxMoves
 <2>1. moves < MaxMoves /\ moves' = moves + 1
   BY DEF HumanMoves
 <2>2. QED
   BY <2>1 DEF LiveInv, LiveTypes, ShareAssumption
<1>3. ASSUME NEW p \in Tabs, page' = p, UNCHANGED dialog,
             Sets(s, [r EXCEPT !.page = p, !.cdp = "none",
                         !.opens = IF ViewersOf(s, seat) # {} /\ @ = "none" THEN p ELSE @])
      PROVE  LiveInv' /\ Shown
 <2> DEFINE o == IF ViewersOf(s, seat) # {} /\ r.opens = "none" THEN p ELSE r.opens
            x == [r EXCEPT !.page = p, !.cdp = "none", !.opens = o]
 <2>1. o \in Tabs \cup {"none"} /\ Sets(s, x)
   BY <1>1, <1>3, FieldsOfShare
 <2> HIDE DEF o
 <2>2. x \in ShareType /\ SameLife(x, r) /\ SameHands(x, r) /\ SameChain(x, r) /\ x.cdp \in {"none", x.page}
   BY <1>1, <2>1 DEF ShareType, SameLife, SameHands, SameChain
 <2> HIDE DEF x
 <2>3. QED
   BY <1>1, <1>2, <1>3, <2>1, <2>2, LookSafe
<1>4. ASSUME UNCHANGED share, page' \in Tabs, dialog' \in {"none", "open", "answering"}
      PROVE  LiveInv' /\ Shown
 <2>1. Sets(s, r)
   BY <1>4 DEF Sets, LiveInv, LiveTypes
 <2>2. /\ Sound(r) /\ Present(r, s, seat) /\ SameLife(r, r) /\ reply' \in [Viewers -> {"none", "waiting", "control", "answering"}]
       /\ inputs' \in 0..MaxInputs /\ commands' \in 0..MaxCommands
   BY <1>1, LiveFacts DEF LiveInv, LiveTypes, SameLife
 <2>3. QED
   BY <1>1, <1>2, <1>4, <2>1, <2>2, LocalStep
<1>5. \/ \E p \in Tabs : /\ page' = p /\ UNCHANGED dialog
                         /\ Sets(s, [r EXCEPT !.page = p, !.cdp = "none",
                                        !.opens = IF ViewersOf(s, seat) # {} /\ @ = "none" THEN p ELSE @])
      \/ UNCHANGED share /\ page' \in Tabs /\ dialog' \in {"none", "open", "answering"}
  BY <1>1 DEF HumanMoves, LiveInv, LiveTypes
<1>6. QED
  BY <1>3, <1>4, <1>5

LEMMA SentSafe ==
    ASSUME LiveInv, NEW s \in Shares, InputSent(s)
    PROVE  LiveInv' /\ Shown
<1>1. share[s].tail # <<>> /\ share[s].tail[1].does = "input" /\ Sets(s, Pops(share[s])) /\ UNCHANGED Rest
  BY LiveFacts DEF InputSent, Rest, Sound
<1>2. QED
  BY <1>1, PopSafe

(* ----- viewers come, send and go ----- *)
LEMMA SendSafe ==
    ASSUME LiveInv, ShareAssumption, NEW v \in Viewers, Send(v)
    PROVE  LiveInv' /\ Shown
<1> DEFINE s == seat[v]
           r == share[s]
           i == [by |-> v, does |-> "input"]
           x == [r EXCEPT !.tail = Append(r.tail, i)]
<1>1. s \in Shares /\ s = current /\ Serves(r)
  BY SeatIs DEF Send
<1>2. /\ r \in ShareType /\ Sound(r) /\ Present(r, s, seat) /\ r.tail \in Seq(Items) /\ r.cdp \in {"none", r.page}
  BY <1>1, LiveFacts
<1>3. /\ i \in Items /\ Sets(s, x) /\ UNCHANGED <<current, seat, tunnel, agent, finish, shut, page, dialog, reply, commands, moves>>
      /\ inputs' \in 0..MaxInputs
  BY DEF Send, Items, endVars, browserVars, LiveInv, LiveTypes, ShareAssumption
<1>4. /\ Append(r.tail, i) \in Seq(Items) /\ Append(r.tail, i) # <<>>
      /\ r.tail # <<>> => Append(r.tail, i)[1] = r.tail[1]
      /\ \A w : Leaving(r.tail, w) => Leaving(Append(r.tail, i), w)
  BY <1>2, <1>3, ChainAppend
<1>5. /\ x \in ShareType /\ SameLife(x, r) /\ SameHands(x, r) /\ x.cdp = r.cdp /\ x.page = r.page
      /\ x.head = r.head /\ x.tail = Append(r.tail, i)
  BY <1>2, <1>4 DEF ShareType, SameLife, SameHands
<1> HIDE DEF x, i
<1>6. Sound(x)
  BY <1>1, <1>2, <1>4, <1>5, SoundStays DEF Sound, SameHands, Serves
<1>7. Present(x, s, seat)
  BY <1>2, <1>4, <1>5 DEF Present, SameHands
<1>8. /\ page' \in Tabs /\ dialog' \in {"none", "open", "answering"}
      /\ reply' \in [Viewers -> {"none", "waiting", "control", "answering"}]
      /\ commands' \in 0..MaxCommands /\ moves' \in 0..MaxMoves
  BY <1>3 DEF LiveInv, LiveTypes
<1> HIDE DEF s
<1>9. QED
  BY <1>1, <1>3, <1>5, <1>6, <1>7, <1>8, LocalStep DEF Serves

LEMMA LeaveSafe ==
    ASSUME LiveInv, ShareAssumption, NEW v \in Viewers, Leave(v)
    PROVE  LiveInv' /\ Shown
<1> DEFINE s == seat[v]
           r == share[s]
           i == [by |-> v, does |-> "release"]
           x == [r EXCEPT !.tail = Append(r.tail, i)]
<1>1. s \in Shares /\ s = current /\ Serves(r)
  BY SeatIs DEF Leave
<1>2. /\ r \in ShareType /\ Sound(r) /\ Present(r, s, seat) /\ r.tail \in Seq(Items) /\ r.cdp \in {"none", r.page}
  BY <1>1, LiveFacts
<1>3. /\ i \in Items /\ Sets(s, x) /\ seat' = [seat EXCEPT ![v] = -1]
      /\ UNCHANGED <<current, tunnel, agent, finish, shut, page, dialog, reply, inputs, commands, moves>>
  BY DEF Leave, Items, endVars, browserVars, counters
<1>4. /\ Append(r.tail, i) \in Seq(Items) /\ Append(r.tail, i) # <<>>
      /\ r.tail # <<>> => Append(r.tail, i)[1] = r.tail[1]
      /\ \A w : Leaving(r.tail, w) => Leaving(Append(r.tail, i), w)
      /\ Leaving(Append(r.tail, i), v)
  BY <1>2, <1>3, ChainAppend
<1>5. /\ x \in ShareType /\ SameLife(x, r) /\ SameHands(x, r) /\ x.cdp = r.cdp /\ x.page = r.page
      /\ x.head = r.head /\ x.tail = Append(r.tail, i)
  BY <1>2, <1>4 DEF ShareType, SameLife, SameHands
<1> HIDE DEF x, i
<1>6. Sound(x)
  BY <1>1, <1>2, <1>4, <1>5, SoundStays DEF Sound, SameHands, Serves
<1>7. /\ seat' \in [Viewers -> -1..MaxShares] /\ seat'[v] = -1
      /\ \A w \in Viewers : w # v => seat'[w] = seat[w]
  BY <1>3 DEF LiveInv, LiveTypes, ShareAssumption
<1>8. Present(x, s, seat')
 <2>1. CASE r.owner = v
   BY <1>4, <1>5, <2>1 DEF Present, SameHands
 <2>2. CASE r.owner # v
  <3>1. r.wanted => r.owner \in Viewers
    BY <1>2, FieldsOfShare DEF Sound
  <3>2. r.wanted => seat'[r.owner] = seat[r.owner]
    BY <1>7, <2>2, <3>1
  <3>3. QED
    BY <1>2, <1>4, <1>5, <3>2 DEF Present, SameHands
 <2>3. QED
   BY <2>1, <2>2
<1>9. /\ page' \in Tabs /\ dialog' \in {"none", "open", "answering"}
      /\ reply' \in [Viewers -> {"none", "waiting", "control", "answering"}]
      /\ inputs' \in 0..MaxInputs /\ commands' \in 0..MaxCommands /\ moves' \in 0..MaxMoves
  BY <1>3 DEF LiveInv, LiveTypes
<1>10. \A w \in Viewers : /\ seat'[w] > 0 => seat'[w] = seat[w]
                          /\ seat[w] \in Shares /\ seat[w] # s => seat'[w] = seat[w]
  BY <1>7
<1>11. /\ Sets(s, x) /\ share[s].live /\ SameLife(x, share[s]) /\ s = current
       /\ x.head = "sending" => share[s].head = "sending"
  BY <1>1, <1>3, <1>5 DEF Serves
<1>12. UNCHANGED <<current, tunnel, agent, finish, shut>>
  BY <1>3
<1> HIDE DEF s
<1>13. QED
  BY <1>1, <1>5, <1>6, <1>7, <1>8, <1>9, <1>10, <1>11, <1>12, SeatStep

LEMMA ConnectSafe ==
    ASSUME LiveInv, ShareAssumption, NEW v \in Viewers, ConnectViewer(v)
    PROVE  LiveInv' /\ Shown
<1> DEFINE s == current
           r == share[s]
           x == IF r.cdp = "none" THEN Streams(r) ELSE r
<1>1. s \in Shares /\ s # 0 /\ Serves(r)
  BY DEF ConnectViewer, LiveInv, LiveTypes, Shares, Alone, Serves
<1>2. /\ r \in ShareType /\ Sound(r) /\ Present(r, s, seat) /\ r.tail \in Seq(Items) /\ r.cdp \in {"none", r.page}
      /\ page \in Tabs
  BY <1>1, LiveFacts
<1>3. /\ Sets(s, x) /\ seat' = [seat EXCEPT ![v] = s] /\ seat[v] = 0
      /\ UNCHANGED <<current, tunnel, agent, finish, shut, page, dialog, reply, inputs, commands, moves>>
  BY DEF ConnectViewer, endVars, browserVars, counters
<1>4. x \in ShareType /\ SameLife(x, r) /\ SameHands(x, r) /\ SameChain(x, r) /\ SameView(x, r)
  BY <1>2, StreamsIs DEF SameLife, SameHands, SameChain, SameView
<1> HIDE DEF x
<1>5. Sound(x)
  BY <1>1, <1>2, <1>4, SoundStays DEF Sound, SameHands, SameChain, SameView, Serves
<1>6. /\ seat' \in [Viewers -> -1..MaxShares] /\ seat'[v] = s
      /\ \A w \in Viewers : w # v => seat'[w] = seat[w]
  BY <1>1, <1>3 DEF LiveInv, LiveTypes, Shares
<1>7. Present(x, s, seat')
 <2>1. r.wanted => r.owner \in Viewers
   BY <1>2, FieldsOfShare DEF Sound
 <2>2. r.wanted /\ seat[r.owner] = s => seat'[r.owner] = s
   BY <1>6, <2>1
 <2>3. QED
   BY <1>2, <1>4, <2>2 DEF Present, SameHands, SameChain
<1>8. /\ page' \in Tabs /\ dialog' \in {"none", "open", "answering"}
      /\ reply' \in [Viewers -> {"none", "waiting", "control", "answering"}]
      /\ inputs' \in 0..MaxInputs /\ commands' \in 0..MaxCommands /\ moves' \in 0..MaxMoves
  BY <1>3 DEF LiveInv, LiveTypes
<1>9. Serves(x) /\ x.tail = r.tail /\ x.head = r.head /\ r.live
  BY <1>1, <1>4 DEF Serves, SameLife, SameChain
<1>10. \A w \in Viewers : /\ seat'[w] > 0 => seat'[w] = seat[w] \/ (seat'[w] = s /\ Serves(x))
                          /\ seat[w] \in Shares /\ seat[w] # s => seat'[w] = seat[w]
  BY <1>3, <1>6, <1>9 DEF Shares
<1>11. Sets(s, x) /\ share[s].live /\ SameLife(x, share[s])
  BY <1>3, <1>4, <1>9
<1> HIDE DEF s
<1>12. QED
  BY <1>1, <1>3, <1>4, <1>5, <1>6, <1>7, <1>8, <1>9, <1>10, <1>11, SeatStep

(* A viewer takes control for a reply, or is given what it waited for. *)
LEMMA TakesForReply ==
    ASSUME LiveInv, ShareAssumption, NEW v \in Viewers, seat[v] > 0, NEW x \in ShareType, Sets(seat[v], x),
           SameLife(x, share[seat[v]]), SameView(x, share[seat[v]]), SameChain(x, share[seat[v]]),
           x.owner = v, x.wanted,
           reply' \in [Viewers -> {"none", "waiting", "control", "answering"}],
           UNCHANGED <<current, seat, tunnel, agent, endVars, browserVars, counters>>
    PROVE  LiveInv' /\ Shown
<1> DEFINE s == seat[v]
           r == share[s]
<1>1. s \in Shares /\ s = current /\ Serves(r)
  BY SeatIs
<1>2. /\ r \in ShareType /\ Sound(r) /\ r.cdp \in {"none", r.page} /\ v # "none"
  BY <1>1, LiveFacts DEF ShareAssumption
<1>3. Sound(x)
  BY <1>1, <1>2, SoundStays DEF Sound, SameView, SameChain, Serves
<1>4. Present(x, s, seat)
  BY DEF Present
<1>5. /\ page' \in Tabs /\ dialog' \in {"none", "open", "answering"}
      /\ inputs' \in 0..MaxInputs /\ commands' \in 0..MaxCommands /\ moves' \in 0..MaxMoves
      /\ UNCHANGED <<current, seat, tunnel, agent, finish, shut>>
  BY DEF LiveInv, LiveTypes, browserVars, counters, endVars
<1>6. r.live /\ (x.tail # <<>> => s = current) /\ (x.head = "sending" => r.head = "sending")
  BY <1>1 DEF Serves, SameChain
<1>7. Sets(s, x) /\ SameLife(x, share[s])
  OBVIOUS
<1> HIDE DEF s
<1>8. QED
  BY <1>1, <1>3, <1>4, <1>5, <1>6, <1>7, LocalStep

LEMMA ReplySafe ==
    ASSUME LiveInv, ShareAssumption, NEW v \in Viewers, Reply(v)
    PROVE  LiveInv' /\ Shown
<1> DEFINE s == seat[v]
           r == share[s]
           y == Taken(r, v)
           z == Driven(y)
<1>1. /\ seat[v] > 0 /\ UNCHANGED <<current, seat, tunnel, agent, endVars, browserVars, counters>>
      /\ reply' \in [Viewers -> {"none", "waiting", "control", "answering"}]
  BY DEF Reply, LiveInv, LiveTypes
<1>2. s \in Shares /\ r \in ShareType
  BY <1>1, SeatIs, LiveFacts
<1>3. y \in ShareType /\ SameLife(y, r) /\ SameView(y, r) /\ SameChain(y, r) /\ y.owner = v /\ y.wanted
  BY <1>2, TakenIs
<1>4. z \in ShareType /\ SameLife(z, r) /\ SameView(z, r) /\ SameChain(z, r) /\ z.owner = v /\ z.wanted
 <2> HIDE DEF y
 <2>1. z \in ShareType /\ SameLife(z, y) /\ SameView(z, y) /\ SameChain(z, y) /\ SameHands(z, y)
   BY <1>3, DrivenIs
 <2> HIDE DEF z
 <2>2. QED
   BY <1>3, <2>1 DEF SameLife, SameView, SameChain, SameHands
<1>5. Sets(s, y) \/ Sets(s, z)
  BY DEF Reply
<1> HIDE DEF y, z
<1>6. QED
  BY <1>1, <1>3, <1>4, <1>5, TakesForReply

(* Shares, seats, the agent and the end rest. *)
LEMMA BesideSafe ==
    ASSUME LiveInv, UNCHANGED <<share, current, seat, agent, shut>>, tunnel' \in BOOLEAN,
           finish' \in {"idle", "draining", "preparing", "done"}, finish' # "idle" <=> finish # "idle",
           page' \in Tabs, dialog' \in {"none", "open", "answering"},
           reply' \in [Viewers -> {"none", "waiting", "control", "answering"}],
           inputs' \in 0..MaxInputs, commands' \in 0..MaxCommands, moves' \in 0..MaxMoves
    PROVE  LiveInv' /\ Shown
<1>1. LiveTypes'
  BY DEF LiveInv, LiveTypes
<1>2. (\A s \in Shares : Sound(share[s]) /\ Present(share[s], s, seat))'
  BY DEF LiveInv, Present, Sound
<1>3. Seated' /\ Numbered' /\ Alone' /\ Apart'
  BY DEF LiveInv, Seated, Serves, Numbered, Alone, Apart
<1>4. Turned'
  BY DEF LiveInv, Turned, Acts
<1>5. QED
  BY <1>1, <1>2, <1>3, <1>4 DEF LiveInv, Shown

LEMMA ResumesReply ==
    ASSUME LiveInv, ShareAssumption, NEW v \in Viewers, ReplyResumes(v)
    PROVE  LiveInv' /\ Shown
<1>1. /\ UNCHANGED <<current, seat, tunnel, agent, endVars, browserVars, counters>>
      /\ reply' \in [Viewers -> {"none", "waiting", "control", "answering"}]
      /\ \/ UNCHANGED share
         \/ seat[v] > 0 /\ Granted(seat[v], v) /\ Sets(seat[v], Driven(share[seat[v]]))
  BY DEF ReplyResumes, LiveInv, LiveTypes
<1>2. CASE UNCHANGED share
  BY <1>1, <1>2, BesideSafe DEF endVars, browserVars, counters, LiveInv, LiveTypes
<1>3. CASE seat[v] > 0 /\ Granted(seat[v], v) /\ Sets(seat[v], Driven(share[seat[v]]))
 <2> DEFINE r == share[seat[v]]
            z == Driven(r)
 <2>1. r \in ShareType /\ Sound(r)
   BY <1>3, SeatIs, LiveFacts
 <2>2. z \in ShareType /\ SameLife(z, r) /\ SameView(z, r) /\ SameChain(z, r) /\ SameHands(z, r)
   BY <2>1, DrivenIs
 <2> HIDE DEF z
 <2>3. z.owner = v /\ z.wanted
   BY <1>3, <2>1, <2>2 DEF SameHands, Granted, Sound, ShareAssumption
 <2>4. Sets(seat[v], z)
   BY <1>3 DEF z
 <2>5. QED
   BY <1>1, <1>3, <2>2, <2>3, <2>4, TakesForReply
<1>4. QED
  BY <1>1, <1>2, <1>3

LEMMA BesideSteps ==
    ASSUME LiveInv, ~MayFail, ShareAssumption,
           \/ \E v \in Viewers : ReplyGoes(v) \/ ReplyEnds(v)
           \/ DialogExpires \/ TunnelDies \/ Drained \/ Prepared \/ AgentMoves \/ UNCHANGED shareVars
    PROVE  LiveInv' /\ Shown
<1>1. CASE \E v \in Viewers : ReplyGoes(v) \/ ReplyEnds(v)
  BY <1>1, BesideSafe DEF ReplyGoes, ReplyEnds, endVars, counters, LiveInv, LiveTypes
<1>2. CASE DialogExpires
  BY <1>2, BesideSafe DEF DialogExpires, endVars, counters, LiveInv, LiveTypes
<1>3. CASE TunnelDies
  BY <1>3, BesideSafe DEF TunnelDies, endVars, browserVars, counters, LiveInv, LiveTypes
<1>4. CASE Drained
  BY <1>4, BesideSafe DEF Drained, browserVars, counters, LiveInv, LiveTypes
<1>5. CASE Prepared
  BY <1>5, BesideSafe DEF Prepared, browserVars, counters, LiveInv, LiveTypes
<1>6. CASE AgentMoves
 <2>1. /\ UNCHANGED <<share, current, seat, tunnel, agent, finish, shut, reply, inputs, commands>>
       /\ page' \in Tabs /\ dialog' \in {"none", "open", "answering"}
   BY <1>6 DEF AgentMoves, endVars, LiveInv, LiveTypes
 <2>2. moves' = moves \/ (moves < MaxMoves /\ moves' = moves + 1)
   BY <1>6 DEF AgentMoves
 <2>3. moves' \in 0..MaxMoves
   BY <2>2 DEF LiveInv, LiveTypes, ShareAssumption
 <2>4. QED
   BY <2>1, <2>3, BesideSafe DEF LiveInv, LiveTypes
<1>7. CASE UNCHANGED shareVars
  BY <1>7, BesideSafe DEF shareVars, LiveInv, LiveTypes
<1>8. QED
  BY <1>1, <1>2, <1>3, <1>4, <1>5, <1>6, <1>7

(* ----- the agent ----- *)
(* A command begins, takes or gives up its turn, or is over: of the shares   *)
(* only the turn changes.                                                    *)
LEMMA AgentStep ==
    ASSUME LiveInv, NEW a \in AgentType, agent' = a, share' \in [Shares -> ShareType],
           \A s \in Shares : \E k \in 0..1 :
               share'[s] = [share[s] EXCEPT !.active = k] /\ (k = 1 <=> s = a.turn /\ a.at \in {"acting", "unwinding"}),
           \A s \in Shares : share'[s] = share[s] \/ share[s].live,
           UNCHANGED <<current, seat, tunnel, finish, shut, page, dialog, reply, inputs, moves>>,
           commands' \in 0..MaxCommands,
           a.at # "idle" /\ ~shut => current = a.turn,
           a.at \in {"waits", "yielded"} => a.turn # 0,
           a.turn # 0 => share[a.turn].live,
           a.at \notin {"settling", "starting"},
           a.at = "acting" => \A s \in Shares : share[s].head # "sending"
    PROVE  LiveInv' /\ Shown
<1>1. LiveTypes'
  BY DEF LiveInv, LiveTypes
<1>2. \A s \in Shares : /\ share'[s].live = share[s].live /\ share'[s].expired = share[s].expired
                        /\ share'[s].published = share[s].published /\ SameHands(share'[s], share[s])
                        /\ SameChain(share'[s], share[s]) /\ SameView(share'[s], share[s])
                        /\ (share'[s].active = 1 <=> s = a.turn /\ a.at \in {"acting", "unwinding"})
 <2> SUFFICES ASSUME NEW s \in Shares
              PROVE  /\ share'[s].live = share[s].live /\ share'[s].expired = share[s].expired
                     /\ share'[s].published = share[s].published /\ SameHands(share'[s], share[s])
                     /\ SameChain(share'[s], share[s]) /\ SameView(share'[s], share[s])
                     /\ (share'[s].active = 1 <=> s = a.turn /\ a.at \in {"acting", "unwinding"})
   OBVIOUS
 <2>1. PICK k \in 0..1 : share'[s] = [share[s] EXCEPT !.active = k] /\ (k = 1 <=> s = a.turn /\ a.at \in {"acting", "unwinding"})
   OBVIOUS
 <2>2. share[s] \in ShareType
   BY DEF LiveInv, LiveTypes
 <2>3. QED
   BY <2>1, <2>2 DEF ShareType, SameHands, SameChain, SameView
<1>3. (\A s \in Shares : Sound(share[s]) /\ Present(share[s], s, seat))'
 <2> SUFFICES ASSUME NEW s \in Shares PROVE Sound(share'[s]) /\ Present(share'[s], s, seat')
   BY DEF Present
 <2>1. Sound(share[s]) /\ Present(share[s], s, seat)
   BY DEF LiveInv
 <2>2. Sound(share'[s])
   BY <1>2, <2>1 DEF Sound, SameHands, SameChain, SameView
 <2>3. Present(share'[s], s, seat')
   BY <1>2, <2>1 DEF Present, SameHands, SameChain
 <2>4. QED
   BY <2>2, <2>3
<1>4. Seated' /\ Numbered'
 <2>1. \A v \in Viewers : seat[v] > 0 => seat[v] \in Shares
   BY DEF LiveInv, LiveTypes, Shares
 <2>2. \A v \in Viewers : seat'[v] > 0 => Serves(share'[seat'[v]])
   BY <1>2, <2>1 DEF LiveInv, Seated, Serves
 <2>3. Numbered'
   BY <1>2 DEF LiveInv, Numbered
 <2>4. QED
   BY <2>2, <2>3 DEF Seated, Serves
<1>5. Alone'
 <2>1. current # 0 => current \in Shares
   BY DEF LiveInv, LiveTypes, Shares
 <2>2. QED
   BY <1>2, <2>1 DEF LiveInv, Alone, SameChain
<1>6. Turned'
 <2>1. a.turn # 0 => a.turn \in Shares
   BY DEF AgentType, Shares
 <2>2. QED
   BY <1>2, <2>1 DEF LiveInv, Turned, Acts
<1>7. Apart' /\ Shown
  BY <1>2 DEF LiveInv, Apart, Shown, SameChain
<1>8. QED
  BY <1>1, <1>3, <1>4, <1>5, <1>6, <1>7 DEF LiveInv

LEMMA NothingSent ==
    ASSUME LiveInv, ~shut, current = 0 \/ ~share[current].wanted, NEW s \in Shares
    PROVE  share[s].head # "sending"
<1> SUFFICES ASSUME share[s].head = "sending" PROVE FALSE
  OBVIOUS
<1>1. share[s].tail # <<>> /\ share[s].wanted
  BY LiveFacts DEF Sound
<1>2. current = s /\ s # 0
  BY <1>1, CurrentIs DEF Shares
<1>3. QED
  BY <1>1, <1>2

(* The turn of the share the agent read goes from one value to another. *)
LEMMA TurnGoes ==
    ASSUME LiveInv, NEW n \in Int, Turns(n), NEW k \in 0..1, agent.turn # 0 => share[agent.turn].active + n = k
    PROVE  /\ share' \in [Shares -> ShareType]
           /\ \A s \in Shares : /\ s = agent.turn => share'[s] = [share[s] EXCEPT !.active = k]
                                /\ s # agent.turn => share'[s] = share[s]
<1>1. share \in [Shares -> ShareType]
  BY DEF LiveInv, LiveTypes
<1>2. CASE agent.turn = 0
  BY <1>1, <1>2 DEF Turns, Shares
<1>3. CASE agent.turn # 0
 <2>1. agent.turn \in Shares
   BY <1>3 DEF LiveInv, LiveTypes, AgentType, Shares
 <2> DEFINE r == share[agent.turn]
            x == [r EXCEPT !.active = k]
 <2>2. Sets(agent.turn, x)
   BY <1>3 DEF Turns
 <2>3. r \in ShareType
   BY <1>1, <2>1
 <2>4. x \in ShareType
   BY <2>3 DEF ShareType
 <2> HIDE DEF x
 <2>5. QED
   BY <1>1, <2>1, <2>2, <2>4 DEF Sets, x
<1>4. QED
  BY <1>2, <1>3

LEMMA SameActive ==
    ASSUME LiveInv, NEW s \in Shares, NEW k, share[s].active = k
    PROVE  share[s] = [share[s] EXCEPT !.active = k]
<1>1. share[s] \in ShareType
  BY DEF LiveInv, LiveTypes
<1>2. QED
  BY <1>1 DEF ShareType

(* AgentStep, when the turn goes by n to k. *)
LEMMA AgentTurns ==
    ASSUME LiveInv, NEW n \in Int, Turns(n), NEW k \in 0..1, agent.turn # 0 => share[agent.turn].active + n = k,
           NEW a \in AgentType, agent' = a,
           agent.turn # 0 => a.turn = agent.turn \/ (a.turn = 0 /\ k = 0),
           agent.turn = 0 => a.turn = 0,
           a.turn # 0 => (k = 1 <=> a.at \in {"acting", "unwinding"}),
           UNCHANGED <<current, seat, tunnel, finish, shut, page, dialog, reply, inputs, commands, moves>>,
           a.at # "idle" /\ ~shut => current = a.turn,
           a.at \in {"waits", "yielded"} => a.turn # 0,
           a.at \notin {"settling", "starting"},
           a.at = "acting" => \A s \in Shares : share[s].head # "sending"
    PROVE  LiveInv' /\ Shown
<1>1. /\ share' \in [Shares -> ShareType]
      /\ \A s \in Shares : /\ s = agent.turn => share'[s] = [share[s] EXCEPT !.active = k]
                           /\ s # agent.turn => share'[s] = share[s]
  BY TurnGoes
<1>2. \A s \in Shares : \E j \in 0..1 :
         share'[s] = [share[s] EXCEPT !.active = j] /\ (j = 1 <=> s = a.turn /\ a.at \in {"acting", "unwinding"})
 <2> SUFFICES ASSUME NEW s \in Shares
              PROVE  \E j \in 0..1 : /\ share'[s] = [share[s] EXCEPT !.active = j]
                                     /\ (j = 1 <=> s = a.turn /\ a.at \in {"acting", "unwinding"})
   OBVIOUS
 <2>1. s # 0
   BY DEF Shares
 <2>2. CASE s = agent.turn
  <3>1. share'[s] = [share[s] EXCEPT !.active = k]
    BY <1>1, <2>2
  <3>2. k = 1 <=> s = a.turn /\ a.at \in {"acting", "unwinding"}
    BY <2>1, <2>2
  <3>3. QED
    BY <3>1, <3>2
 <2>3. CASE s # agent.turn
  <3>1. share'[s] = share[s] /\ s # a.turn
    BY <1>1, <2>1, <2>3
  <3>2. share[s].active \in 0..1 /\ (share[s].active = 1 <=> Acts(s))
    BY FieldsOfShare, LiveFacts DEF LiveInv, Turned
  <3>3. share[s].active = 0
    BY <2>3, <3>2 DEF Acts
  <3>4. share'[s] = [share[s] EXCEPT !.active = 0]
    BY <3>1, <3>3, SameActive
  <3>5. QED
    BY <3>1, <3>4
 <2>4. QED
   BY <2>2, <2>3
<1>3. agent.turn # 0 => agent.turn \in Shares /\ share[agent.turn].live
  BY DEF LiveInv, LiveTypes, AgentType, Shares, Turned
<1>4. \A s \in Shares : share'[s] = share[s] \/ share[s].live
  BY <1>1, <1>3 DEF Shares
<1>5. a.turn # 0 => share[a.turn].live
  BY <1>3
<1>6. commands' \in 0..MaxCommands
  BY DEF LiveInv, LiveTypes
<1>7. QED
  BY <1>1, <1>2, <1>4, <1>5, <1>6, AgentStep

LEMMA AgentFields ==
    ASSUME LiveInv, ShareAssumption
    PROVE  /\ agent \in AgentType /\ NoCommand \in AgentType
           /\ \A z \in {"idle", "waits", "acting", "yielded", "unwinding", "settling", "starting"} :
                 [agent EXCEPT !.at = z] \in AgentType /\ [agent EXCEPT !.at = z].at = z
                 /\ [agent EXCEPT !.at = z].turn = agent.turn
           /\ agent.turn # 0 => /\ agent.turn \in Shares /\ share[agent.turn].active \in 0..1
                                /\ (share[agent.turn].active = 1 <=> agent.at \in {"acting", "unwinding"})
<1>1. agent \in AgentType
  BY DEF LiveInv, LiveTypes
<1>2. NoCommand \in AgentType
  BY DEF NoCommand, AgentType, ShareAssumption
<1>3. \A z \in {"idle", "waits", "acting", "yielded", "unwinding", "settling", "starting"} :
         [agent EXCEPT !.at = z] \in AgentType /\ [agent EXCEPT !.at = z].at = z
         /\ [agent EXCEPT !.at = z].turn = agent.turn
  BY <1>1 DEF AgentType
<1>4. ASSUME agent.turn # 0
      PROVE  /\ agent.turn \in Shares /\ share[agent.turn].active \in 0..1
             /\ (share[agent.turn].active = 1 <=> agent.at \in {"acting", "unwinding"})
 <2>1. agent.turn \in Shares
   BY <1>1, <1>4 DEF AgentType, Shares
 <2>2. share[agent.turn].active \in 0..1
   BY <2>1, LiveFacts, FieldsOfShare
 <2>3. QED
   BY <2>1, <2>2 DEF LiveInv, Turned, Acts
<1>5. QED
  BY <1>1, <1>2, <1>3, <1>4

AgentFrame == UNCHANGED <<current, seat, tunnel, finish, shut, page, dialog, reply, inputs, commands, moves>>

LEMMA CommandSafe ==
    ASSUME LiveInv, ShareAssumption, NEW k \in {"act", "drive"}, Command(k)
    PROVE  LiveInv' /\ Shown
<1> DEFINE a == [does |-> k, turn |-> current, at |-> IF current = 0 THEN "acting" ELSE "waits"]
<1>1. /\ agent.at = "idle" /\ ~shut /\ commands < MaxCommands /\ commands' = commands + 1 /\ agent' = a
      /\ UNCHANGED <<share, seat, current, tunnel, finish, shut, page, dialog, reply, inputs, moves>>
  BY DEF Command, Begins, endVars, browserVars
<1>2. a \in AgentType /\ a.turn = current /\ (a.at = IF current = 0 THEN "acting" ELSE "waits")
  BY DEF AgentType, LiveInv, LiveTypes
<1> HIDE DEF a
<1>3. commands' \in 0..MaxCommands /\ share' \in [Shares -> ShareType]
  BY <1>1 DEF LiveInv, LiveTypes, ShareAssumption
<1>4. \A s \in Shares : \E j \in 0..1 :
         share'[s] = [share[s] EXCEPT !.active = j] /\ (j = 1 <=> s = a.turn /\ a.at \in {"acting", "unwinding"})
 <2> SUFFICES ASSUME NEW s \in Shares
              PROVE  /\ share'[s] = [share[s] EXCEPT !.active = 0]
                     /\ ~(s = a.turn /\ a.at \in {"acting", "unwinding"})
   OBVIOUS
 <2>1. share[s].active \in 0..1 /\ (share[s].active = 1 <=> Acts(s))
   BY FieldsOfShare, LiveFacts DEF LiveInv, Turned
 <2>2. share[s].active = 0
   BY <1>1, <2>1 DEF Acts
 <2>3. share'[s] = [share[s] EXCEPT !.active = 0]
   BY <1>1, <2>2, SameActive
 <2>4. QED
   BY <1>2, <2>3 DEF Shares
<1>5. a.turn # 0 => share[a.turn].live
  BY <1>2 DEF LiveInv, Alone
<1>6. a.at = "acting" => \A s \in Shares : share[s].head # "sending"
  BY <1>1, <1>2, NothingSent
<1>7. /\ a.at # "idle" /\ ~shut => current = a.turn
      /\ a.at \in {"waits", "yielded"} => a.turn # 0
      /\ a.at \notin {"settling", "starting"}
  BY <1>2
<1>8. \A s \in Shares : share'[s] = share[s] \/ share[s].live
  BY <1>1
<1>9. QED
  BY <1>1, <1>2, <1>3, <1>4, <1>5, <1>6, <1>7, <1>8, AgentStep

(* Nothing changes of the shares, and the agent is done. *)
LEMMA AgentDrops ==
    ASSUME LiveInv, ShareAssumption, agent.at \notin {"acting", "unwinding"}, agent' = NoCommand,
           UNCHANGED share, AgentFrame
    PROVE  LiveInv' /\ Shown
<1>1. \A s \in Shares : \E j \in 0..1 :
         share'[s] = [share[s] EXCEPT !.active = j]
         /\ (j = 1 <=> s = NoCommand.turn /\ NoCommand.at \in {"acting", "unwinding"})
 <2> SUFFICES ASSUME NEW s \in Shares PROVE share'[s] = [share[s] EXCEPT !.active = 0]
   BY DEF NoCommand
 <2>1. share[s].active \in 0..1 /\ (share[s].active = 1 <=> Acts(s))
   BY FieldsOfShare, LiveFacts DEF LiveInv, Turned
 <2>2. share[s].active = 0
   BY <2>1 DEF Acts
 <2>3. QED
   BY <2>2, SameActive
<1>2. NoCommand \in AgentType /\ NoCommand.at = "idle" /\ NoCommand.turn = 0
  BY AgentFields DEF NoCommand
<1>3. share' \in [Shares -> ShareType] /\ commands' \in 0..MaxCommands /\ AgentFrame
  BY DEF LiveInv, LiveTypes, AgentFrame
<1> HIDE DEF NoCommand
<1>4. QED
  BY <1>1, <1>2, <1>3, AgentStep DEF AgentFrame

LEMMA TurnSafe ==
    ASSUME LiveInv, ShareAssumption, TakesTurn
    PROVE  LiveInv' /\ Shown
<1>1. agent.at = "waits" /\ ~share[agent.turn].wanted /\ agent.turn # 0 /\ AgentFrame
  BY DEF TakesTurn, AgentFrame, LiveInv, Turned, endVars, browserVars, counters
<1>2. CASE shut
  BY <1>1, <1>2, AgentDrops DEF TakesTurn
<1>3. CASE ~shut
 <2>1. current = agent.turn
   BY <1>1, <1>3 DEF LiveInv, Turned
 <2>2. \A s \in Shares : share[s].head # "sending"
   BY <1>1, <1>3, <2>1, NothingSent
 <2> DEFINE a == [agent EXCEPT !.at = "acting"]
 <2>3. a \in AgentType /\ a.at = "acting" /\ a.turn = agent.turn
   BY AgentFields
 <2>4. Turns(1) /\ agent' = a
   BY <1>3 DEF TakesTurn
 <2>5. share[agent.turn].active + 1 = 1
   BY <1>1, AgentFields
 <2> HIDE DEF a
 <2>6. QED
   BY <1>1, <2>1, <2>2, <2>3, <2>4, <2>5, AgentTurns DEF AgentFrame
<1>4. QED
  BY <1>2, <1>3

LEMMA YieldSafe ==
    ASSUME LiveInv, ShareAssumption, Yields
    PROVE  LiveInv' /\ Shown
<1> DEFINE a == [agent EXCEPT !.at = "yielded"]
<1>1. agent.at = "acting" /\ current # 0 /\ AgentFrame /\ Turns(0 - 1) /\ agent' = a
  BY DEF Yields, AgentFrame, endVars, browserVars, counters
<1>2. a \in AgentType /\ a.at = "yielded" /\ a.turn = agent.turn
  BY AgentFields
<1>3. ~shut /\ current = agent.turn /\ agent.turn # 0
  BY <1>1 DEF LiveInv, Turned, Alone
<1>4. share[agent.turn].active + (0 - 1) = 0
  BY <1>1, <1>3, AgentFields
<1> HIDE DEF a
<1>5. QED
  BY <1>1, <1>2, <1>3, <1>4, AgentTurns DEF AgentFrame

LEMMA RetakeSafe ==
    ASSUME LiveInv, ShareAssumption, Retakes
    PROVE  LiveInv' /\ Shown
<1> DEFINE z == IF shut THEN "unwinding" ELSE "acting"
           a == [agent EXCEPT !.at = z]
<1>1. agent.at = "yielded" /\ ~share[agent.turn].wanted /\ agent.turn # 0 /\ AgentFrame /\ Turns(1) /\ agent' = a
  BY DEF Retakes, AgentFrame, LiveInv, Turned, endVars, browserVars, counters
<1>2. a \in AgentType /\ a.at = z /\ a.turn = agent.turn /\ z \in {"unwinding", "acting"} /\ (shut <=> z = "unwinding")
  BY AgentFields DEF LiveInv, LiveTypes
<1>3. share[agent.turn].active + 1 = 1
  BY <1>1, AgentFields
<1>4. ~shut => current = agent.turn
  BY <1>1 DEF LiveInv, Turned
<1>5. z = "acting" => \A s \in Shares : share[s].head # "sending"
  BY <1>1, <1>2, <1>4, NothingSent
<1> HIDE DEF a, z
<1>6. QED
  BY <1>1, <1>2, <1>3, <1>4, <1>5, AgentTurns DEF AgentFrame

LEMMA AbortSafe ==
    ASSUME LiveInv, ShareAssumption, CommandAborted
    PROVE  LiveInv' /\ Shown
<1>1. AgentFrame
  BY DEF CommandAborted, AgentFrame, endVars, browserVars, counters
<1>2. CASE agent.at = "waits" /\ agent' = NoCommand /\ UNCHANGED share
  BY <1>1, <1>2, AgentDrops
<1>3. CASE agent.at = "yielded" /\ agent' = [agent EXCEPT !.at = "unwinding"] /\ Turns(1)
 <2> DEFINE a == [agent EXCEPT !.at = "unwinding"]
 <2>1. a \in AgentType /\ a.at = "unwinding" /\ a.turn = agent.turn
   BY AgentFields
 <2>2. agent.turn # 0 /\ (~shut => current = agent.turn)
   BY <1>3 DEF LiveInv, Turned
 <2>3. share[agent.turn].active + 1 = 1
   BY <1>3, <2>2, AgentFields
 <2>4. agent' = a /\ Turns(1)
   BY <1>3
 <2> HIDE DEF a
 <2>5. QED
   BY <1>1, <2>1, <2>2, <2>3, <2>4, AgentTurns DEF AgentFrame
<1>4. QED
  BY <1>2, <1>3 DEF CommandAborted

LEMMA EndSafe ==
    ASSUME LiveInv, ShareAssumption, CommandEnds
    PROVE  LiveInv' /\ Shown
<1>1. agent.at \in {"acting", "unwinding"} /\ agent' = NoCommand /\ Turns(0 - 1) /\ AgentFrame
  BY DEF CommandEnds, AgentFrame, endVars, browserVars, counters
<1>2. agent.turn # 0 => share[agent.turn].active + (0 - 1) = 0
  BY <1>1, AgentFields
<1>3. NoCommand \in AgentType /\ NoCommand.at = "idle" /\ NoCommand.turn = 0
  BY AgentFields DEF NoCommand
<1> HIDE DEF NoCommand
<1>4. QED
  BY <1>1, <1>2, <1>3, AgentTurns DEF AgentFrame

(* ----- a share stops, is made, and is published ----- *)
LEMMA StopStep ==
    ASSUME LiveInv, ShareAssumption, NEW s \in Shares, share[s].live, Sets(s, Stopped(s)), seat' = Unseated(s),
           NEW a \in AgentType, agent' = a, NEW c \in 0..MaxShares, current' = c, NEW h \in BOOLEAN, shut' = h,
           tunnel' \in BOOLEAN, finish' \in {"idle", "draining", "preparing", "done"}, finish' # "idle" <=> h,
           UNCHANGED <<page, dialog, reply, inputs, moves>>, commands' \in 0..MaxCommands,
           c # 0 => share[c].live, h => c = 0,
           \A r \in Shares : share[r].live => share[r].expired \/ r = c \/ r = s,
           ~h => \A r \in Shares : r # c => share[r].tail = <<>> /\ (r = s => \A v \in Viewers : seat[v] # s),
           a = agent \/ (agent.at \notin {"acting", "unwinding"} /\ a.at \notin {"acting", "unwinding"}),
           a.at # "idle" /\ ~h => c = a.turn,
           a.at \in {"waits", "yielded", "starting"} => a.turn # 0,
           a.turn # 0 => share[a.turn].live,
           a.at = "settling" /\ a.turn # 0 => share[a.turn].expired \/ a.turn = s,
           a.at = "starting" => ~share[a.turn].published
    PROVE  LiveInv' /\ Shown
<1> DEFINE x == Stopped(s)
<1>1. /\ x \in ShareType /\ x.live = share[s].live /\ x.published = share[s].published /\ x.active = share[s].active
      /\ x.expired /\ SameHands(x, share[s]) /\ x.head = share[s].head
      /\ x.page = share[s].page /\ x.cdp \in {"none", share[s].cdp}
      /\ (share[s].tail # <<>> => x.tail # <<>> /\ x.tail[1] = share[s].tail[1])
      /\ ((\A v \in Viewers : seat[v] # s) => x.tail = share[s].tail)
      /\ \A v \in Viewers : Leaving(share[s].tail, v) => Leaving(x.tail, v)
      /\ \A v \in Viewers : seat[v] = s /\ seat'[v] # s => Leaving(x.tail, v)
 <2>1. share[s].live = TRUE
   BY LiveFacts, FieldsOfShare
 <2>2. QED
   BY <2>1, StoppedIs
<1>2. /\ share' \in [Shares -> ShareType] /\ share'[s] = x
      /\ \A r \in Shares : r # s => share'[r] = share[r]
  BY <1>1, OneSet DEF LiveInv
<1> HIDE DEF x
<1>3. /\ seat' \in [Viewers -> -1..MaxShares]
      /\ \A v \in Viewers : seat'[v] = IF seat[v] = s /\ ~share[s].expired THEN -1 ELSE seat[v]
  BY DEF Unseated, LiveInv, LiveTypes, ShareAssumption
<1>4. LiveTypes'
  BY <1>2, <1>3 DEF LiveInv, LiveTypes
<1>5. \A r \in Shares : /\ share'[r].live = share[r].live /\ share'[r].published = share[r].published
                        /\ share'[r].active = share[r].active /\ share'[r].head = share[r].head
                        /\ (r # s => share'[r].expired = share[r].expired) /\ share'[s].expired
  BY <1>1, <1>2
<1>6. \A v \in Viewers : seat[v] = s => ~share[s].expired /\ share[s].published
  BY DEF LiveInv, Seated, Serves, Shares
<1>7. (\A r \in Shares : Sound(share[r]) /\ Present(share[r], r, seat))'
 <2> SUFFICES ASSUME NEW r \in Shares PROVE Sound(share'[r]) /\ Present(share'[r], r, seat')
   BY DEF Present
 <2>1. /\ Sound(share[r]) /\ Present(share[r], r, seat) /\ (share[r].wanted <=> share[r].owner # "none")
       /\ share[r].owner \in Viewers \cup {"none"}
   BY LiveFacts, FieldsOfShare DEF Sound
 <2>2. CASE r = s
  <3>1. ~x.published => x.tail = <<>> /\ x.owner = "none"
    BY <1>1, <1>6, <2>1, <2>2 DEF Sound, SameHands
  <3>2. Sound(x)
    BY <1>1, <2>1, <2>2, <3>1 DEF Sound, SameHands
  <3>3. Present(x, s, seat')
    BY <1>1, <2>1, <2>2 DEF Present, SameHands
  <3>4. QED
    BY <1>2, <2>2, <3>2, <3>3
 <2>3. CASE r # s
  <3>1. share[r].wanted /\ seat[share[r].owner] = r => seat'[share[r].owner] = r
    BY <1>3, <2>1, <2>3
  <3>2. QED
    BY <1>2, <2>1, <2>3, <3>1 DEF Present
 <2>4. QED
   BY <2>2, <2>3
<1>8. Seated' /\ Numbered'
 <2>1. ASSUME NEW v \in Viewers, seat'[v] > 0 PROVE Serves(share'[seat'[v]])
  <3>1. seat'[v] = seat[v] /\ seat[v] # s /\ seat[v] \in Shares /\ Serves(share[seat[v]])
    BY <1>3, <1>6, <2>1 DEF LiveInv, LiveTypes, Seated, Shares, ShareAssumption
  <3>2. QED
    BY <1>2, <3>1
 <2>2. Numbered'
   BY <1>5 DEF LiveInv, Numbered
 <2>3. QED
   BY <2>1, <2>2 DEF Seated, Serves
<1>9. Alone'
 <2>1. c # 0 => share'[c].live
   BY <1>5 DEF Shares
 <2>2. \A r \in Shares : share'[r].live => share'[r].expired \/ r = c
   BY <1>5
 <2>3. ASSUME ~h, NEW r \in Shares, r # c PROVE share'[r].tail = <<>>
   BY <1>1, <1>2, <2>3
 <2>4. QED
   BY <2>1, <2>2, <2>3 DEF Alone
<1>10. Turned'
 <2>1. a.turn \in 0..MaxShares /\ (a.turn # 0 => a.turn \in Shares)
   BY DEF AgentType, Shares
 <2>2. \A r \in Shares : share'[r].active = 1 <=> r = a.turn /\ a.at \in {"acting", "unwinding"}
   BY <1>5 DEF LiveInv, Turned, Acts
 <2>3. a.turn # 0 => share'[a.turn].live
   BY <1>5, <2>1
 <2>4. a.at = "settling" /\ a.turn # 0 => share'[a.turn].expired
   BY <1>5, <2>1
 <2>5. a.at = "starting" => ~share'[a.turn].published
   BY <1>5, <2>1
 <2>6. QED
   BY <2>2, <2>3, <2>4, <2>5 DEF Turned, Acts
<1>11. Apart' /\ Shown
  BY <1>5 DEF LiveInv, Apart, Shown
<1>12. QED
  BY <1>4, <1>7, <1>8, <1>9, <1>10, <1>11 DEF LiveInv

(* operate_share begins: a share whose route is dead stops. *)
LEMMA ShareSafe ==
    ASSUME LiveInv, ShareAssumption, Share
    PROVE  LiveInv' /\ Shown
<1>1. /\ agent.at = "idle" /\ ~shut /\ commands < MaxCommands /\ commands' = commands + 1
      /\ UNCHANGED <<current, tunnel, finish, shut, page, dialog, reply, inputs, moves>>
  BY DEF Share, Begins, endVars, browserVars
<1>2. commands' \in 0..MaxCommands
  BY <1>1 DEF LiveInv, LiveTypes, ShareAssumption
<1>3. /\ \A s \in Shares : ~Acts(s)
      /\ current \in 0..MaxShares /\ (current # 0 => current \in Shares /\ share[current].live)
      /\ finish \in {"idle", "draining", "preparing", "done"} /\ tunnel \in BOOLEAN /\ (finish # "idle" <=> shut)
  BY <1>1 DEF Acts, LiveInv, LiveTypes, Shares, Alone, Turned
<1>4. CASE Renewed
 <2>1. agent' = NoCommand /\ UNCHANGED <<share, seat>>
   BY <1>4 DEF Share
 <2>2. \A s \in Shares : \E j \in 0..1 :
          share'[s] = [share[s] EXCEPT !.active = j]
          /\ (j = 1 <=> s = NoCommand.turn /\ NoCommand.at \in {"acting", "unwinding"})
  <3> SUFFICES ASSUME NEW s \in Shares PROVE share'[s] = [share[s] EXCEPT !.active = 0]
    BY DEF NoCommand
  <3>1. share[s].active = 0
    BY <1>3, FieldsOfShare, LiveFacts DEF LiveInv, Turned
  <3>2. QED
    BY <2>1, <3>1, SameActive
 <2>3. NoCommand \in AgentType /\ NoCommand.at = "idle" /\ NoCommand.turn = 0
   BY AgentFields DEF NoCommand
 <2>4. share' \in [Shares -> ShareType]
   BY <2>1 DEF LiveInv, LiveTypes
 <2> HIDE DEF NoCommand
 <2>5. QED
   BY <1>1, <1>2, <2>1, <2>2, <2>3, <2>4, AgentStep
<1>5. CASE ~Renewed
 <2> DEFINE a == [does |-> "share", turn |-> current, at |-> "settling"]
 <2>1. a \in AgentType /\ a.at = "settling" /\ a.turn = current /\ agent' = a
   BY <1>3, <1>5 DEF AgentType, Share
 <2> HIDE DEF a
 <2>2. CASE current # 0
  <3>1. Sets(current, Stopped(current)) /\ seat' = Unseated(current)
    BY <1>5, <2>2 DEF Share
  <3>2. \A r \in Shares : share[r].live => share[r].expired \/ r = current
    BY DEF LiveInv, Alone
  <3>3. ~shut => \A r \in Shares : r # current => share[r].tail = <<>>
    BY DEF LiveInv, Alone
  <3>4. QED
    BY <1>1, <1>2, <1>3, <2>1, <2>2, <3>1, <3>2, <3>3, StopStep DEF LiveInv, LiveTypes
 <2>3. CASE current = 0
  <3>1. UNCHANGED <<share, seat>>
    BY <1>5, <2>3 DEF Share
  <3>2. LiveTypes'
    BY <1>1, <1>2, <2>1, <3>1 DEF LiveInv, LiveTypes
  <3>3. (\A s \in Shares : Sound(share[s]) /\ Present(share[s], s, seat))'
    BY <3>1 DEF LiveInv, Present, Sound
  <3>4. Seated' /\ Numbered' /\ Alone'
    BY <1>1, <3>1 DEF LiveInv, Seated, Serves, Numbered, Alone
  <3>5. Apart' /\ Shown
    BY <2>1, <3>1 DEF LiveInv, Apart, Shown
  <3>6. Turned'
    BY <1>1, <1>3, <2>1, <2>3, <3>1 DEF LiveInv, Turned, Acts
  <3>7. QED
    BY <3>2, <3>3, <3>4, <3>5, <3>6 DEF LiveInv
 <2>4. QED
   BY <2>2, <2>3
<1>6. QED
  BY <1>4, <1>5

LEMMA ReplacedSafe ==
    ASSUME LiveInv, ShareAssumption, GatewayReplaced
    PROVE  LiveInv' /\ Shown
<1>1. /\ current # 0 /\ Sets(current, Stopped(current)) /\ seat' = Unseated(current) /\ tunnel' = TRUE
      /\ UNCHANGED <<current, agent, finish, shut, page, dialog, reply, inputs, commands, moves>>
  BY DEF GatewayReplaced, endVars, browserVars, counters
<1>2. /\ current \in Shares /\ share[current].live /\ agent \in AgentType /\ current \in 0..MaxShares
      /\ shut \in BOOLEAN /\ finish \in {"idle", "draining", "preparing", "done"} /\ commands \in 0..MaxCommands
  BY <1>1 DEF LiveInv, LiveTypes, Alone, Shares
<1>3. /\ \A r \in Shares : share[r].live => share[r].expired \/ r = current
      /\ shut => current = 0
      /\ ~shut => \A r \in Shares : r # current => share[r].tail = <<>>
  BY DEF LiveInv, Alone
<1>4. /\ agent.at # "idle" /\ ~shut => current = agent.turn
      /\ agent.at \in {"waits", "yielded", "starting"} => agent.turn # 0
      /\ agent.turn # 0 => share[agent.turn].live
      /\ agent.at = "settling" /\ agent.turn # 0 => share[agent.turn].expired
      /\ agent.at = "starting" => ~share[agent.turn].published
      /\ finish # "idle" <=> shut
  BY DEF LiveInv, Turned
<1>5. QED
  BY <1>1, <1>2, <1>3, <1>4, StopStep

LEMMA FinishSafe ==
    ASSUME LiveInv, ShareAssumption, Finish
    PROVE  LiveInv' /\ Shown
<1>1. /\ finish' = "draining" /\ shut' = TRUE /\ current' = 0
      /\ UNCHANGED <<tunnel, agent, page, dialog, reply, inputs, commands, moves>>
  BY DEF Finish, browserVars, counters
<1>2. /\ agent \in AgentType /\ 0 \in 0..MaxShares /\ tunnel \in BOOLEAN /\ commands \in 0..MaxCommands
      /\ (current # 0 => current \in Shares /\ share[current].live)
  BY DEF LiveInv, LiveTypes, Alone, Shares, ShareAssumption
<1>3. \A r \in Shares : share[r].live => share[r].expired \/ r = current
  BY DEF LiveInv, Alone
<1>4. /\ agent.at \in {"waits", "yielded", "starting"} => agent.turn # 0
      /\ agent.turn # 0 => share[agent.turn].live
      /\ agent.at = "settling" /\ agent.turn # 0 => share[agent.turn].expired
      /\ agent.at = "starting" => ~share[agent.turn].published
  BY DEF LiveInv, Turned
<1>5. CASE current # 0
 <2>1. Sets(current, Stopped(current)) /\ seat' = Unseated(current)
   BY <1>5 DEF Finish
 <2>2. QED
   BY <1>1, <1>2, <1>3, <1>4, <1>5, <2>1, StopStep
<1>6. CASE current = 0
 <2>1. UNCHANGED <<share, seat>>
   BY <1>6 DEF Finish
 <2>2. LiveTypes'
   BY <1>1, <1>2, <2>1 DEF LiveInv, LiveTypes
 <2>3. (\A s \in Shares : Sound(share[s]) /\ Present(share[s], s, seat))'
   BY <2>1 DEF LiveInv, Present, Sound
 <2>4. Seated' /\ Numbered' /\ Alone'
   BY <1>1, <1>3, <1>6, <2>1 DEF LiveInv, Seated, Serves, Numbered, Alone, Shares
 <2>5. Apart' /\ Shown
   BY <1>1, <2>1 DEF LiveInv, Apart, Shown
 <2>6. Turned'
   BY <1>1, <1>4, <2>1 DEF LiveInv, Turned, Acts
 <2>7. QED
   BY <2>2, <2>3, <2>4, <2>5, <2>6 DEF LiveInv
<1>7. QED
  BY <1>5, <1>6

LEMMA PublishSafe ==
    ASSUME LiveInv, ShareAssumption, Publishes
    PROVE  LiveInv' /\ Shown
<1> DEFINE t == agent.turn
<1>1. /\ agent.at = "starting" /\ agent' = NoCommand
      /\ UNCHANGED <<seat, finish, shut, page, dialog, reply, inputs, commands, moves>>
  BY DEF Publishes, endVars, browserVars, counters
<1>2. /\ t \in Shares /\ share[t].live /\ ~share[t].published /\ (~shut => current = t)
      /\ current \in 0..MaxShares /\ commands \in 0..MaxCommands
  BY <1>1 DEF LiveInv, LiveTypes, Turned, AgentType, Shares
<1>3. \A v \in Viewers : seat[v] # t
  BY <1>2 DEF LiveInv, Seated, Serves, Shares
<1>4. NoCommand \in AgentType /\ NoCommand.at = "idle" /\ NoCommand.turn = 0
  BY AgentFields DEF NoCommand
<1>5. /\ \A r \in Shares : share[r].live => share[r].expired \/ r = current
      /\ current # 0 => share[current].live
      /\ shut => current = 0
      /\ ~shut => \A r \in Shares : r # current => share[r].tail = <<>>
      /\ share[t].tail = <<>> /\ share[t].owner = "none"
  BY <1>2, LiveFacts DEF LiveInv, Alone, Sound
<1>6. CASE /\ Sets(t, Stopped(t)) /\ UNCHANGED tunnel
           /\ current' = IF current = t THEN 0 ELSE current
 <2> DEFINE c == IF current = t THEN 0 ELSE current
 <2>1. Unseated(t) = seat
  <3>1. seat \in [Viewers -> -1..MaxShares]
    BY DEF LiveInv, LiveTypes
  <3>2. QED
    BY <1>3, <3>1 DEF Unseated
 <2>2. c \in 0..MaxShares /\ current' = c /\ (c # 0 => c = current) /\ (c = 0 => current = 0 \/ current = t)
   BY <1>2, <1>6 DEF ShareAssumption, Shares
 <2> HIDE DEF c, NoCommand
 <2>3. /\ tunnel' \in BOOLEAN /\ shut \in BOOLEAN /\ finish \in {"idle", "draining", "preparing", "done"}
       /\ (finish # "idle" <=> shut)
   BY <1>6 DEF LiveInv, LiveTypes, Turned
 <2>4. seat' = Unseated(t)
   BY <1>1, <2>1
 <2>5. /\ \A r \in Shares : share[r].live => share[r].expired \/ r = c \/ r = t
       /\ ~shut => \A r \in Shares : r # c => share[r].tail = <<>> /\ (r = t => \A v \in Viewers : seat[v] # t)
       /\ c # 0 => share[c].live
       /\ shut => c = 0
   BY <1>2, <1>3, <1>5, <2>2 DEF Shares
 <2> HIDE DEF t
 <2>6. agent.at \notin {"acting", "unwinding"} /\ Sets(t, Stopped(t))
   BY <1>1, <1>6
 <2>7. QED
   BY <1>1, <1>2, <1>4, <2>2, <2>3, <2>4, <2>5, <2>6, StopStep
<1>7. CASE /\ ~share[t].expired /\ ~shut /\ tunnel' = TRUE /\ UNCHANGED current
           /\ Sets(t, [share[t] EXCEPT !.published = TRUE])
 <2> DEFINE r == share[t]
            x == [r EXCEPT !.published = TRUE]
 <2>1. r \in ShareType /\ Sound(r) /\ Present(r, t, seat)
   BY <1>2, LiveFacts
 <2>2. /\ x \in ShareType /\ x.live = r.live /\ x.expired = r.expired /\ x.active = r.active /\ x.published
       /\ SameHands(x, r) /\ SameChain(x, r) /\ SameView(x, r)
   BY <2>1 DEF ShareType, SameHands, SameChain, SameView
 <2>3. Sets(t, x)
   BY <1>7
 <2> HIDE DEF x
 <2>4. Sound(x) /\ Present(x, t, seat)
   BY <1>2, <2>1, <2>2 DEF Sound, Present, SameHands, SameChain, SameView
 <2>5. /\ share' \in [Shares -> ShareType] /\ share'[t] = x
       /\ \A q \in Shares : q # t => share'[q] = share[q]
   BY <1>2, <2>2, <2>3, OneSet DEF LiveInv
 <2>6. LiveTypes'
   BY <1>1, <1>4, <1>7, <2>5 DEF LiveInv, LiveTypes
 <2>7. (\A s \in Shares : Sound(share[s]) /\ Present(share[s], s, seat))'
   BY <1>1, <2>4, <2>5 DEF LiveInv, Present, Sound
 <2>8. Seated' /\ Numbered'
  <3>1. \A v \in Viewers : seat'[v] > 0 => Serves(share'[seat'[v]])
    BY <1>1, <1>3, <2>5 DEF LiveInv, LiveTypes, Seated, Shares
  <3>2. \A q \in Shares : share'[q].live = share[q].live
    BY <2>2, <2>5
  <3>3. Numbered'
    BY <3>2 DEF LiveInv, Numbered
  <3>4. QED
    BY <3>1, <3>3 DEF Seated, Serves
 <2>9. Alone'
   BY <1>1, <1>2, <1>5, <1>7, <2>2, <2>5 DEF Alone, SameChain, Shares
 <2>10. Turned'
  <3>1. \A q \in Shares : share'[q].active = 1 <=> FALSE
    BY <1>1, <2>2, <2>5 DEF LiveInv, Turned, Acts
  <3>2. finish' # "idle" <=> shut'
    BY <1>1 DEF LiveInv, Turned
  <3>3. QED
    BY <1>1, <1>4, <3>1, <3>2 DEF Turned, Acts
 <2>11. Apart' /\ Shown
   BY <1>1, <1>4, <2>2, <2>5 DEF LiveInv, Apart, Shown, SameChain
 <2>12. QED
   BY <2>6, <2>7, <2>8, <2>9, <2>10, <2>11 DEF LiveInv
<1>8. QED
  BY <1>1, <1>6, <1>7 DEF Publishes

LEMMA MakeSafe ==
    ASSUME LiveInv, ShareAssumption, Makes
    PROVE  LiveInv' /\ Shown
<1>1. agent.at = "settling" /\ Settled
  BY DEF Makes
<1>2. CASE shut
 <2>1. agent' = NoCommand /\ UNCHANGED share
   BY <1>2 DEF Makes
 <2>2. AgentFrame
   BY <1>2 DEF Makes, AgentFrame, endVars, browserVars, counters
 <2>3. QED
   BY <1>1, <2>1, <2>2, AgentDrops DEF AgentFrame
<1>3. CASE ~shut
 <2>1. PICK n \in 0..MaxShares : \A s \in Shares : share[s].live <=> s <= n
   BY DEF LiveInv, Numbered
 <2>2. Made = n
  <3>1. {s \in Shares : share[s].live} = 1..n
    BY <2>1 DEF Shares, ShareAssumption
  <3>2. Cardinality(1..n) = IF 1 > n THEN 0 ELSE n - 1 + 1
    BY FS_Interval, n \in Int
  <3>3. Cardinality(1..n) = n
    BY ONLY n \in 0..MaxShares, <3>2
  <3>4. QED
    BY <3>1, <3>3 DEF Made
 <2> DEFINE m == n + 1
            r == share[m]
            x == [r EXCEPT !.live = TRUE, !.page = page]
            a == [agent EXCEPT !.at = "starting", !.turn = m]
 <2>3. /\ n < MaxShares /\ current' = m /\ Sets(m, x) /\ agent' = a
       /\ UNCHANGED <<seat, tunnel, finish, shut, page, dialog, reply, inputs, commands, moves>>
   BY <1>3, <2>2 DEF Makes, endVars, browserVars, counters
 <2>4. m \in Shares /\ m \in 0..MaxShares /\ ~r.live
   BY <2>1, <2>3 DEF Shares, ShareAssumption
 <2>5. r = Unmade /\ r \in ShareType /\ page \in Tabs
   BY <2>4, LiveFacts DEF Sound
 <2>6. /\ x \in ShareType /\ x.live /\ ~x.expired /\ ~x.published /\ x.owner = "none" /\ ~x.wanted
       /\ x.active = 0 /\ x.tail = <<>> /\ x.head = "queued" /\ x.cdp = "none"
  <3>1. r.expired = FALSE /\ r.published = FALSE /\ r.owner = "none" /\ r.wanted = FALSE
        /\ r.active = 0 /\ r.tail = <<>> /\ r.head = "queued" /\ r.cdp = "none"
    BY <2>5 DEF Unmade
  <3> HIDE DEF r
  <3>2. x \in ShareType
    BY <2>5 DEF ShareType
  <3>3. QED
    BY <2>5, <3>1, <3>2 DEF ShareType
 <2>7. a \in AgentType /\ a.at = "starting" /\ a.turn = m
   BY <2>4 DEF LiveInv, LiveTypes, AgentType
 <2> HIDE DEF x, a, m
 <2>8. /\ share' \in [Shares -> ShareType] /\ share'[m] = x
       /\ \A q \in Shares : q # m => share'[q] = share[q]
   BY <2>3, <2>4, <2>6, OneSet DEF LiveInv
 <2>9. LiveTypes'
   BY <2>3, <2>4, <2>7, <2>8 DEF LiveInv, LiveTypes
 <2>10. Sound(x) /\ Present(x, m, seat)
   BY <2>6 DEF Sound, Present
 <2>11. (\A s \in Shares : Sound(share[s]) /\ Present(share[s], s, seat))'
   BY <2>3, <2>8, <2>10 DEF LiveInv, Present, Sound
 <2>12. Seated' /\ Numbered'
  <3>1. ASSUME NEW v \in Viewers, seat'[v] > 0 PROVE Serves(share'[seat'[v]])
   <4>1. seat[v] \in Shares /\ Serves(share[seat[v]])
     BY <2>3, <3>1, SeatIs
   <4>2. seat[v] # m
     BY <2>4, <4>1 DEF Serves
   <4>3. QED
     BY <2>3, <2>8, <4>1, <4>2
  <3>2. \A q \in Shares : share'[q].live <=> q <= m
    BY <2>1, <2>6, <2>8 DEF Shares, m
  <3>3. Numbered'
    BY <2>4, <3>2 DEF Numbered
  <3>4. QED
    BY <3>1, <3>3 DEF Seated, Serves
 <2>13. /\ current = agent.turn
        /\ agent.turn # 0 => agent.turn \in Shares /\ share[agent.turn].expired /\ share[agent.turn].tail = <<>>
   BY <1>1, <1>3 DEF LiveInv, LiveTypes, AgentType, Turned, Settled, Shares
 <2>14. Alone'
  <3>1. ASSUME NEW q \in Shares, q # m PROVE share'[q].tail = <<>> /\ (share'[q].live => share'[q].expired)
   <4>1. /\ q # current => share[q].tail = <<>>
         /\ share[q].live => share[q].expired \/ q = current
     BY <1>3 DEF LiveInv, Alone
   <4>2. share[q].tail = <<>> /\ (share[q].live => share[q].expired)
     BY <2>13, <4>1 DEF Shares
   <4>3. QED
     BY <2>8, <3>1, <4>2
  <3>2. QED
    BY <1>3, <2>3, <2>6, <2>8, <3>1 DEF Alone
 <2>15. Turned'
  <3>1. \A q \in Shares : share'[q].active = 1 <=> FALSE
    BY <1>1, <2>6, <2>8 DEF LiveInv, Turned, Acts
  <3>2. finish' # "idle" <=> shut'
    BY <2>3 DEF LiveInv, Turned
  <3>3. QED
    BY <2>3, <2>4, <2>6, <2>7, <2>8, <3>1, <3>2 DEF Turned, Acts, Shares
 <2>16. Apart' /\ Shown
   BY <2>3, <2>6, <2>7, <2>8 DEF LiveInv, Apart, Shown
 <2>17. QED
   BY <2>9, <2>11, <2>12, <2>14, <2>15, <2>16 DEF LiveInv
<1>4. QED
  BY <1>2, <1>3

(* ----- the whole ----- *)
LEMMA LiveStarts ==
    ASSUME ShareAssumption, ShareInit
    PROVE  LiveInv
<1>1. share = [s \in Shares |-> Unmade] /\ Unmade \in ShareType
  BY DEF ShareInit, Unmade, ShareType, Heads
<1>2. NoCommand \in AgentType /\ NoCommand.at = "idle" /\ NoCommand.turn = 0
  BY DEF NoCommand, AgentType, ShareAssumption
<1>3. Sound(Unmade) /\ ~Unmade.live /\ ~Unmade.wanted /\ Unmade.tail = <<>> /\ Unmade.active = 0 /\ Unmade.head = "queued"
  BY DEF Sound, Unmade
<1>4. LiveTypes
 <2>1. share \in [Shares -> ShareType]
   BY <1>1
 <2>2. 0 \in 0..MaxShares /\ 0 \in -1..MaxShares /\ 0 \in 0..MaxInputs /\ 0 \in 0..MaxCommands /\ 0 \in 0..MaxMoves
   BY DEF ShareAssumption
 <2>3. agent \in AgentType
   BY <1>2 DEF ShareInit
 <2>4. QED
   BY <2>1, <2>2, <2>3 DEF ShareInit, LiveTypes
<1>5. \A s \in Shares : Sound(share[s]) /\ Present(share[s], s, seat)
  BY <1>1, <1>3 DEF Present
<1>6. Seated /\ Alone /\ Apart
  BY <1>1, <1>3 DEF ShareInit, Seated, Alone, Apart
<1>7. Numbered
  BY <1>1, <1>3, 0 \in 0..MaxShares DEF Numbered, Shares, ShareAssumption
<1>8. Turned
  BY <1>1, <1>2, <1>3 DEF ShareInit, Turned, Acts, Shares
<1>9. QED
  BY <1>4, <1>5, <1>6, <1>7, <1>8 DEF LiveInv

LEMMA LiveStep ==
    ASSUME ShareAssumption, ~MayFail, LiveInv, [ShareNext]_shareVars
    PROVE  LiveInv' /\ Shown
<1>1. CASE \E v \in Viewers : ConnectViewer(v) \/ Send(v) \/ Leave(v) \/ Reply(v) \/ ReplySteps(v)
  BY <1>1, ConnectSafe, SendSafe, LeaveSafe, ReplySafe, ResumesReply, BesideSteps DEF ReplySteps
<1>2. CASE \E s \in Shares : ShareSteps(s) \/ HumanMoves(s) \/ Poll(s)
  BY <1>2, HandleSafe, ResumeSafe, SentSafe, ReleaseSafe, StreamSafe, HumanSafe, PollSafe DEF ShareSteps
<1>3. CASE \E k \in {"act", "drive"} : Command(k)
  BY <1>3, CommandSafe
<1>4. CASE Share \/ AgentSteps
  BY <1>4, ShareSafe, TurnSafe, RetakeSafe, YieldSafe, MakeSafe, PublishSafe DEF AgentSteps
<1>5. CASE CommandAborted \/ CommandEnds \/ GatewayReplaced \/ Finish
  BY <1>5, AbortSafe, EndSafe, ReplacedSafe, FinishSafe
<1>6. CASE DialogExpires \/ TunnelDies \/ Drained \/ Prepared \/ AgentMoves \/ UNCHANGED shareVars
  BY <1>6, BesideSteps
<1>7. QED
  BY <1>1, <1>2, <1>3, <1>4, <1>5, <1>6 DEF ShareNext

LEMMA LiveMeans ==
    ASSUME ShareAssumption, LiveInv
    PROVE  ShareTypeOK /\ HandsApart /\ NobodyGoneHolds
<1>1. ShareTypeOK
 <2>1. agent.does \in {"none", "act", "drive", "share"} /\ agent.turn \in 0..MaxShares
       /\ agent.at \in {"idle", "waits", "acting", "yielded", "unwinding", "settling", "starting"}
   BY DEF LiveInv, LiveTypes, AgentType
 <2>2. share \in [Shares -> ShareType]
   BY DEF LiveInv, LiveTypes
 <2>3. QED
   BY <2>1, <2>2 DEF LiveInv, LiveTypes, ShareTypeOK, ShareType, Heads
<1>2. HandsApart
 <2> DEFINE S == {s \in Shares : share[s].head = "sending"}
 <2>1. CASE S = {}
   BY <2>1, FS_EmptySet DEF HandsApart
 <2>2. CASE S # {}
  <3>1. PICK s \in Shares : share[s].head = "sending"
    BY <2>2
  <3>2. S = {s} /\ agent.at # "acting"
    BY <3>1 DEF LiveInv, Apart
  <3>3. Cardinality(S) = 1
    BY <3>2, FS_Singleton
  <3>4. QED
    BY <3>2, <3>3 DEF HandsApart
 <2>3. QED
   BY <2>1, <2>2
<1>3. NobodyGoneHolds
 <2> SUFFICES ASSUME NEW s \in Shares
              PROVE  /\ share[s].wanted <=> share[s].owner # "none"
                     /\ share[s].wanted =>
                           \/ seat[share[s].owner] = s
                           \/ [by |-> share[s].owner, does |-> "release"] \in ToSet(share[s].tail)
   BY DEF NobodyGoneHolds
 <2>1. Sound(share[s]) /\ Present(share[s], s, seat) /\ share[s].tail \in Seq(Items)
   BY LiveFacts
 <2>2. Leaving(share[s].tail, share[s].owner) => [by |-> share[s].owner, does |-> "release"] \in ToSet(share[s].tail)
   BY <2>1 DEF Leaving, ToSet
 <2>3. QED
   BY <2>1, <2>2 DEF Sound, Present
<1>4. QED
  BY <1>1, <1>2, <1>3

(* Whatever viewers, the agent and a finish do, an input and an act of the    *)
(* agent are never under way together, a viewer who left holds no turn that   *)
(* its departure does not end, and an input goes to the page that was shown.  *)
THEOREM LiveShareIsSafe ==
    ASSUME ShareAssumption, ~MayFail
    PROVE  ShareSpec => [](ShareTypeOK /\ HandsApart /\ NobodyGoneHolds) /\ PressesShown
<1>1. ShareInit => LiveInv
  BY LiveStarts
<1>2. LiveInv /\ [ShareNext]_shareVars => LiveInv'
  BY LiveStep
<1>3. LiveInv => ShareTypeOK /\ HandsApart /\ NobodyGoneHolds
  BY LiveMeans
<1>4. LiveInv /\ [ShareNext]_shareVars =>
        [\A s \in Shares : (share'[s].head = "sending" /\ share[s].head # "sending")
            => share'[s].cdp = page]_shareVars
  BY LiveStep DEF Shown
<1>5. QED
  BY <1>1, <1>2, <1>3, <1>4, PTL DEF ShareSpec, PressesShown

(* What the commands, the start and the closers of a session know of its      *)
(* queue, its leases and its tabs holds in every reachable state.             *)
THEOREM SessionIsSound == SessionSpec => []SessionInv
<1>1. SessionInit => SessionInv
  BY SessionStartsSound
<1>2. SessionInv /\ [SessionNext]_sessionVars => SessionInv'
  BY SessionStep
<1>3. QED
  BY <1>1, <1>2, PTL DEF SessionSpec

(* One command of a session runs at a time and its tabs close when none does, *)
(* a finish is told of a closure that happened, and in its live share human   *)
(* and agent do not act together, who left holds no turn, and an input goes   *)
(* to the page its viewer was shown; where no finish fails to be prepared.    *)
THEOREM SessionsAreSafe ==
    SessionsAssumption /\ ShareAssumption /\ ~MayFail => (OperatorSpec => SessionsSafe)
<1> SUFFICES ASSUME ShareAssumption, ~MayFail PROVE OperatorSpec => SessionsSafe
  OBVIOUS
<1>1. SessionInv => SessionTypeOK /\ OneAtATime /\ TabsCloseIdle /\ ToldIsClosed
  BY SessionMeans
<1>2. SessionSpec => []SessionInv
  BY SessionIsSound
<1>3. ShareSpec => [](ShareTypeOK /\ HandsApart /\ NobodyGoneHolds) /\ PressesShown
  BY LiveShareIsSafe
<1>4. QED
  BY <1>1, <1>2, <1>3, PTL DEF OperatorSpec, SessionsSafe
=============================================================================
