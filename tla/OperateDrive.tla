---------------------------- MODULE OperateDrive ----------------------------
(***************************************************************************)
(* One operate_drive call after another on one browser session: the loop    *)
(* of apps/mcp/src/bot/operate-drive.ts that snapshots the page, acts by    *)
(* itself where the page leaves no choice, asks the model (Jev) where it    *)
(* does, and stops with a status.                                           *)
(*                                                                          *)
(* A page stands for everything the loop compares two observations by: the  *)
(* progress fingerprint, the progress key and the control digest.  The      *)
(* kind of a page is the first branch of the loop that applies to it.  The  *)
(* page changes by itself between any two awaits (MaxDrift times), and in   *)
(* any way when it is acted on.  The site stays the same.  The loop's two   *)
(* reasons to go on over a dead end (an unvisited section, a pending        *)
(* control it never tried) are one: Escape.                                 *)
(***************************************************************************)
EXTENDS Naturals, Sequences, FiniteSets, SequencesExt

CONSTANTS
    Sites,        \* sites a session may be on: their pages, the controls (keys) the
                  \* model may choose, those of them that lead to another section of
                  \* the site or submit, and the branch of the loop each page takes
    MaxSteps,     \* max_steps
    MaxJev,       \* DRIVE_MAX_JEV_CALLS
    StaleLimit,   \* DRIVE_STALE_LIMIT
    DeadLimit,    \* DRIVE_EXHAUSTED_ACTION_LIMIT
    OcclusionLimit, \* DRIVE_OCCLUSION_RETRY_LIMIT
    Seconds,      \* max_seconds, in ticks
    MaxDrift,     \* bound: changes the page makes by itself
    MaxDrives     \* bound: drive calls on the session

Kinds == {"plain", "fill", "gate", "busy", "checkbox", "checkout", "wallet",
          "loading", "dialog", "missing"}

DriveConstants ==
    /\ \A s \in Sites :
          /\ s.kind \in [s.pages -> Kinds]
          /\ s.sections \subseteq s.keys /\ s.submits \subseteq s.keys /\ s.keys # {}
    /\ {MaxSteps, MaxJev, StaleLimit, DeadLimit, OcclusionLimit, Seconds} \subseteq Nat \ {0}
    /\ {MaxDrift, MaxDrives} \subseteq Nat

VARIABLES
    site,     \* the site the session is on
    pageNow,  \* the page as it is now
    drift,    \* how often it has changed by itself
    drive,    \* session.drive: what one call leaves to the next
    loop,     \* the locals of driveLoop
    trace     \* what happened, for the properties

driveVars == <<site, pageNow, drift, drive, loop, trace>>

Nothing == "none"

(* emptyDriveState *)
EmptyDrive ==
    [jev |-> 0, bound |-> Nothing, consumed |-> Nothing, last |-> Nothing, stale |-> 0,
     deadOn |-> Nothing, dead |-> {}, stall |-> {}, spurned |-> {}, silent |-> {},
     visited |-> {}, dests |-> <<>>, keys |-> <<>>, asked |-> {}, absent |-> FALSE,
     occluded |-> 0, pressed |-> {}, half |-> FALSE, released |-> FALSE,
     submitted |-> FALSE]

Local ==
    [pc |-> "idle", status |-> Nothing, answered |-> FALSE, calls |-> 0, left |-> 0,
     steps |-> 0, acts |-> 0, cJev |-> 0, cActs |-> 0, seen |-> Nothing, refused |-> FALSE,
     rejected |-> FALSE, yield |-> FALSE, attempted |-> {}, waits |-> 0, terminal |-> FALSE,
     inbox |-> FALSE, by |-> Nothing, want |-> Nothing, key |-> Nothing, from |-> Nothing,
     base |-> Nothing]

DriveInit ==
    /\ site \in Sites /\ pageNow \in site.pages /\ drift = 0
    /\ drive = EmptyDrive /\ loop = Local
    /\ trace = [reached |-> {}, fellback |-> {}, owed |-> FALSE, dialogs |-> 0,
                checked |-> Nothing]

-----------------------------------------------------------------------------
(* The memory of the loop, as functions of the drive state.  Mutated forms,  *)
(* named Operator_Fault, precede the operator they distort; nothing refers   *)
(* to them but the mutation runs of PROJECT.json.                            *)

(* resetDriveGoalMemory: what a call for another goal forgets. *)
Forget(d) ==
    [EmptyDrive EXCEPT !.jev = d.jev, !.silent = d.silent, !.absent = d.absent,
                       !.occluded = d.occluded, !.half = d.half, !.released = d.released]

(* nextExploreRow: a section of the site not visited yet. *)
Escape(d) == site.sections \ d.visited # {}

(* recordDestinationAlternation: the last four destinations are a, b, a, b. *)
Alternates(s) ==
    LET n == Len(s) IN
    n >= 4 /\ s[n] = s[n - 2] /\ s[n - 1] = s[n - 3] /\ s[n] # s[n - 1]

(* recordProgressCycle: a progress key noted twice after it had been left. *)
Returns(s, k) ==
    Cardinality({j \in DOMAIN s : s[j] = k /\ \E i \in 1 .. j - 1 : s[i] = k /\ s[i + 1] # k})

(* recordDeadAction and rememberFailedAction, on page p. *)
MarkDead(d, k, p) ==
    [d EXCEPT !.deadOn = p, !.dead = (IF d.deadOn = p THEN @ ELSE {}) \cup {k}]

DeadEnd(d) == Cardinality(d.dead) >= DeadLimit /\ ~ Escape(d)

(* spendStep: an iteration that asked nothing and did nothing is free. *)
Spend(c) ==
    IF drive.jev = c.cJev /\ c.acts = c.cActs THEN c
    ELSE [c EXCEPT !.steps = @ + 1, !.cJev = drive.jev, !.cActs = c.acts]

(* buildHandoff: the call ends with a status. *)
Ended(c, status) == [Local EXCEPT !.calls = c.calls, !.status = status]

GoesTo(c, pc) == [c EXCEPT !.pc = pc]

(* The automatic branches bind the decision to the snapshot they took. *)
Binds(d) == [d EXCEPT !.bound = loop.seen, !.consumed = Nothing]

Decided(by, want, key) ==
    [loop EXCEPT !.pc = "apply", !.by = by, !.want = want, !.key = key, !.from = loop.seen]

Env == <<site, pageNow, drift>>

-----------------------------------------------------------------------------
(* runOperateDrive: the state of an earlier call is kept, and forgotten in   *)
(* part for another goal.  A session runs one call: another is told busy.    *)
BeginDrive(sameGoal, answered) ==
    /\ loop.pc = "idle" /\ loop.calls < MaxDrives
    /\ drive' = LET d == IF sameGoal THEN drive ELSE Forget(drive)
                IN  IF answered THEN [d EXCEPT !.asked = drive.asked] ELSE d
    /\ loop' = [Local EXCEPT !.pc = "first", !.calls = loop.calls + 1, !.left = Seconds,
                             !.answered = answered, !.cJev = drive.jev]
    /\ trace' = [trace EXCEPT !.owed = FALSE]
    /\ UNCHANGED Env

(* driveLoop's head: the first snapshot. *)
First ==
    /\ loop.pc = "first"
    /\ loop' \in {Ended(loop, "evaluate_timeout"),
                  [loop EXCEPT !.pc = IF loop.answered THEN "answer" ELSE "top", !.seen = pageNow]}
    /\ UNCHANGED <<Env, drive, trace>>

(* The caller's answer, read against the fresh page (resolveResumeAnswer,    *)
(* resumeAction): a target, a fixed answer, or nothing the page offers.      *)
ResumeAnswer ==
    /\ loop.pc = "answer"
    /\ drive' = [Binds(drive) EXCEPT !.asked = {}]
    /\ \/ \E k \in site.keys : loop' = Decided("answer", "act", k)
       \/ \E w \in {"complete", "wait", "needs_value", "invalid_answer"} :
            loop' = Decided("answer", w, Nothing)
       \/ loop' = GoesTo([loop EXCEPT !.by = "answer"], "after")
       \/ loop' = Ended(loop, "stuck")
    /\ UNCHANGED <<Env, trace>>

-----------------------------------------------------------------------------
(* One iteration of the loop.                                                *)

(* The step and time budgets are looked at before an iteration, not in it. *)
HasBudget == loop.steps < MaxSteps /\ loop.left > 0

Top(kind) == loop.pc = "top" /\ HasBudget /\ site.kind[loop.seen] = kind

OutOfBudget ==
    /\ loop.pc = "top" /\ ~ HasBudget
    /\ loop' \in {Ended(loop, "budget"), Ended(loop, "stuck")}
    /\ UNCHANGED <<Env, drive, trace>>

(* A native dialog is put to the model, which accepts, dismisses or hands    *)
(* back; this question does not look at the cap.                             *)
Dialog ==
    /\ Top("dialog")
    /\ \/ /\ loop' \in {Ended(loop, "needs_value"), Ended(loop, "jev_unavailable")}
          /\ UNCHANGED <<Env, drive, trace>>
       \/ /\ drive' = [drive EXCEPT !.jev = @ + 1]
          /\ trace' = [trace EXCEPT !.dialogs = @ + 1]
          /\ \/ loop' = Ended(loop, "needs_value") /\ UNCHANGED pageNow
             \/ /\ pageNow' \in site.pages
                /\ loop' = [loop EXCEPT !.steps = @ + 1, !.cJev = drive.jev + 1,
                                        !.cActs = loop.acts, !.seen = pageNow', !.refused = FALSE]
          /\ UNCHANGED <<site, drift>>

(* A page that is not ready is looked at again, without a decision. *)
NotReady ==
    /\ Top("loading")
    /\ loop' \in {Ended(loop, "evaluate_timeout"),
                  Spend([loop EXCEPT !.seen = pageNow, !.refused = FALSE])}
    /\ UNCHANGED <<Env, drive, trace>>

(* The wallet sign-in prompt is dismissed before anything else is decided. *)
Wallet ==
    /\ Top("wallet")
    /\ drive' = Binds(drive)
    /\ loop' = [Decided("wallet", "act", CHOOSE k \in site.keys : TRUE) EXCEPT
                    !.refused = FALSE]
    /\ UNCHANGED <<Env, trace>>

(* Whether this iteration may decide by itself. *)
Automatic_Always == TRUE
Automatic == ~ loop.rejected

ByItself(kind) == Top(kind) /\ Automatic

(* A required field, menu or key the facts fill: once for a snapshot, and    *)
(* not in the iteration after a refused act.                                 *)
FillField ==
    /\ ByItself("fill") /\ ~ loop.yield /\ loop.seen \notin loop.attempted
    /\ drive' = Binds(drive)
    /\ loop' = [Decided("auto", "act", CHOOSE k \in site.keys : TRUE) EXCEPT
                    !.refused = FALSE, !.attempted = @ \cup {loop.seen}]
    /\ UNCHANGED <<Env, trace>>

(* The check of each page for the dead actions of the one before: it stands  *)
(* among the automatic decisions.                                            *)
FreshPage(d) ==
    IF d.deadOn = loop.seen THEN d ELSE [d EXCEPT !.deadOn = loop.seen, !.dead = {}]
Waits == IF drive.deadOn = loop.seen THEN loop.waits ELSE 0

Missing ==
    /\ ByItself("missing")
    /\ loop' = Ended(loop, "needs_value")
    /\ UNCHANGED <<Env, drive, trace>>

(* A checkbox challenge is pressed once for a page. *)
Checkbox ==
    /\ ByItself("checkbox") /\ loop.seen \notin drive.pressed
    /\ pageNow' \in site.pages
    /\ \E found \in BOOLEAN :
        /\ drive' = [FreshPage(drive) EXCEPT !.pressed = @ \cup {loop.seen}]
        /\ LET c == [loop EXCEPT !.acts = IF found THEN @ + 1 ELSE @, !.refused = FALSE]
           IN  loop' \in {Ended(c, "evaluate_timeout"), Spend([c EXCEPT !.seen = pageNow'])}
    /\ UNCHANGED <<site, drift, trace>>

(* A submit in flight, or a gate that is not ready, is waited for; WAIT that *)
(* changed nothing is not repeated.                                          *)
AutoWait ==
    /\ ByItself("busy") \/ ByItself("gate")
    /\ Waits < 1 /\ "WAIT" \notin FreshPage(drive).dead
    /\ drive' = FreshPage(drive)
    /\ loop' = [Decided("auto", "wait", Nothing) EXCEPT !.waits = Waits + 1, !.refused = FALSE]
    /\ UNCHANGED <<Env, trace>>

(* A submit that stays disabled leaves the model the terminal operations. *)
BusyEnds ==
    /\ ByItself("busy") /\ ~ (Waits < 1 /\ "WAIT" \notin FreshPage(drive).dead)
    /\ drive' = FreshPage(drive)
    /\ loop' \in {Ended(loop, "stuck"),
                  GoesTo([loop EXCEPT !.terminal = TRUE, !.refused = FALSE], "ask")}
    /\ UNCHANGED <<Env, trace>>

(* A gate goes to the solver: it opens, works on, or blocks.  An open gate   *)
(* goes round without a step, and its submit is offered again.               *)
Solve ==
    /\ ByItself("gate") /\ ~ (Waits < 1 /\ "WAIT" \notin FreshPage(drive).dead)
    /\ pageNow' \in site.pages
    /\ LET d == FreshPage(drive)
           c == [loop EXCEPT !.refused = FALSE, !.waits = Waits, !.seen = pageNow']
       IN  \/ /\ site.kind[pageNow'] # "gate"
              /\ drive' = [d EXCEPT !.spurned = @ \ site.submits] /\ loop' = c
           \/ /\ site.kind[pageNow'] = "gate" /\ drive' = d
              /\ loop' \in {Ended(c, "stuck"), Ended(c, "budget"), Ended(c, "evaluate_timeout"),
                            Spend(c)}
    /\ UNCHANGED <<site, drift, trace>>

(* The mail is read once, after a submit that may have sent one. *)
AutoInbox ==
    /\ ByItself("plain") /\ drive.submitted /\ ~ loop.inbox
    /\ drive' = FreshPage(drive)
    /\ loop' = [Decided("auto", "inbox", "INBOX") EXCEPT !.inbox = TRUE, !.refused = FALSE]
    /\ UNCHANGED <<Env, trace>>

(* The card is released by itself once, and again while a fill is short. *)
AutoCard ==
    /\ ByItself("checkout") /\ (~ drive.released \/ drive.half)
    /\ drive' = Binds(FreshPage(drive))
    /\ loop' = [Decided("auto", "card", CHOOSE k \in site.keys : TRUE) EXCEPT
                    !.refused = FALSE]
    /\ UNCHANGED <<Env, trace>>

(* A control the page narrowed away: the input that hid it is cleared. *)
RecoverChoice ==
    /\ ByItself("fill") /\ drive.absent /\ (loop.yield \/ loop.seen \in loop.attempted)
    /\ drive' = [Binds(FreshPage(drive)) EXCEPT !.absent = FALSE]
    /\ loop' = [Decided("recover", "act", CHOOSE k \in site.keys : TRUE) EXCEPT
                    !.refused = FALSE, !.yield = FALSE]
    /\ UNCHANGED <<Env, trace>>

(* Nothing to decide by itself: the model is asked. *)
NothingAutomatic ==
    /\ loop.pc = "top" /\ HasBudget
    /\ site.kind[loop.seen] \notin {"dialog", "loading", "wallet"}
    /\ \/ ~ Automatic /\ UNCHANGED drive
       \/ /\ Automatic
          /\ CASE site.kind[loop.seen] = "fill" ->
                    ~ drive.absent /\ (loop.yield \/ loop.seen \in loop.attempted)
               [] site.kind[loop.seen] = "checkbox" -> loop.seen \in drive.pressed
               [] site.kind[loop.seen] = "checkout" -> drive.released /\ ~ drive.half
               [] site.kind[loop.seen] = "plain" -> TRUE
               [] OTHER -> FALSE
          /\ drive' = [FreshPage(drive) EXCEPT !.absent = FALSE]
    /\ loop' = GoesTo([loop EXCEPT !.refused = FALSE, !.terminal = FALSE,
                                 !.waits = IF Automatic THEN Waits ELSE @,
                                 !.yield = IF Automatic THEN FALSE ELSE @], "ask")
    /\ UNCHANGED <<Env, trace>>

-----------------------------------------------------------------------------
(* The model.                                                                *)

(* What is withheld from it: what is dead on its page, and what went stale   *)
(* since the page last changed.                                              *)
Spurned == IF drive.last \notin {Nothing, loop.seen} THEN {} ELSE drive.spurned
Withheld == drive.dead \cup Spurned
Offered == IF loop.terminal THEN {} ELSE site.keys \ Withheld

(* The cap on the questions of a session, and the dead end of a page. *)
Capped == drive.jev >= MaxJev

Ask ==
    /\ loop.pc = "ask"
    /\ \/ Capped /\ loop' = Ended(loop, "budget") /\ UNCHANGED drive
       \/ /\ ~ Capped /\ ~ loop.rejected /\ ~ loop.terminal /\ drive.dead # {} /\ Offered = {}
          /\ ~ Escape(drive)
          /\ loop' = Ended(loop, "no_progress")
          /\ drive' = [drive EXCEPT !.spurned = Spurned]
       \/ /\ ~ Capped
          /\ loop.rejected \/ loop.terminal \/ drive.dead = {} \/ Offered # {} \/ Escape(drive)
          /\ drive' = [drive EXCEPT !.spurned = Spurned, !.bound = loop.seen,
                                    !.consumed = IF drive.bound # loop.seen THEN Nothing ELSE @]
          /\ loop' = GoesTo(loop, "asked")
    /\ UNCHANGED <<Env, trace>>

(* decideAfterJev: a refused answer is asked for once more. *)
Decides(asks) ==
    /\ loop.pc = "asked"
    /\ drive' = [drive EXCEPT !.jev = @ + asks]
    /\ trace' = [trace EXCEPT !.owed = FALSE]
    /\ LET c(want, k) == [Decided("model", want, k) EXCEPT !.rejected = FALSE] IN
       \/ \E k \in Offered :
            loop' = IF drive.consumed = k THEN Ended(loop, "no_progress") ELSE c("act", k)
       \/ \E w \in {"complete", "stuck", "low_confidence", "none_of_these"} : loop' = c(w, Nothing)
       \/ "WAIT" \notin Withheld /\ loop' = c("wait", Nothing)
       \/ /\ Offered # {}
          /\ loop' \in {c("go_back", Nothing), c("replan", Nothing), c("needs_value", Nothing)}
       \/ site.kind[loop.seen] = "checkout" /\ \E k \in Offered : loop' = c("card", k)
       \/ asks = 2 /\ loop' = c("invalid_answer", Nothing)
    /\ UNCHANGED Env

JevFails ==
    /\ loop.pc = "asked"
    /\ \E n \in 0 .. 1 : drive' = [drive EXCEPT !.jev = @ + n]
    /\ loop' = Ended(loop, "jev_unavailable")
    /\ UNCHANGED <<Env, trace>>

-----------------------------------------------------------------------------
(* applyDecision.                                                            *)
Applies(wants) == loop.pc = "apply" /\ loop.want \in wants

Refuse(c) == GoesTo([c EXCEPT !.refused = TRUE], "after")

(* A question that the caller has been asked already is not asked again. *)
Question ==
    /\ Applies({"stuck", "needs_value", "low_confidence", "invalid_answer"})
    /\ LET q == <<loop.want, loop.seen>> IN
       IF q \in drive.asked
       THEN loop' = Ended(loop, "stuck") /\ UNCHANGED drive
       ELSE loop' = Ended(loop, loop.want) /\ drive' = [drive EXCEPT !.asked = {q}]
    /\ UNCHANGED <<Env, trace>>

NoneOfThese ==
    /\ Applies({"none_of_these"})
    /\ loop' = Ended(loop, "stuck")
    /\ UNCHANGED <<Env, drive, trace>>

(* DONE is looked at on a fresh snapshot, and a visible credential nobody    *)
(* captured refuses it once.                                                 *)
Complete ==
    /\ Applies({"complete"})
    /\ LET c == [loop EXCEPT !.seen = pageNow] IN
       \/ loop' = Ended(c, "evaluate_timeout") /\ UNCHANGED drive
       \/ /\ drive.bound \notin {Nothing, pageNow}
          /\ drive' = [drive EXCEPT !.consumed = Nothing] /\ loop' = Refuse(c)
       \/ /\ drive.bound \in {Nothing, pageNow}
          /\ \/ loop' = Ended(c, "complete") /\ UNCHANGED drive
             \/ pageNow \in drive.stall /\ loop' = Ended(c, "stuck")
                /\ drive' = [drive EXCEPT !.consumed = Nothing]
             \/ pageNow \notin drive.stall /\ loop' = Refuse(c)
                /\ drive' = [drive EXCEPT !.consumed = Nothing, !.stall = @ \cup {pageNow}]
    /\ UNCHANGED <<Env, trace>>

Wait ==
    /\ Applies({"wait"})
    /\ LET d == [drive EXCEPT !.last = pageNow, !.consumed = Nothing]
           e == IF loop.by = "model" /\ pageNow = loop.seen
                THEN MarkDead(d, "WAIT", pageNow) ELSE d
           c == GoesTo([loop EXCEPT !.seen = pageNow], "after")
       IN  \/ loop' = Ended(c, "evaluate_timeout") /\ UNCHANGED drive
           \/ /\ drive' = e
              /\ loop' = IF e # d /\ DeadEnd(e) THEN Ended(c, "no_progress") ELSE c
    /\ UNCHANGED <<Env, trace>>

Replan ==
    /\ Applies({"replan"})
    /\ IF loop.seen \in drive.stall
       THEN loop' = Ended(loop, "no_progress") /\ UNCHANGED drive
       ELSE /\ drive' = [drive EXCEPT !.stall = @ \cup {loop.seen}, !.consumed = Nothing]
            /\ loop' = GoesTo(loop, "after")
    /\ UNCHANGED <<Env, trace>>

GoBack ==
    /\ Applies({"go_back"})
    /\ pageNow' \in site.pages
    /\ drive' = [drive EXCEPT !.consumed = Nothing]
    /\ loop' \in {Ended(loop, "evaluate_timeout"),
                  [loop EXCEPT !.pc = "progress", !.acts = @ + 1, !.base = loop.seen,
                               !.seen = pageNow', !.key = Nothing]}
    /\ UNCHANGED <<site, drift, trace>>

(* The consume-once gate: a decision holds for the snapshot it is bound to,  *)
(* and once.                                                                 *)
Gate ==
    /\ Applies({"act", "card", "inbox"})
    /\ LET c == [loop EXCEPT !.base = loop.seen] IN
       \/ /\ drive.bound \notin {Nothing, loop.seen}
          /\ drive' = [drive EXCEPT !.consumed = Nothing] /\ loop' = Refuse(c)
       \/ /\ drive.bound = loop.seen /\ drive.consumed = loop.key
          /\ IF Escape(drive)
             THEN drive' = [drive EXCEPT !.consumed = Nothing] /\ loop' = Refuse(c)
             ELSE loop' = Ended(c, "no_progress") /\ UNCHANGED drive
       \/ /\ drive.bound \in {Nothing, loop.seen}
          /\ ~ (drive.bound = loop.seen /\ drive.consumed = loop.key)
          /\ drive' = [drive EXCEPT !.consumed = loop.key] /\ loop' = GoesTo(c, "check")
    /\ UNCHANGED <<Env, trace>>

(* The check of the live page before acting.  A page that changed is looked  *)
(* at again and decided anew, by the model.                                  *)
PageChanged(c) == Refuse([c EXCEPT !.rejected = TRUE])

PreAct ==
    /\ loop.pc = "check"
    /\ trace' = [trace EXCEPT !.checked = pageNow, !.owed = @ \/ pageNow # loop.seen]
    /\ IF pageNow # loop.seen
       THEN /\ \E navigated \in BOOLEAN :
                 drive' = [drive EXCEPT !.consumed = Nothing, !.absent = @ \/ ~ navigated]
            /\ loop' \in {Ended(loop, "evaluate_timeout"),
                          PageChanged([loop EXCEPT !.seen = pageNow])}
       ELSE \/ loop' = GoesTo(loop, loop.want) /\ UNCHANGED drive
            \/ loop' = Ended(loop, "stuck") /\ UNCHANGED drive
            \/ /\ loop' = Refuse(loop)
               /\ drive' = [drive EXCEPT !.spurned = @ \cup {loop.key}, !.consumed = Nothing]
    /\ UNCHANGED Env

(* The executor refuses an act whose target is gone or covered: it is no     *)
(* evidence about the page.                                                  *)
ActRefused(d) == d

ActIsRefused ==
    /\ loop.pc = "act"
    /\ LET c == [loop EXCEPT !.yield = TRUE, !.seen = pageNow]
           d == ActRefused([drive EXCEPT !.consumed = Nothing])
       IN  \E covered \in BOOLEAN :
            LET e == IF covered THEN [d EXCEPT !.occluded = @ + 1]
                     ELSE [d EXCEPT !.occluded = 0, !.spurned = @ \cup {loop.key}]
            IN  /\ drive' = e
                /\ loop' \in {Ended(c, "evaluate_timeout"),
                              IF covered /\ e.occluded >= OcclusionLimit THEN Ended(c, "stuck")
                              ELSE GoesTo(c, "after")}
    /\ UNCHANGED <<Env, trace>>

(* The executor does not know the act and the public surface fails: nothing  *)
(* reached the page, and the loop's accounting runs all the same.            *)
ActFallsBack ==
    /\ loop.pc = "act"
    /\ drive' = [drive EXCEPT !.consumed = Nothing, !.spurned = @ \cup {loop.key}]
    /\ trace' = [trace EXCEPT !.fellback = @ \cup {<<loop.base, loop.key>>}]
    /\ loop' = [loop EXCEPT !.pc = "progress", !.seen = pageNow]
    /\ UNCHANGED Env

(* The act reaches the page, which answers with any page, a sign-in wall or  *)
(* a native dialog.                                                          *)
Reaches ==
    /\ loop.pc = "act"
    /\ pageNow' \in site.pages
    /\ trace' = [trace EXCEPT !.reached = @ \cup {<<loop.base, loop.key>>}]
    /\ drive' = [drive EXCEPT !.visited = @ \cup ({loop.key} \cap site.sections), !.occluded = 0,
                              !.submitted = @ \/ loop.key \in site.submits]
    /\ LET c == [loop EXCEPT !.acts = @ + 1] IN
       loop' \in {Ended(c, "needs_value"),
                  IF site.kind[pageNow'] = "dialog"
                  THEN GoesTo([c EXCEPT !.seen = pageNow'], "after")
                  ELSE GoesTo(c, "observe")}
    /\ UNCHANGED <<site, drift>>

(* The snapshot after it; a submit the page ignores twice ends the drive. *)
ObserveAct ==
    /\ loop.pc = "observe"
    /\ LET c == [loop EXCEPT !.seen = pageNow] IN
       \/ loop' \in {Ended(c, "evaluate_timeout"), Ended(c, "stuck")} /\ UNCHANGED drive
       \/ /\ loop.key \in site.submits /\ pageNow = loop.base /\ loop.key \in drive.silent
          /\ loop' = Ended(c, "no_progress") /\ UNCHANGED drive
       \/ /\ loop.key \in site.submits /\ pageNow = loop.base /\ loop.key \notin drive.silent
          /\ loop' = GoesTo(c, "progress")
          /\ drive' = [drive EXCEPT !.silent = @ \cup {loop.key}]
       \/ loop' = GoesTo(c, "progress") /\ UNCHANGED drive
    /\ UNCHANGED <<Env, trace>>

(* injectCard, from the loop's side: approval, a short fill, or a full one. *)
Card ==
    /\ loop.pc = "card"
    /\ LET c == [loop EXCEPT !.acts = @ + 1] IN
       \/ /\ loop' \in {Ended(c, "pending_approval"), Ended(c, "approval_expired")}
          /\ UNCHANGED <<pageNow, drive>>
       \/ /\ drive' = [drive EXCEPT !.released = TRUE, !.half = TRUE]
          /\ loop' = Ended(c, "card_incomplete") /\ UNCHANGED pageNow
       \/ /\ drive' = [drive EXCEPT !.released = TRUE, !.half = FALSE]
          /\ pageNow' \in site.pages
          /\ loop' = [c EXCEPT !.pc = "progress", !.seen = pageNow']
    /\ UNCHANGED <<site, drift, trace>>

(* The mail: a code typed or a link opened, by either surface, or nothing. *)
Inbox ==
    /\ loop.pc = "inbox"
    /\ \/ loop' \in {Ended(loop, "needs_value"), Ended(loop, "stuck")} /\ UNCHANGED pageNow
       \/ \E reached \in 0 .. 1 :
            /\ pageNow' \in IF reached = 1 THEN site.pages ELSE {pageNow}
            /\ loop' = [loop EXCEPT !.acts = @ + reached, !.pc = "progress", !.seen = pageNow',
                                    !.key = Nothing]
    /\ UNCHANGED <<site, drift, drive, trace>>

(* noteProgress: an unchanged page is looked at again before it counts; then *)
(* the cycles, the dead key and the run of stale steps.                      *)
Baseline == loop.by = "model" /\ loop.want = "act"

Progress ==
    /\ loop.pc = "progress"
    /\ LET p == IF loop.seen = loop.base THEN pageNow ELSE loop.seen
           same == p = loop.base
           c == [loop EXCEPT !.seen = p]
           d == [drive EXCEPT !.stale = IF same THEN @ + 1 ELSE 0, !.last = p,
                              !.dests = IF @ # <<>> /\ Last(@) = p THEN @ ELSE Append(@, p)]
           e == [d EXCEPT !.keys = Append(@, p)]
           f == MarkDead(e, loop.key, p)
           turned == d.dests # drive.dests /\ Alternates(d.dests)
           cycled == Returns(e.keys, p) >= 2
           on(s) == IF Escape(drive) THEN GoesTo(c, "after") ELSE Ended(c, s)
       IN  \/ /\ loop.seen = loop.base
              /\ loop' = Ended(c, "evaluate_timeout") /\ UNCHANGED drive
           \/ turned /\ drive' = d /\ loop' = on("no_progress")
           \/ ~ turned /\ cycled /\ drive' = e /\ loop' = on("no_progress")
           \/ /\ ~ turned /\ ~ cycled /\ Baseline /\ same
              /\ \/ drive' = [e EXCEPT !.stale = 0] /\ loop' = GoesTo(c, "after")
                 \/ /\ drive' = f
                    /\ loop' = IF DeadEnd(f) THEN Ended(c, "no_progress")
                               ELSE IF f.stale >= StaleLimit THEN on("no_progress")
                               ELSE GoesTo(c, "after")
           \/ /\ ~ turned /\ ~ cycled /\ ~ (Baseline /\ same) /\ drive' = e
              /\ loop' = IF e.stale >= StaleLimit THEN on("no_progress")
                         ELSE GoesTo(c, "after")
    /\ UNCHANGED <<Env, trace>>

(* What follows an applied decision, by who made it. *)
After(c) == Spend(c)

Continue ==
    /\ loop.pc = "after"
    /\ loop' = CASE loop.by = "auto" /\ loop.refused ->
                      GoesTo([loop EXCEPT !.terminal = FALSE], "ask")
                 [] loop.by = "recover" -> GoesTo([After(loop) EXCEPT !.terminal = FALSE], "ask")
                 [] loop.by = "wallet" /\ site.kind[loop.seen] = "wallet" -> Ended(loop, "stuck")
                 [] OTHER -> GoesTo(After(loop), "top")
    /\ UNCHANGED <<Env, drive, trace>>

-----------------------------------------------------------------------------
(* The page and the clock. *)
Drifts ==
    /\ loop.pc # "idle" /\ drift < MaxDrift
    /\ pageNow' \in site.pages \ {pageNow} /\ drift' = drift + 1
    /\ UNCHANGED <<site, drive, loop, trace>>

DriveTick ==
    /\ loop.left > 0
    /\ loop' = [loop EXCEPT !.left = @ - 1]
    /\ UNCHANGED <<Env, drive, trace>>

Loop ==
    \/ First \/ ResumeAnswer \/ OutOfBudget \/ Dialog \/ NotReady \/ Wallet
    \/ FillField \/ Missing \/ Checkbox \/ AutoWait \/ BusyEnds \/ Solve
    \/ AutoInbox \/ AutoCard \/ RecoverChoice \/ NothingAutomatic
    \/ Ask \/ (\E n \in 1 .. 2 : Decides(n)) \/ JevFails
    \/ Question \/ NoneOfThese \/ Complete \/ Wait \/ Replan \/ GoBack \/ Gate \/ PreAct
    \/ ActIsRefused \/ ActFallsBack \/ Reaches \/ ObserveAct \/ Card \/ Inbox
    \/ Progress \/ Continue

DriveNext ==
    \/ Loop
    \/ \E sameGoal, answered \in BOOLEAN : BeginDrive(sameGoal, answered)
    \/ Drifts \/ DriveTick

DriveSpec == DriveInit /\ [][DriveNext]_driveVars

(* The loop runs on whenever its awaits return, and time passes. *)
DriveFairSpec == DriveSpec /\ WF_driveVars(Loop) /\ WF_driveVars(DriveTick)

-----------------------------------------------------------------------------
DriveTypeOK ==
    /\ site \in Sites /\ pageNow \in site.pages /\ drift \in 0 .. MaxDrift
    /\ drive.bound \in site.pages \cup {Nothing} /\ drive.deadOn \in site.pages \cup {Nothing}
    /\ drive.dead \subseteq site.keys \cup {"WAIT"}
    /\ drive.spurned \subseteq site.keys \cup {"INBOX"}
    /\ drive.dests \in Seq(site.pages) /\ drive.keys \in Seq(site.pages)
    /\ drive.jev \in Nat /\ drive.stale \in Nat
    /\ loop.seen \in site.pages \cup {Nothing} /\ loop.steps \in 0 .. MaxSteps + 1
    /\ loop.left \in 0 .. Seconds
    /\ loop.pc \in {"idle", "first", "answer", "top", "ask", "asked", "apply", "check", "act",
                    "card", "inbox", "observe", "progress", "after"}

(* Whatever a drive does to the page is paid for: no branch of the loop acts *)
(* twice in a step, so max_steps bounds what a call does (spendStep).        *)
ActsArePaid == loop.acts <= loop.steps + 1

(* The questions of a session, over all its goals, stay at the cap, but for  *)
(* the second asking of the last one and the native dialogs.                 *)
ModelCallsBounded == drive.jev <= MaxJev + 1 + trace.dialogs

(* An act is carried out only after the live page was found to be the one it *)
(* was decided on.                                                           *)
DecidedOnThisPage ==
    [][(ActIsRefused \/ ActFallsBack \/ Reaches \/ Card)
           => loop.from = trace.checked]_driveVars

(* A choice rejected because the page changed reaches the model: until it    *)
(* has answered, the loop does nothing by itself but dismiss the wallet.     *)
RejectedReachesModel ==
    [][(Reaches \/ Card \/ Checkbox) /\ trace.owed => loop.by = "wallet"]_driveVars

(* What counts as dead on a page was tried there, not only refused by the    *)
(* drive's own executor.                                                     *)
DeadWasTried ==
    \A k \in drive.dead \ {"WAIT"} : <<drive.deadOn, k>> \in trace.reached \cup trace.fellback

(* An act that never reached the page is no evidence about it.  The loop     *)
(* counts one whose fallback failed toward the dead end of the page.         *)
UndispatchedIsNoEvidence ==
    \A k \in drive.dead \ {"WAIT"} : <<drive.deadOn, k>> \in trace.reached

(* The dead actions of the page the model left do not rule on the page it is *)
(* asked about.  The check stands among the automatic decisions, which a     *)
(* rejected act skips.                                                       *)
DeadOnThisPage == loop.pc = "asked" => (drive.dead = {} \/ drive.deadOn = loop.seen)

(* The loop takes every step it is charged for, asks its model within bounds *)
(* and on the page it sees, hands a rejected act to the model, and counts a  *)
(* control as dead only after it was tried on that page.                     *)
DriveSafe ==
    /\ [](DriveTypeOK /\ ActsArePaid /\ ModelCallsBounded /\ DeadWasTried)
    /\ RejectedReachesModel /\ DecidedOnThisPage

(* A drive call ends. *)
CallEnds == loop.pc # "idle" ~> loop.pc = "idle"
=============================================================================
