---------------------------- MODULE OperateClick ----------------------------
(***************************************************************************)
(* One click of the agent on a page that moves by itself: operate_click of *)
(* apps/mcp/src/tools/provision-drive.ts and the click of the drive loop,  *)
(* executeAct of bot/act/act.ts, and the presses of bot/browser.ts.        *)
(*                                                                          *)
(* A control is observed, resolved again, bound to a handle that listens   *)
(* for the click, and pressed through its selector, its handle or the      *)
(* coordinates it had.  Between any two of these awaits the page may put   *)
(* another node in its place, cover it, navigate or close.                 *)
(***************************************************************************)
EXTENDS Naturals, FiniteSets

CONSTANTS
    Nodes,      \* the nodes the page puts in the place of the control
    Controls,   \* the controls to click: see ControlType
    MaxMoves,   \* bound: moves of the page and cancellations
    MaxErrors   \* bound: clicks that report an error after they landed

(* How the control is named (a ref or label of the observation, one inside a *)
(* frame, a text= or css= locator, a ref of the drive loop) and what it is:  *)
(* item is a row of a command menu, option a row of a listbox, keyed a       *)
(* switch that hears keys only.  humanized moves a mouse; active is the page *)
(* the browser shows; a modal region holds the control under an inert        *)
(* ancestor; prompt pages show an activation in the step it happens.         *)
ControlType ==
    [via : {"ref", "frame", "locator", "drive"},
     is : {"button", "switch", "keyed", "item", "option"},
     humanized : BOOLEAN, active : BOOLEAN, modal : BOOLEAN, prompt : BOOLEAN]

ClickConstants ==
    /\ IsFiniteSet(Nodes) /\ Nodes # {} /\ "none" \notin Nodes
    /\ Controls \subseteq ControlType
    /\ \A c \in Controls : /\ c.is \in {"switch", "keyed", "item"} => c.via = "ref"
                           /\ c.is = "option" => c.via = "drive"
                           /\ c.is = "keyed" => c.prompt
    /\ {MaxMoves, MaxErrors} \subseteq Nat

VARIABLES
    control,   \* what is clicked, which stays
    seen,      \* the node the agent observed
    names,     \* the node the selector names now
    fit,       \* what a press of each node would meet
    clicks,    \* how often each node was activated
    presses,   \* how often any was
    shown,     \* how many activations the page shows
    page,      \* the document: live, moved (another one loaded) or closed
    dialog,    \* the modal dialog is rendered
    inert,     \* the inert attribute of the control's ancestor
    act,       \* where the call is, and what it knows
    journal,   \* the phase the broker's journal holds
    moves, errors

clickVars == <<control, seen, names, fit, clicks, presses, shown, page, dialog, inert, act,
               journal, moves, errors>>
scene == <<names, fit, page, dialog>>

Fits == {"ready", "covered", "disabled", "gone"}
Statuses == {"none", "not_dispatched", "dispatched", "unknown"}
ClickPCs == {"start", "resolve", "occlusion", "option", "enter", "filter", "bind", "mark",
             "listen", "lift", "press", "strike", "aimed", "toggled", "backup", "struck", "js",
             "restore", "judge", "over"}

Listening == control.active /\ act.try = "click"

ActType ==
    [pc : ClickPCs, try : {"click", "js"}, bound : Nodes \cup {"none"}, aim : Nodes \cup {"none"},
     armed : BOOLEAN, heard : BOOLEAN, saw : BOOLEAN, before : Nat,
     err : {"none", "intercepts", "closed", "gone", "other"}, status : Statuses,
     cancelled : BOOLEAN, phase : {"prepared", "attempted"},
     answer : {"none", "ok", "proven", "stale", "error"}]

ClickTypeOK ==
    /\ control \in Controls /\ seen \in Nodes /\ names \in Nodes \cup {"none"}
    /\ fit \in [Nodes -> Fits] /\ clicks \in [Nodes -> Nat]
    /\ presses \in Nat /\ shown \in 0..presses
    /\ page \in {"live", "moved", "closed"} /\ dialog \in BOOLEAN
    /\ inert \in {"set", "lifted", "clear"}
    /\ act \in ActType
    /\ journal \in {"prepared", "attempted"}
    /\ moves \in 0..MaxMoves /\ errors \in 0..MaxErrors

ClickInit ==
    /\ control \in Controls
    /\ seen \in Nodes /\ names = seen
    /\ fit \in {[n \in Nodes |-> IF n = seen THEN f ELSE "gone"] : f \in Fits \ {"gone"}}
    /\ clicks = [n \in Nodes |-> 0] /\ presses = 0 /\ shown = 0 /\ page = "live"
    /\ dialog = control.modal /\ inert = IF control.modal THEN "set" ELSE "clear"
    /\ act = [pc |-> "start", try |-> "click", bound |-> "none", aim |-> "none",
               armed |-> FALSE, heard |-> FALSE, saw |-> FALSE, before |-> 0, err |-> "none",
               status |-> "none", cancelled |-> FALSE, phase |-> "prepared", answer |-> "none"]
    /\ journal = "prepared" /\ moves = 0 /\ errors = 0

-----------------------------------------------------------------------------
(* What a press of the node would meet: behind inert it is never hit.        *)
Meets(n) == IF n = "none" THEN "gone"
            ELSE IF fit[n] = "ready" /\ inert = "set" THEN "covered"
            ELSE fit[n]

(* The page's own moves: the control is rendered anew as another node, or    *)
(* covered, disabled, freed; another document loads or the page closes; its  *)
(* dialog closes; a toggle shows late; and the request is cancelled.         *)
PageMoves ==
    /\ moves < MaxMoves /\ moves' = moves + 1 /\ page = "live" /\ act.answer = "none"
    /\ \/ /\ \E n \in Nodes \ {names} :
                names' = n /\ fit' = [m \in Nodes |-> IF m = n THEN "ready" ELSE "gone"]
          /\ UNCHANGED <<page, dialog, inert, shown, act>>
       \/ /\ names # "none"
          /\ \E f \in Fits \ {"gone", fit[names]} : fit' = [fit EXCEPT ![names] = f]
          /\ UNCHANGED <<names, page, dialog, inert, shown, act>>
       \/ /\ page' \in {"moved", "closed"} /\ names' = "none"
          /\ fit' = [n \in Nodes |-> "gone"]
          /\ UNCHANGED <<dialog, inert, shown, act>>
       \/ /\ dialog /\ dialog' = FALSE /\ inert' = IF inert = "set" THEN "clear" ELSE inert
          /\ UNCHANGED <<names, fit, page, shown, act>>
       \/ shown < presses /\ shown' = presses /\ UNCHANGED <<scene, inert, act>>
       \/ ~act.cancelled /\ act' = [act EXCEPT !.cancelled = TRUE] /\ UNCHANGED <<scene, inert, shown>>
    /\ UNCHANGED <<control, seen, clicks, presses, journal, errors>>

(* The node is activated, and the listener hears it if it sits there.        *)
Activates(n, c) ==
    /\ clicks' = [clicks EXCEPT ![n] = @ + 1] /\ presses' = presses + 1
    /\ shown' = IF control.prompt THEN presses + 1 ELSE shown
    /\ act' = [c EXCEPT !.heard = @ \/ (act.armed /\ n = act.bound)]
Untouched == UNCHANGED <<clicks, presses, shown>>
Goes(c) == act' = c /\ Untouched
Calm == UNCHANGED <<scene, seen, control, moves>>
Quiet == Calm /\ UNCHANGED <<inert, journal, errors>>
Errs == errors < MaxErrors /\ errors' = errors + 1

At(pc) == [act EXCEPT !.pc = pc]
(* The press threw: what it lifted is restored, then the throw is judged.    *)
Thrown(err) == [act EXCEPT !.pc = "restore", !.err = err]
(* A click waited in vain: its log tells what intercepted it, even before.   *)
TimedOut(n) == Thrown(IF page = "closed" THEN "closed"
                      ELSE IF act.saw \/ Meets(n) = "covered" THEN "intercepts" ELSE "other")
(* The executor proved that nothing was dispatched.                          *)
Refused(err) == [act EXCEPT !.pc = "judge", !.err = err, !.status = "not_dispatched"]
Finished == At("over")

-----------------------------------------------------------------------------
(* executeAct looks at the page and authorizes the target: a ref is of the   *)
(* document it was observed in.                                              *)
Stale == [act EXCEPT !.pc = "over", !.err = "gone",
                      !.answer = IF control.via = "drive" THEN "stale"
                                 ELSE IF act.phase = "prepared" THEN "proven" ELSE "error"]
Start ==
    /\ act.pc = "start"
    /\ Goes(IF page = "live" \/ (page = "moved" /\ control.via \in {"locator", "drive"})
            THEN At("resolve") ELSE Stale)
    /\ Quiet

(* resolveFreshActTarget: a ref is the node it was observed as, one of the   *)
(* drive loop whatever has its identity now.                                 *)
Pressing == At(IF act.try = "js" THEN "js" ELSE "bind")
Resolve ==
    /\ act.pc = "resolve" /\ control.via # "locator"
    /\ Goes(IF control.via = "drive" THEN IF names = "none" THEN Stale ELSE At("occlusion")
            ELSE IF names # seen THEN Stale ELSE Pressing)
    /\ Quiet

(* resolvePageTarget: a locator is bound to the one node that matches it.    *)
ResolveLocator ==
    /\ act.pc = "resolve" /\ control.via = "locator"
    /\ Goes(IF names = "none" THEN [Finished EXCEPT !.err = "gone", !.answer = "error"]
            ELSE [Pressing EXCEPT !.bound = names])
    /\ Quiet

(* The drive loop does not press what an overlay would swallow.              *)
Occlusion ==
    /\ act.pc = "occlusion"
    /\ Goes(IF Meets(names) = "covered" THEN Refused("intercepts")
            ELSE At(IF control.is = "option" THEN "option" ELSE "bind"))
    /\ Quiet

(* commitDriveListOption: the row is clicked, then Enter is pressed, then    *)
(* the filter is typed and Enter pressed again, until the list's owner shows *)
(* a change; an error leaves the row to an ordinary click.                   *)
Option ==
    /\ act.pc = "option"
    /\ \/ Meets(names) = "ready" /\ Activates(names, [At("enter") EXCEPT !.before = shown])
       \/ Meets(names) # "ready" /\ Goes(At("bind"))
    /\ Quiet
OptionEnters ==
    /\ act.pc \in {"enter", "filter"}
    /\ \/ /\ shown # act.before /\ Goes(Finished) /\ UNCHANGED errors
       \/ /\ shown = act.before /\ UNCHANGED errors
          /\ LET next == IF act.pc = "enter" THEN At("filter") ELSE Finished
             IN IF names = "none" THEN Goes(next) ELSE Activates(names, next)
       \/ Errs /\ Goes(At("bind"))
    /\ Calm /\ UNCHANGED <<inert, journal>>

-----------------------------------------------------------------------------
(* The node a press binds its handle to: page.$ and resolveFrameElement find *)
(* it anew, even in a frame that was mounted again.                          *)
Handle == IF control.via = "locator" THEN act.bound ELSE names

(* clickWithDispatchTracking binds the handle the listener will sit on; a    *)
(* page that is not the active one is pressed without a listener.            *)
Bind ==
    /\ act.pc = "bind"
    /\ Goes(IF ~Listening THEN At("press")
            ELSE IF Handle = "none" \/ page # "live" THEN Refused("gone")
            ELSE [At("mark") EXCEPT !.bound = Handle])
    /\ Quiet

(* markOperatorMutationDispatchAttempted: the journal knows before the page  *)
(* is touched, and a cancelled request stops here, before or after.          *)
Mark ==
    /\ act.pc = "mark"
    /\ IF act.cancelled
       THEN Goes([act EXCEPT !.pc = "judge", !.err = "other", !.status = "unknown"])
            /\ UNCHANGED journal
       ELSE Goes([At("listen") EXCEPT !.phase = "attempted"]) /\ journal' = "attempted"
    /\ Calm /\ UNCHANGED <<inert, errors>>

(* runTrackedClick installs its listener, unless the document is gone.       *)
Listen ==
    /\ act.pc = "listen"
    /\ Goes(IF act.cancelled
            THEN [act EXCEPT !.pc = "judge", !.err = "other", !.status = "unknown"]
            ELSE [At(IF control.via = "locator" THEN "press" ELSE "lift")
                    EXCEPT !.armed = page = "live"])
    /\ Quiet

(* neutralizeModalInert: a control of a modal region sheds the inert of its  *)
(* ancestors for the press.                                                  *)
Lift ==
    /\ act.pc = "lift"
    /\ inert' = IF control.modal /\ names # "none" /\ inert = "set" THEN "lifted" ELSE inert
    /\ Goes(At("press"))
    /\ Calm /\ UNCHANGED <<journal, errors>>

(* clickInner: a switch is clicked and read, a humanized click waits for an  *)
(* enabled control and takes aim, anything else is a click by selector; so   *)
(* is the press of a page that is not active.                                *)
BySelector == control.via \in {"ref", "drive"}
Toggles == control.active /\ control.is \in {"switch", "keyed"} /\ names # "none"
Humanized == control.active /\ control.humanized /\ control.is # "item"
Press ==
    /\ act.pc = "press" /\ BySelector
    /\ \/ /\ Toggles
          /\ LET read == [At("toggled") EXCEPT !.before = shown]
             IN IF Meets(names) = "ready" /\ control.is = "switch" THEN Activates(names, read)
                ELSE Goes(read)
       \/ /\ ~Toggles /\ Humanized
          /\ Goes(IF names = "none" \/ fit[names] = "disabled" THEN TimedOut("none")
                  ELSE [At("aimed") EXCEPT !.aim = names])
       \/ ~Toggles /\ ~Humanized /\ Goes([At("strike") EXCEPT !.aim = "none"])
    /\ Quiet

(* clickHandle: the handle must be attached and enabled.                     *)
HandlePress ==
    /\ act.pc = "press" /\ control.via = "locator"
    /\ Goes(IF page # "live" THEN TimedOut("none")
            ELSE IF fit[act.bound] \in {"gone", "disabled"} THEN
                   [Thrown("gone") EXCEPT !.status = "not_dispatched"]
            ELSE [At("strike") EXCEPT !.aim = act.bound])
    /\ Quiet

(* clickInFrame binds a handle of its own.                                   *)
FramePress ==
    /\ act.pc = "press" /\ control.via = "frame"
    /\ Goes(IF names = "none" THEN Thrown("gone") ELSE [At("strike") EXCEPT !.aim = names])
    /\ Quiet

(* A click of Playwright: it waits until the node, which a selector names    *)
(* anew each time, is ready, and strikes it, or runs out of time.            *)
Aimed == IF act.aim = "none" THEN names ELSE act.aim
Strike ==
    /\ act.pc = "strike"
    /\ \/ /\ Meets(Aimed) = "ready"
          /\ Activates(Aimed, [At("struck") EXCEPT !.aim = "none"])
       \/ Meets(Aimed) = "covered" /\ ~act.saw /\ Goes([act EXCEPT !.saw = TRUE])
       \/ /\ Meets(Aimed) # "ready"
          /\ Goes(IF control.is = "item" /\ control.humanized /\ page = "live"
                  THEN At("backup") ELSE TimedOut(Aimed))
    /\ Quiet

(* The mouse clicks where the node was: an overlay takes the click, and a    *)
(* node that moved leaves it to whatever is there now.                       *)
MouseStrikes ==
    /\ act.pc = "aimed"
    /\ \/ page = "closed" /\ Goes(Thrown("closed"))
       \/ page # "closed" /\ Meets(act.aim) # "ready" /\ Goes(At("struck"))
       \/ \E n \in {act.aim, names} \ {"none"} :
             /\ Meets(n) = "ready"
             /\ Activates(n, [At("struck") EXCEPT !.aim = "none"])
    /\ Quiet

(* A switch whose aria-checked did not move is pressed with the space bar.   *)
SwitchReads ==
    /\ act.pc = "toggled"
    /\ IF shown # act.before \/ Meets(names) \in {"gone", "disabled"} THEN Goes(At("restore"))
       ELSE Activates(names, At("restore"))
    /\ Quiet

(* The events sent to a row of a command menu whose click failed.            *)
Backup ==
    /\ act.pc = "backup"
    /\ IF names = "none" THEN Goes(TimedOut("none")) ELSE Activates(names, At("restore"))
    /\ Quiet

(* The press returns, or reports an error although it landed: its time ran   *)
(* out, or the page closed on it.                                            *)
Struck ==
    /\ act.pc = "struck"
    /\ \/ Goes(At("restore")) /\ UNCHANGED errors
       \/ page = "closed" /\ Goes(Thrown("closed")) /\ UNCHANGED errors
       \/ /\ Errs
          /\ Goes(IF control.is = "item" /\ control.humanized THEN At("backup") ELSE TimedOut("none"))
    /\ Calm /\ UNCHANGED <<inert, journal>>

(* js_click: clickViaJs of whatever the selector names, which swallows its   *)
(* errors; jsClickHandle; clickViaJsInFrame.                                 *)
JsClick ==
    /\ act.pc = "js"
    /\ LET met == IF Handle = "none" THEN "gone" ELSE fit[Handle]
       IN \/ met \in {"ready", "covered"} /\ Activates(Handle, Finished)
          \/ /\ met \in {"gone", "disabled"}
             /\ Goes(IF control.via = "locator" THEN Refused("gone")
                     ELSE IF control.via = "frame" /\ met = "gone"
                     THEN [act EXCEPT !.pc = "judge", !.err = "gone", !.status = "unknown"]
                     ELSE Finished)
    /\ Quiet

-----------------------------------------------------------------------------
(* Whatever the press did, a dialog that is still rendered gets its inert    *)
(* background back.                                                          *)
Restored == IF inert # "lifted" \/ page # "live" THEN inert
            ELSE IF dialog THEN "set" ELSE "clear"
Restore ==
    /\ act.pc = "restore"
    /\ inert' = Restored
    /\ Goes(IF act.err = "none" THEN Finished ELSE At("judge"))
    /\ Calm /\ UNCHANGED <<journal, errors>>

(* What the listener tells of a press that threw: a page that closed on it   *)
(* took the click.                                                           *)
Told == IF act.status # "none" THEN act.status
        ELSE IF ~Listening THEN "unknown"
        ELSE IF act.armed /\ page = "closed" /\ act.err = "closed" THEN "dispatched"
        ELSE IF ~act.armed \/ page # "live" THEN "unknown"
        ELSE IF act.heard THEN "dispatched"
        ELSE "not_dispatched"

(* Mutated form, for the mutation run of PROJECT.json only.                  *)
FallsBack_ByText(status) == act.try = "click" /\ control.via # "drive" /\ act.err = "intercepts"
(* operate_click repeats a click as js_click only on proof that it was not   *)
(* dispatched, and on a text that says what was in the way.                  *)
FallsBack(status) ==
    /\ act.try = "click" /\ control.via # "drive"
    /\ status = "not_dispatched" /\ act.err = "intercepts"

JudgeClick ==
    /\ act.pc = "judge"
    /\ LET status == Told
           closedOnIt == status = "dispatched" /\ act.err = "closed"
       IN Goes(IF closedOnIt \/ (control.via = "drive" /\ status = "dispatched") THEN
                      [Finished EXCEPT !.status = status]
               ELSE IF FallsBack(status) THEN
                      [At("start") EXCEPT !.try = "js", !.phase = "prepared",
                                          !.err = "none", !.status = "none",
                                          !.armed = FALSE]
               ELSE [Finished EXCEPT !.status = status,
                                 !.answer = IF control.via = "drive" THEN "stale" ELSE "error"])
    /\ Quiet

Answer ==
    /\ act.pc = "over" /\ act.answer = "none"
    /\ Goes([act EXCEPT !.answer = "ok"])
    /\ Quiet

ClickSteps ==
    \/ Start \/ Resolve \/ ResolveLocator \/ Occlusion \/ Option \/ OptionEnters \/ Bind
    \/ Mark \/ Listen \/ Lift \/ Press \/ HandlePress \/ FramePress \/ Strike \/ MouseStrikes
    \/ SwitchReads \/ Backup \/ Struck \/ JsClick \/ Restore \/ JudgeClick \/ Answer

ClickNext == PageMoves \/ ClickSteps
ClickSpec == ClickInit /\ [][ClickNext]_clickVars

(* Code goes on, and every wait of a press is bounded.                       *)
ClickLiveSpec == ClickSpec /\ WF_clickVars(ClickSteps)

-----------------------------------------------------------------------------
(* A button is pressed at most once, the repetition included, unless what    *)
(* was pressed is a node the page put there after the listener sat down; so  *)
(* is a switch or a row whose page shows the press at once.                  *)
PressedOnce ==
    /\ \/ control.is = "button"
       \/ control.is # "item" /\ control.prompt /\ errors = 0
    /\ presses > 1
    => act.bound \in Nodes /\ clicks[act.bound] < presses

(* What is called not dispatched left the node alone that it was bound to.   *)
NotDispatchedIsTrue ==
    control.is = "button" /\ act.status = "not_dispatched" /\ act.bound \in Nodes
        => clicks[act.bound] = 0

(* An error the broker's journal takes as proof that nothing happened comes  *)
(* when nothing did, or to a node the page put there meanwhile.              *)
ProvenIsTrue == act.answer = "proven" => \A n \in Nodes : n = act.bound => clicks[n] = 0

(* A tracked press is in the journal before it reaches the page, and stays   *)
(* there when the click is repeated.                                         *)
JournalKnows ==
    presses > 0 /\ control.active /\ control.is # "option" => journal = "attempted"

(* The press leaves the background of a dialog as it found it.               *)
BackgroundStaysInert ==
    act.pc = "over" /\ page = "live" /\ dialog /\ control.modal => inert = "set"

(* A click that landed is not repeated and not called undispatched, the      *)
(* journal knew of it before, and a dialog keeps its background inert.       *)
ClickSafe ==
    /\ ClickTypeOK /\ PressedOnce /\ NotDispatchedIsTrue
    /\ ProvenIsTrue /\ JournalKnows /\ BackgroundStaysInert

(* The call is answered.                                                     *)
Answered == <>(act.answer # "none")
=============================================================================
