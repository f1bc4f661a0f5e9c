------------------------------ MODULE OAuthLogin ------------------------------
(* One session's sign-in with an OAuth provider (loginWithOAuth): the click   *)
(* opens a provider popup or takes the product tab itself to the provider,    *)
(* the loop clicks consent, stops at a challenge a person must answer, and    *)
(* waits for the callback; the closing block decides which tab the session    *)
(* works on and which tabs it closes. Sites and people navigate and close     *)
(* tabs between any two awaits. operate_observe and oauth_settle run between  *)
(* calls. Calls are one at a time: the lease that makes them so is OAuthLease.*)
EXTENDS Integers, FiniteSets

CONSTANTS Calls,     \* the sign-ins asked for, numbered in order: 1 .. n
          MaxTurns   \* navigations, screens and closings of the outside world

LoginConstants ==
  /\ IsFiniteSet(Calls) /\ Calls = 1 .. Cardinality(Calls)
  /\ MaxTurns \in Nat

VARIABLES at,        \* what each tab shows
          screen,    \* of a tab at the provider: which screen
          doc,       \* the number of its main document
          slots,     \* the browser controller's page slots
          restore,   \* tab -> the tab to return to when it closes
          attempt,   \* activeOAuthAttempt
          phases,    \* oauthConsentAttemptedPhases
          run,       \* the locals of the call under way
          outcome,   \* how each call ended
          tally,     \* what was clicked, told and seen
          turns

loginVars == <<at, screen, doc, slots, restore, attempt, phases, run, outcome, tally, turns>>

Product == <<"product", 0>>
None == <<"none", 0>>
Pages == {Product} \cup ({"popup", "recovery"} \X Calls)
Urls == {"app", "form", "provider", "return", "denied"}
Screens == {"login", "consent", "challenge"}
NoAttempt == [call |-> 0]
NoRun == [pc |-> "idle"]

Open(p) == p # None /\ at[p] \in Urls
MayPage == Pages \cup {None}

\* What the session does when its page is gone: the newest tab that is not
\* at the provider, else the retained product tab, else any tab.
Newest(S) == CHOOSE p \in S : \A q \in S : q[2] < p[2] \/ (q[2] = p[2] /\ (q = p \/ p[1] = "popup"))
LivePage ==
  LET live == {p \in Pages : Open(p)}
      others == {p \in live : at[p] # "provider"}
  IN IF live = {} \/ Open(slots.page) THEN slots.page
     ELSE IF others # {} THEN Newest(others)
     ELSE IF Open(slots.product) THEN slots.product ELSE Newest(live)

-----------------------------------------------------------------------------
LoginTypeOK ==
  /\ at \in [Pages -> Urls \cup {"none", "closed"}]
  /\ screen \in [Pages -> Screens] /\ doc \in [Pages -> Nat]
  /\ slots \in [page : Pages, product : MayPage, provider : MayPage,
                closed : BOOLEAN, completion : MayPage, source : MayPage]
  /\ restore \in [Pages -> MayPage]
  /\ attempt = NoAttempt \/ attempt.call \in Calls
  /\ run = NoRun \/ run.pc \in {"recover", "click", "race", "poll", "tell", "consent", "tap", "end"}
  /\ outcome \in [Calls -> {"none", "ok", "awaiting", "challenge", "onboarding", "denied",
                            "failed", "refused", "not_attempted"}]
  /\ turns \in 0 .. MaxTurns

LoginInit ==
  /\ at = [p \in Pages |-> IF p = Product THEN "app" ELSE "none"]
  /\ screen = [p \in Pages |-> "login"] /\ doc = [p \in Pages |-> 0]
  /\ slots = [page |-> Product, product |-> None, provider |-> None, closed |-> FALSE,
              completion |-> None, source |-> None]
  /\ restore = [p \in Pages |-> None]
  /\ attempt = NoAttempt /\ phases = {} /\ run = NoRun
  /\ outcome = [c \in Calls |-> "none"]
  /\ tally = [told |-> {}, returns |-> {}, denials |-> {}, repeated |-> FALSE,
              skipped |-> FALSE, dead |-> FALSE, bare |-> FALSE, hurried |-> FALSE]
  /\ turns = 0

(* Mutated forms, named Operator_Fault, precede the operator they distort;    *)
(* nothing refers to them but the mutation runs of PROJECT.json.              *)

-----------------------------------------------------------------------------
(* What the listeners record of a navigation of an attempt's tab.             *)
Seen(k, p, to) ==
  IF ~k.started \/ p \notin {k.product, k.popup} THEN k
  ELSE LET known == k.expected \/ to = "provider"
           hit == known /\ to \in {"return", "denied"}
           forgets == IF k.returned = p THEN to \in {"provider", "denied"}
                      ELSE p = k.product /\ ~hit /\ to # "app"
       IN [k EXCEPT !.expected = known, !.denied = @ \/ (hit /\ to = "denied"),
                    !.shopNav = @ \/ p = k.product, !.popNav = @ \/ p = k.popup,
                    !.returned = IF hit /\ to = "return" THEN p ELSE IF forgets THEN None ELSE @,
                    !.onward = IF forgets THEN None
                               ELSE IF k.returned = p /\ to \in {"app", "form"} THEN p ELSE @]

Holds(k, p) ==
  Open(p) /\ at[p] = "return" /\ k.expected /\ (IF p = k.product THEN k.shopNav ELSE k.popNav)

CompletionPage(k) ==
  LET other == IF k.provider # None THEN k.provider ELSE k.popup
  IN IF k.onward # None /\ Open(k.onward) /\ at[k.onward] \in {"app", "form"} THEN k.onward
     ELSE IF Holds(k, k.product) THEN k.product
     ELSE IF other # None /\ Holds(k, other) THEN other
     ELSE None

Returned(k) == LET p == CompletionPage(k) IN IF p # None /\ at[p] = "return" THEN p ELSE None
Terminal(k) == k.returned # None /\ ~Open(k.returned)
Transient(k) == IF k.provider # None THEN k.provider ELSE k.product

\* Every error leaves through the catch block: a denial seen at the callback wins.
Leaves(k, how, pending) ==
  [k EXCEPT !.pc = "end", !.how = IF k.denied THEN "denied" ELSE how,
            !.pending = pending /\ ~k.denied]

Elsewhere == UNCHANGED <<at, screen, doc, restore, phases, turns>>

-----------------------------------------------------------------------------
(* Starting: refused while an owned attempt has both its tabs.                *)
Pends == Open(slots.product) /\ Open(slots.provider)

StartLogin(c) ==
  /\ run = NoRun /\ outcome[c] = "none" /\ slots.source \in {None, slots.page}
  /\ \A d \in Calls : d < c => outcome[d] # "none"
  /\ IF ~Open(slots.page) \/ Pends
       THEN /\ outcome' = [outcome EXCEPT ![c] = IF Open(slots.page) THEN "refused" ELSE "failed"]
            /\ UNCHANGED <<slots, attempt, phases, run>>
       ELSE /\ slots' = [slots EXCEPT !.product = slots.page, !.provider = None,
                                      !.closed = FALSE, !.completion = None]
            /\ attempt' = [call |-> c, product |-> slots.page, productDoc |-> doc[slots.page],
                           provider |-> None, doc |-> -1, epoch |-> <<>>]
            /\ phases' = {}
            /\ \E consent \in BOOLEAN :
                 run' = [pc |-> "recover", call |-> c, product |-> slots.page, recovery |-> None,
                         popup |-> None, provider |-> None, consent |-> consent,
                         started |-> FALSE, expected |-> FALSE, shopNav |-> FALSE,
                         popNav |-> FALSE, returned |-> None, onward |-> None,
                         denied |-> FALSE, pending |-> FALSE, late |-> FALSE,
                         key |-> <<>>, controls |-> 1, how |-> "none"]
            /\ UNCHANGED outcome
  /\ UNCHANGED <<at, screen, doc, restore, tally, turns>>

\* The recovery tab: opened and loaded, loaded badly, or not opened at all.
Recover ==
  /\ run.pc = "recover"
  /\ \/ /\ at' = [at EXCEPT ![<<"recovery", run.call>>] = "app"]
        /\ \E ok \in BOOLEAN :
             LET k == [run EXCEPT !.recovery = <<"recovery", run.call>>]
             IN run' = IF ok THEN [k EXCEPT !.pc = "click"] ELSE Leaves(k, "failed", FALSE)
     \/ run' = Leaves(run, "failed", FALSE) /\ UNCHANGED at
  /\ UNCHANGED <<screen, doc, slots, restore, attempt, phases, outcome, tally, turns>>

Click ==
  /\ run.pc = "click"
  /\ run' \in {[run EXCEPT !.pc = "race", !.started = TRUE], Leaves(run, "not_attempted", FALSE)}
  /\ Elsewhere /\ UNCHANGED <<slots, attempt, outcome, tally>>

\* The click threw after its dispatch began.
ClickFails ==
  /\ run.pc = "race" /\ Open(run.product)
  /\ run' = Leaves([run EXCEPT !.provider = run.popup], "failed", run.popup # None \/ run.shopNav)
  /\ Elsewhere /\ UNCHANGED <<slots, attempt, outcome, tally>>

\* The first of: the popup, a navigation off the product, the deadline.
Raced(late) ==
  late \/ run.popup # None \/ ~Open(run.product)
       \/ (run.shopNav /\ at[run.product] \notin {"app", "form"})

Adopt ==
  /\ run.pc = "race"
  /\ \E late \in BOOLEAN :
       /\ Raced(late)
       /\ LET k == [run EXCEPT !.provider = run.popup, !.pc = "poll", !.late = late]
              tab == Transient(k)
              durable == IF k.provider = None THEN k.recovery ELSE k.product
          IN /\ run' = k
             /\ slots' = [slots EXCEPT !.product = durable, !.provider = tab,
                                       !.closed = ~Open(tab), !.page = tab]
             /\ restore' = IF Open(tab) THEN [restore EXCEPT ![tab] = durable] ELSE restore
             /\ attempt' = IF attempt = NoAttempt THEN attempt
                           ELSE [attempt EXCEPT !.provider = tab]
  /\ UNCHANGED <<at, screen, doc, phases, outcome, tally, turns>>

-----------------------------------------------------------------------------
(* The waiting loop.                                                          *)
Polling == run.pc = "poll" /\ Returned(run) = None /\ ~Terminal(run) /\ ~run.late
AtProvider == Open(Transient(run)) /\ at[Transient(run)] = "provider"

\* The loop ends with a page that settled, a callback that closed itself, or
\* the deadline: then denial, evidence, or "still waiting for a person".
JudgeLogin_FirstEvidence(k, page) ==
  [k EXCEPT !.pc = "end", !.how = IF page # None \/ Terminal(k) THEN "ok" ELSE "awaiting",
            !.pending = @ \/ (page = None /\ ~Terminal(k))]
JudgeLogin(k, page) ==
  IF k.denied THEN Leaves(k, "denied", FALSE)
  ELSE IF page = None /\ ~Terminal(k) THEN Leaves(k, "awaiting", TRUE)
  ELSE [k EXCEPT !.pc = "end", !.how = "ok"]

Settles ==
  /\ run.pc = "poll"
  /\ \E late \in BOOLEAN :
       /\ late \/ run.late \/ Returned(run) # None \/ Terminal(run)
       /\ LET page == Returned(run)
              k == JudgeLogin([run EXCEPT !.late = @ \/ late], page)
              lost == k.how = "ok" /\ k.provider = None /\ ~Open(k.product)
          IN /\ \E reloaded \in BOOLEAN :
                  run' = IF lost /\ ~reloaded THEN [k EXCEPT !.how = "awaiting"] ELSE k
             /\ slots' = IF k.how = "ok" THEN [slots EXCEPT !.completion = page] ELSE slots
             /\ tally' = [tally EXCEPT !.hurried =
                   @ \/ (k.how = "awaiting" /\ (k.popup # None \/ k.shopNav))]
  /\ Elsewhere /\ UNCHANGED <<attempt, outcome>>

Onboards ==
  /\ Polling /\ run.consent /\ Open(Transient(run)) /\ at[Transient(run)] = "form"
  /\ run' = Leaves(run, "onboarding", TRUE)
  /\ Elsewhere /\ UNCHANGED <<slots, attempt, outcome, tally>>

Own(a) == IF a = NoAttempt THEN a
          ELSE [a EXCEPT !.provider = Transient(run), !.doc = doc[Transient(run)]]

\* A provider screen that is neither a choice nor a challenge: remembered, and polled again.
Lingers ==
  /\ Polling /\ run.consent /\ AtProvider /\ screen[Transient(run)] = "login"
  /\ attempt' = Own(attempt) /\ run' = [run EXCEPT !.pending = TRUE]
  /\ Elsewhere /\ UNCHANGED <<slots, outcome, tally>>

\* One notification for each epoch of a challenge.
Noted(a, key) == [a EXCEPT !.epoch = key]
Tells(a, key) == a.epoch # key
Rings(g, a, key) ==
  IF Tells(a, key) THEN [g EXCEPT !.told = @ \cup {key}, !.repeated = @ \/ key \in g.told] ELSE g
EpochKey(a, p) == <<a.call, p, doc[p]>>

Challenges ==
  /\ Polling /\ run.consent /\ AtProvider /\ screen[Transient(run)] = "challenge"
  /\ attempt # NoAttempt
  /\ LET a == Own(attempt)
         key == EpochKey(a, Transient(run))
     IN attempt' = Noted(a, key) /\ tally' = Rings(tally, a, key)
  /\ run' = [run EXCEPT !.pc = "tell"]
  /\ Elsewhere /\ UNCHANGED <<slots, outcome>>

\* The notification was answered, or its two seconds are over.
ChallengeEnds ==
  /\ run.pc = "tell" /\ run' = Leaves(run, "challenge", TRUE)
  /\ Elsewhere /\ UNCHANGED <<slots, attempt, outcome, tally>>

-----------------------------------------------------------------------------
(* advanceOAuthConsent: the controls of a screen are tried in order, and a    *)
(* screen of a document is claimed before its one click.                      *)
Consents ==
  /\ Polling /\ run.consent /\ AtProvider /\ screen[Transient(run)] = "consent"
  /\ attempt' = Own(attempt)
  /\ LET p == slots.page
         key == <<run.call, p, doc[p], screen[p]>>
     IN /\ p = Transient(run) /\ key \notin phases /\ attempt # NoAttempt
        /\ \E n \in 1 .. 2 : run' = [run EXCEPT !.pc = "consent", !.key = key, !.controls = n]
  /\ Elsewhere /\ UNCHANGED <<slots, outcome, tally>>

Owned(p) ==
  /\ attempt # NoAttempt /\ attempt.provider = p /\ Open(p) /\ slots.page = p
  /\ at[p] = "provider" /\ doc[p] = attempt.doc

Claimable(key) == Owned(key[2]) /\ key \notin phases

Claim ==
  /\ run.pc = "consent"
  /\ IF Claimable(run.key)
       THEN /\ phases' = phases \cup {run.key}
            /\ run' = [run EXCEPT !.pc = "tap"]
            /\ tally' = [tally EXCEPT !.repeated = @ \/ run.key \in phases]
       ELSE /\ run' = [run EXCEPT !.pc = "poll"]
            /\ tally' = [tally EXCEPT !.skipped = @ \/ (run.key \in phases /\ Owned(run.key[2]))]
            /\ UNCHANGED phases
  /\ UNCHANGED <<at, screen, doc, slots, restore, attempt, outcome, turns>>

\* The click takes, or it is missed and the next control is tried.
Tap ==
  /\ run.pc = "tap"
  /\ \/ run' = [run EXCEPT !.pc = "poll"]
     \/ run' = IF run.controls > 1 THEN [run EXCEPT !.pc = "consent", !.controls = @ - 1]
               ELSE [run EXCEPT !.pc = "poll"]
  /\ Elsewhere /\ UNCHANGED <<slots, attempt, outcome, tally>>

-----------------------------------------------------------------------------
(* The closing block: the provider is still showing and is kept, or the       *)
(* session goes back to the product and the tabs of the attempt close.        *)
Retained(k) == IF Open(k.product) THEN k.product ELSE k.recovery

Shut(k, page, product, showing) ==
  {p \in {k.provider, k.recovery} :
     /\ Open(p)
     /\ IF p = k.recovery THEN p # page /\ ~(showing /\ p = product)
        ELSE ~showing /\ p # slots.completion}

Finish ==
  /\ run.pc = "end"
  /\ LET k == run
         tab == Transient(k)
         showing == k.pending /\ Open(tab)
         moved == slots.provider # tab
         durable == IF k.provider = None THEN k.recovery ELSE k.product
         page == IF showing THEN tab ELSE IF Open(Retained(k)) THEN Retained(k) ELSE Product
         keeps == page = k.product /\ Open(k.product) /\ Open(slots.completion)
         product == IF showing THEN (IF moved THEN durable ELSE slots.product)
                    ELSE IF keeps THEN k.product ELSE None
         provider == IF showing THEN tab ELSE IF keeps THEN slots.completion ELSE None
         shut == Shut(k, page, product, showing)
         left == {p \in Pages : Open(p)} \ shut
     IN /\ slots' = [slots EXCEPT !.page = page, !.product = product, !.provider = provider,
                                  !.closed = IF showing /\ ~moved THEN @ ELSE FALSE,
                                  !.source = IF k.how = "ok" THEN slots.completion ELSE @]
        /\ attempt' = IF ~showing THEN NoAttempt
                      ELSE IF moved /\ attempt # NoAttempt
                             THEN [attempt EXCEPT !.provider = tab, !.doc = doc[tab]]
                      ELSE attempt
        /\ restore' = IF showing /\ moved THEN [restore EXCEPT ![tab] = durable] ELSE restore
        /\ at' = [p \in Pages |-> IF p \in shut THEN "closed" ELSE at[p]]
        /\ outcome' = [outcome EXCEPT ![k.call] = k.how]
        /\ tally' = [tally EXCEPT !.dead = @ \/ (page \notin left /\ left # {}),
                                  !.bare = @ \/ (showing /\ product \notin left)]
        /\ run' = NoRun
  /\ UNCHANGED <<screen, doc, phases, turns>>

-----------------------------------------------------------------------------
(* Operations between calls.                                                  *)
Between == run = NoRun

Recovered == [slots EXCEPT !.page = IF Open(slots.product) THEN slots.product ELSE @,
                           !.product = None, !.provider = None, !.closed = FALSE]

\* operate_observe: a completion that closed, or a provider that closed,
\* returns the session to the retained product tab.
ObserveLogin ==
  /\ Between
  /\ LET gone == slots.source # None /\ ~Open(slots.source)
         done == slots.product # None /\ Open(slots.product)
                   /\ (slots.closed \/ (slots.provider # None /\ ~Open(slots.provider)))
     IN slots' = [(IF gone \/ done THEN Recovered ELSE [slots EXCEPT !.page = LivePage])
                  EXCEPT !.source = IF gone \/ done THEN None ELSE @]
  /\ slots' # slots
  /\ Elsewhere /\ UNCHANGED <<attempt, run, outcome, tally>>

\* refreshOAuthHumanChallenge, on the same observation: never clicks.
Refresh ==
  /\ Between /\ attempt # NoAttempt /\ attempt.provider # None
  /\ LET a == attempt
         p == a.provider
         key == EpochKey(a, p)
     IN IF \/ ~Open(p) \/ slots.page # p \/ at[p] # "provider"
           \/ (p # a.product /\ (~Open(a.product) \/ doc[a.product] # a.productDoc))
          THEN attempt' = NoAttempt /\ UNCHANGED tally
        ELSE IF screen[p] # "challenge" THEN attempt' = [a EXCEPT !.epoch = <<>>] /\ UNCHANGED tally
        ELSE attempt' = Noted([a EXCEPT !.doc = doc[p]], key) /\ tally' = Rings(tally, a, key)
  /\ <<attempt', tally'>> # <<attempt, tally>>
  /\ Elsewhere /\ UNCHANGED <<slots, run, outcome>>

\* An epoch lasts 120 s: after that the same challenge is told again.
Ages ==
  /\ attempt # NoAttempt /\ attempt.epoch # <<>>
  /\ attempt' = [attempt EXCEPT !.epoch = <<>>]
  /\ tally' = [tally EXCEPT !.told = @ \ {attempt.epoch}]
  /\ Elsewhere /\ UNCHANGED <<slots, run, outcome>>

\* oauth_settle, with its wait for the provider: the provider tab is closed.
Settle ==
  /\ Between /\ Open(slots.product) /\ slots.page \in {slots.product, slots.provider}
  /\ \/ slots.source \in {None, slots.page}
     \/ slots.page = slots.product /\ slots.source = slots.provider
  /\ LET shut == {p \in {slots.provider} \ {slots.product} : Open(p)}
     IN /\ slots' = [slots EXCEPT !.page = slots.product, !.product = None, !.provider = None,
                         !.closed = FALSE, !.source = slots.product,
                         !.completion = IF @ \in shut THEN None ELSE @]
        /\ at' = [p \in Pages |-> IF p \in shut THEN "closed" ELSE at[p]]
  /\ UNCHANGED <<screen, doc, restore, attempt, phases, run, outcome, tally, turns>>

-----------------------------------------------------------------------------
(* The outside world: sites and people.                                       *)
Live == run # NoRun
Navigated(p, to, scr) ==
  /\ at' = [at EXCEPT ![p] = to]
  /\ screen' = [screen EXCEPT ![p] = scr]
  /\ doc' = [doc EXCEPT ![p] = @ + 1]
  /\ LET ours == Live /\ run.started /\ p \in {run.product, run.popup}
         left == {k \in tally.told : k[2] # p}
     IN /\ run' = IF Live THEN Seen(run, p, to) ELSE run
        /\ tally' = [tally EXCEPT
             !.told = left,
             !.returns = IF ours /\ to = "return" THEN @ \cup {run.call} ELSE @,
             !.denials = IF ours /\ to = "denied" /\ run.expected THEN @ \cup {run.call} ELSE @]
  /\ attempt' = IF attempt # NoAttempt /\ attempt.provider = p
                THEN [attempt EXCEPT !.doc = -1] ELSE attempt
  /\ turns' = turns + 1
  /\ UNCHANGED <<slots, restore, phases, outcome>>

Leads(from) == IF from = "provider" THEN {"provider", "return", "denied"}
               ELSE IF from = "return" THEN {"app", "form"}
               ELSE IF from = "app" THEN {"form"} ELSE {"app"}

Navigates(p) ==
  /\ turns < MaxTurns /\ Open(p) /\ p[1] # "recovery"
  /\ \E to \in Leads(at[p]), scr \in Screens :
       /\ to = "provider" \/ scr = "login"
       /\ Navigated(p, to, scr)

\* The control that was clicked takes its own tab to the provider, or opens a popup.
Redirects ==
  /\ turns < MaxTurns /\ Live /\ run.started /\ run.pc \in {"race", "poll"} /\ run.popup = None
  /\ Open(run.product) /\ at[run.product] \in {"app", "form"} /\ ~run.expected
  /\ \E scr \in Screens : Navigated(run.product, "provider", scr)

Pops ==
  /\ turns < MaxTurns /\ Live /\ run.pc = "race" /\ run.popup = None /\ Open(run.product)
  /\ LET p == <<"popup", run.call>>
     IN \E scr \in Screens :
          /\ at' = [at EXCEPT ![p] = "provider"] /\ screen' = [screen EXCEPT ![p] = scr]
          /\ run' = Seen([run EXCEPT !.popup = p], p, "provider")
  /\ turns' = turns + 1
  /\ UNCHANGED <<doc, slots, restore, attempt, phases, outcome, tally>>

\* A provider page repaints without a new document.
Repaints(p) ==
  /\ turns < MaxTurns /\ Open(p) /\ at[p] = "provider"
  /\ \E scr \in Screens \ {screen[p]} : screen' = [screen EXCEPT ![p] = scr]
  /\ tally' = [tally EXCEPT !.told = {k \in @ : k[2] # p}]
  /\ turns' = turns + 1
  /\ UNCHANGED <<at, doc, slots, restore, attempt, phases, run, outcome>>

\* A tab closes: its close listener returns the session to the retained tab.
Closes(p) ==
  /\ turns < MaxTurns /\ Open(p) /\ p[1] # "recovery"
  /\ at' = [at EXCEPT ![p] = "closed"]
  /\ LET back == restore[p]
         s == [slots EXCEPT !.closed = @ \/ slots.provider = p,
                            !.completion = IF @ = p THEN None ELSE @]
         rest == {q \in Pages : Open(q)} \ {p}
         calm == {q \in rest : at[q] # "provider"}
     IN slots' = IF back = None THEN slots
                 ELSE IF back \in rest
                        THEN [s EXCEPT !.page = IF @ = p \/ @ \notin rest THEN back ELSE @]
                 ELSE IF rest = {} \/ slots.page \in rest THEN s
                 ELSE [s EXCEPT !.page = Newest(IF calm # {} THEN calm ELSE rest)]
  /\ tally' = [tally EXCEPT !.told = {k \in @ : k[2] # p}]
  /\ turns' = turns + 1
  /\ screen' = [screen EXCEPT ![p] = "login"] /\ restore' = [restore EXCEPT ![p] = None]
  /\ UNCHANGED <<doc, attempt, phases, run, outcome>>

-----------------------------------------------------------------------------
Calling == \/ \E c \in Calls : StartLogin(c)
           \/ run # NoRun /\ (Recover \/ Click \/ ClickFails \/ Adopt \/ Settles \/ Onboards
                             \/ Lingers \/ Challenges \/ ChallengeEnds \/ Consents \/ Claim \/ Tap \/ Finish)
Operating == ObserveLogin \/ Refresh \/ Ages \/ Settle
Outside == Redirects \/ Pops \/ \E p \in Pages : Navigates(p) \/ Repaints(p) \/ Closes(p)

\* Nothing awaits between an error and the assignments of the closing block.
LoginNext == Calling \/ (run.pc # "end" /\ (Operating \/ Outside))
LoginSpec == LoginInit /\ [][LoginNext]_loginVars

\* The loop polls on a timer and ends at its deadline; the closing block always runs.
LoginLiveSpec == LoginSpec /\ WF_loginVars(run # NoRun /\ (Recover \/ Click \/ Adopt \/ ChallengeEnds \/ Claim \/ Tap))
                 /\ SF_loginVars(run # NoRun /\ Settles) /\ WF_loginVars(run # NoRun /\ Finish)

-----------------------------------------------------------------------------
\* A denial that reached the callback fails its call: neither a later return nor
\* the deadline, a challenge or a form reports anything else.
DenialIsReported == \A c \in tally.denials : outcome[c] \in {"none", "denied"}

\* A call completes only on a callback its own click led to: a product tab that
\* still shows an earlier callback completes nothing.
CompletedByReturn == \A c \in Calls : outcome[c] = "ok" => c \in tally.returns

\* A screen of a provider document is clicked at most once in a call, and a
\* challenge is told once while it shows, by the call and by observations together.
OnceEach == ~tally.repeated

\* No call ends with the session on a closed tab while one of its tabs is open.
EndsOnLiveTab == ~tally.dead

\* Between calls, a tab that a call opened is open only while the session works
\* on it, or one of its slots holds it.
NoTabLeft ==
  run = NoRun => \A p \in Pages \ {Product} : Open(p) =>
    p \in {slots.page, slots.product, slots.provider, slots.completion, slots.source}

\* The refusal says an owned attempt is still pending: the previous one did not succeed.
RefusedWhilePending == \A c \in Calls : outcome[c] = "refused" /\ c > 1 => outcome[c - 1] # "ok"

\* Once the provider was reached, a call gives up only after the human deadline.
HumanBudget == ~tally.hurried

\* A click that did not take leads to the next control of the screen.
MissedTriesNext == ~tally.skipped

\* A call that leaves the provider showing keeps a live product tab to return to.
PendingKeepsProduct == ~tally.bare

\* Every call ends.
CallsEnd == run # NoRun ~> run = NoRun
=============================================================================
