----------------------------- MODULE OAuthSignIn -----------------------------
(* The sign-ins of one session and the lease that keeps them one at a time:   *)
(* what operate_login and operate_observe rely on together.                   *)
EXTENDS OAuthLogin, OAuthLease

SignInInit == LoginInit /\ LeaseInit
SignInSpec == LoginSpec /\ LeaseSpec

\* A denial is reported, a success rests on a callback, a screen is clicked once, no
\* call ends on a closed tab or leaves one behind, and one operation runs at a time.
SignInSafe ==
  /\ LoginTypeOK /\ DenialIsReported /\ CompletedByReturn
  /\ OnceEach /\ EndsOnLiveTab /\ NoTabLeft
  /\ LeaseTypeOK /\ OneAtATime
=============================================================================
