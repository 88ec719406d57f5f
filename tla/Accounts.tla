------------------------------ MODULE Accounts ------------------------------
(***************************************************************************)
(* Accounts and sessions (auth/handler.go, jwt.go, oidc.go, seed.go).  An  *)
(* account is a workspace and a user, created by two calls to the store    *)
(* that other requests, a failing store and a crash come between; a        *)
(* session is an access and a refresh token.  The user store outlives the  *)
(* control plane, the revocations do not.                                  *)
(***************************************************************************)
EXTENDS Naturals, Sequences, FiniteSets

CONSTANTS
    Emails,
    AuthRequests,          \* requests that may be under way at once
    MaxSessions, MaxStoreFaults   \* bounds: sessions issued, failed calls and restarts

VARIABLES
    users,        \* users[e]: the workspace of the account of e, 0 for none
    workspaces,   \* the workspaces in the store
    made,         \* how many were ever created
    orphaned,     \* history: emails whose user was stored by a call that failed
    left,         \* workspaces nothing will remove: seeded, undo failed or process gone
    authRequest,      \* authRequest[r]: what it is, how far, the email, the workspace made, the session used
    sessions,     \* sessions issued: email, workspace
    revoked,      \* the tokens on the blocklist: <<"access" or "refresh", session>>
    storeFaults

accountVars == <<users, workspaces, made, left, orphaned, authRequest, sessions, revoked, storeFaults>>
accountStore == <<users, workspaces, made, left, orphaned>>

NoAuthRequest == [kind |-> "none", at |-> "idle", email |-> CHOOSE e \in Emails : TRUE, workspace |-> 0, session |-> 0]

AccountsInit ==
    /\ users = [e \in Emails |-> 0] /\ workspaces = {} /\ made = 0 /\ left = {} /\ orphaned = {}
    /\ authRequest = [r \in AuthRequests |-> NoAuthRequest] /\ sessions = <<>> /\ revoked = {}
    /\ storeFaults = 0

To(r, at) == authRequest' = [authRequest EXCEPT ![r].at = at]
End(r) == authRequest' = [authRequest EXCEPT ![r] = NoAuthRequest]
StoreFault == storeFaults < MaxStoreFaults /\ storeFaults' = storeFaults + 1

-----------------------------------------------------------------------------
\* Requests.  The kinds: sign_up, sso (the callback of single sign-on), seed
\* (at start), sign_in and refresh.

Arrive(r, kind, e) ==
    /\ authRequest[r] = NoAuthRequest /\ kind \in {"sign_up", "sign_in", "sso", "seed"}
    /\ authRequest' = [authRequest EXCEPT ![r] = [NoAuthRequest EXCEPT !.kind = kind, !.at = "lookup", !.email = e]]
    /\ UNCHANGED <<accountStore, sessions, revoked, storeFaults>>

\* Seed, at start, takes the same steps; it does not remove the workspace when the
\* user cannot be created.
Seed(r, e) == Arrive(r, "seed", e)

\* The refresh token verifies, account and workspace are loaded later.
ArriveRefresh(r, s) ==
    /\ authRequest[r] = NoAuthRequest /\ s \in 1..Len(sessions) /\ <<"refresh", s>> \notin revoked
    /\ authRequest' = [authRequest EXCEPT ![r] = [NoAuthRequest EXCEPT !.kind = "refresh", !.at = "rotate",
                                                     !.email = sessions[s].email, !.session = s]]
    /\ UNCHANGED <<accountStore, sessions, revoked, storeFaults>>

\* An email that has an account: sign-up and seed stop, single sign-on goes
\* on with it, and so does a sign-in whose password is right, both if its
\* workspace is found.
Known(r) ==
    LET q == authRequest[r] e == q.email
    IN  /\ q.at = "lookup" /\ users[e] # 0
        /\ \/ (q.kind \in {"sign_up", "seed", "sign_in"} \/ users[e] \notin workspaces) /\ End(r)
           \/ /\ q.kind \in {"sso", "sign_in"} /\ users[e] \in workspaces
              /\ authRequest' = [authRequest EXCEPT ![r].at = "sign", ![r].workspace = users[e]]
        /\ UNCHANGED <<accountStore, sessions, revoked, storeFaults>>

Unknown(r) ==
    LET q == authRequest[r]
    IN  /\ q.at = "lookup" /\ users[q.email] = 0
        /\ IF q.kind = "sign_in" THEN End(r) ELSE To(r, "workspace")
        /\ UNCHANGED <<accountStore, sessions, revoked, storeFaults>>

\* A slug that is taken is tried again with a random ending.
CreateWorkspace(r) ==
    /\ authRequest[r].at = "workspace"
    /\ made' = made + 1 /\ workspaces' = workspaces \cup {made + 1}
    /\ left' = left \cup (IF authRequest[r].kind = "seed" THEN {made + 1} ELSE {})
    /\ authRequest' = [authRequest EXCEPT ![r].at = "user", ![r].workspace = made + 1]
    /\ UNCHANGED <<users, orphaned, sessions, revoked, storeFaults>>

\* A username that is taken is tried again with a random ending; an email
\* that another request has given an account is taken every time.
CreateUser(r) ==
    LET q == authRequest[r]
    IN  /\ q.at = "user"
        /\ IF users[q.email] = 0
           THEN /\ users' = [users EXCEPT ![q.email] = q.workspace]
                /\ IF q.kind = "seed" THEN End(r) ELSE To(r, "sign")
           ELSE /\ IF q.kind = "seed" THEN End(r) ELSE To(r, "undo")
                /\ UNCHANGED users
        /\ UNCHANGED <<workspaces, made, left, orphaned, sessions, revoked, storeFaults>>

\* Mutant: the workspace of a refused account is left.
UndoNothing(r) == authRequest[r].at = "undo" /\ End(r) /\ UNCHANGED <<workspaces, left>>

Undo(r) ==
    /\ authRequest[r].at = "undo" /\ End(r)
    /\ workspaces' = workspaces \ {authRequest[r].workspace} /\ UNCHANGED left

UndoAccount(r) ==
    /\ Undo(r) /\ UNCHANGED <<users, made, orphaned, sessions, revoked, storeFaults>>

\* A call to the store fails without effect: the request is refused; while the
\* workspace is being removed nothing tries again.
StoreFails(r) ==
    /\ authRequest[r].at \in {"lookup", "workspace", "user", "undo", "rotate"} /\ StoreFault
    /\ IF authRequest[r].at = "user" /\ authRequest[r].kind # "seed" THEN To(r, "undo") ELSE End(r)
    /\ left' = left \cup (IF authRequest[r].at = "undo" THEN {authRequest[r].workspace} ELSE {})
    /\ UNCHANGED <<users, workspaces, made, orphaned, sessions, revoked>>

\* A call is applied and fails all the same: a workspace that no request knows
\* of, a user whose workspace its own request then removes, or the removal.
AnswerLost(r) ==
    LET q == authRequest[r] e == q.email
    IN  /\ StoreFault /\ UNCHANGED <<sessions, revoked>>
        /\ \/ /\ q.at = "workspace" /\ End(r)
              /\ made' = made + 1 /\ workspaces' = workspaces \cup {made + 1} /\ left' = left \cup {made + 1}
              /\ UNCHANGED <<users, orphaned>>
           \/ /\ q.at = "user" /\ users[e] = 0 /\ users' = [users EXCEPT ![e] = q.workspace]
              /\ IF q.kind = "seed" THEN End(r) /\ UNCHANGED orphaned
                                    ELSE To(r, "undo") /\ orphaned' = orphaned \cup {e}
              /\ UNCHANGED <<workspaces, made, left>>
           \/ Undo(r) /\ UNCHANGED <<users, made, orphaned>>

\* Sign and SignRefresh (after single sign-on behind a code: SingleSignOn).
Issue(r) ==
    /\ authRequest[r].at = "sign" /\ Len(sessions) < MaxSessions
    /\ sessions' = Append(sessions, [email |-> authRequest[r].email, workspace |-> authRequest[r].workspace])
    /\ End(r)
    /\ UNCHANGED <<accountStore, revoked, storeFaults>>

\* The old refresh token is revoked before the new ones are signed.
Rotate(r) ==
    LET q == authRequest[r]
    IN  /\ q.at = "rotate"
        /\ IF users[q.email] # 0 /\ sessions[q.session].workspace \in workspaces
           THEN /\ revoked' = revoked \cup {<<"refresh", q.session>>}
                /\ authRequest' = [authRequest EXCEPT ![r].at = "sign", ![r].workspace = users[q.email]]
           ELSE End(r) /\ UNCHANGED revoked
        /\ UNCHANGED <<accountStore, sessions, storeFaults>>

\* Signing out revokes the access token that was sent.
SignOut(s) ==
    /\ s \in 1..Len(sessions) /\ <<"access", s>> \notin revoked
    /\ revoked' = revoked \cup {<<"access", s>>}
    /\ UNCHANGED <<accountStore, authRequest, sessions, storeFaults>>

\* The process is replaced: what it was doing is lost, and so is the
\* blocklist.
AuthRestarts ==
    /\ StoreFault
    /\ left' = left \cup {authRequest[r].workspace : r \in {r \in AuthRequests : authRequest[r].at \in {"user", "undo"}}}
    /\ authRequest' = [r \in AuthRequests |-> NoAuthRequest] /\ revoked' = {}
    /\ UNCHANGED <<users, workspaces, made, orphaned, sessions>>

AccountsNext ==
    \/ AuthRestarts
    \/ \E s \in 1..MaxSessions : SignOut(s)
    \/ \E r \in AuthRequests :
         \/ \E e \in Emails, kind \in {"sign_up", "sign_in", "sso"} : Arrive(r, kind, e)
         \/ \E e \in Emails : Seed(r, e)
         \/ \E s \in 1..MaxSessions : ArriveRefresh(r, s)
         \/ Known(r) \/ Unknown(r) \/ CreateWorkspace(r) \/ CreateUser(r) \/ UndoAccount(r)
         \/ StoreFails(r) \/ AnswerLost(r) \/ Issue(r) \/ Rotate(r)

AccountsSpec == AccountsInit /\ [][AccountsNext]_accountVars

-----------------------------------------------------------------------------
\* Accounts stay whole while requests for one email race and the store
\* fails: the workspace of every account and of every session is there,
\* every session is of the account its email has, and a workspace that no
\* account has belongs to a request still under way unless a failure, a
\* crash or the seeding left it.  The exception is an account whose user was
\* stored by a call that failed: signUp and resolveOIDCUser remove its
\* workspace after any error of CreateUser, and the account stays without one.
AccountsWhole ==
    /\ \A e \in Emails : users[e] # 0 => users[e] \in workspaces \/ e \in orphaned
    /\ \A s \in 1..Len(sessions) : users[sessions[s].email] = sessions[s].workspace
    /\ \A w \in workspaces \ left :
         (\E e \in Emails : users[e] = w) \/ \E r \in AuthRequests : authRequest[r].workspace = w
=============================================================================
