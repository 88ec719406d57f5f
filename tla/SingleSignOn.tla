---------------------------- MODULE SingleSignOn ----------------------------
(***************************************************************************)
(* Single sign-on through an OpenID provider (auth/oidc.go, the oidc       *)
(* handlers and the pending tokens of auth/handler.go), in the tabs of one *)
(* browser, which share one state cookie.  A login sets the cookie and     *)
(* goes to the provider with its state; the callback brings state and      *)
(* cookie back and clears the cookie with its answer; the page then        *)
(* fetches its session with a code.  Tabs overtake each other everywhere.  *)
(***************************************************************************)
EXTENDS Naturals

CONSTANTS
    Tabs, Pages,     \* browser tabs; pages of this frontend one may ask to come back to
    MaxLogins        \* bound: logins, which also number the states

VARIABLES
    resolved,     \* the provider's configuration has been fetched
    logins,
    cookie,       \* the browser's state cookie: login and return URL, login 0 for none
    tab,          \* tab[t]: how far, login, page asked for, cookie sent, page got, whose email
    codes         \* codes[t]: the pending tokens: none, fresh or stale

ssoVars == <<resolved, logins, cookie, tab, codes>>

NoCookie == [login |-> 0, page |-> "/"]
Closed == [at |-> "closed", login |-> 0, asked |-> "/", sent |-> NoCookie, got |-> "/", email |-> ""]

SsoInit ==
    /\ resolved = FALSE /\ logins = 0 /\ cookie = NoCookie
    /\ tab = [t \in Tabs |-> Closed] /\ codes = [t \in Tabs |-> "none"]

\* A page of another site is replaced by the start page.
SanitizeReturnURL(page) == IF page \in Pages THEN page ELSE "/"

\* The first call fetches the provider's configuration; a failure is not kept.
ProviderConfig(answers) == resolved \/ answers

OidcLogin(t, page) ==
    /\ tab[t].at = "closed" /\ logins < MaxLogins
    /\ \E answers \in BOOLEAN : ProviderConfig(answers) /\ resolved' = TRUE
    /\ logins' = logins + 1
    /\ cookie' = [login |-> logins + 1, page |-> SanitizeReturnURL(page)]
    /\ tab' = [tab EXCEPT ![t] = [Closed EXCEPT !.at = "provider", !.login = logins + 1, !.asked = page]]
    /\ UNCHANGED codes

\* The provider sends the browser back with a code or an error; the request
\* carries the cookie the browser has now.
ProviderAnswers(t, ok) ==
    /\ tab[t].at = "provider"
    /\ tab' = [tab EXCEPT ![t].at = IF ok THEN "callback" ELSE "refused", ![t].sent = cookie]
    /\ UNCHANGED <<resolved, logins, cookie, codes>>

\* Ten minutes pass: the cookie is gone, and a callback that carries it is late.
StateExpires ==
    /\ cookie # NoCookie /\ cookie' = NoCookie
    /\ tab' = [t \in Tabs |-> IF tab[t].at = "callback" /\ tab[t].sent = cookie
                              THEN [tab[t] EXCEPT !.sent = NoCookie] ELSE tab[t]]
    /\ UNCHANGED <<resolved, logins, codes>>

\* Mutant: any state cookie will do.
StateGiven(t) == tab[t].sent # NoCookie

StateMatches(t) == tab[t].sent # NoCookie /\ tab[t].sent.login = tab[t].login

\* What the ID token says first, then the user information.
MergeOIDCIdentity(primary, fallback) == IF primary = "" THEN fallback ELSE primary
IdentityFromToken(claims, userInfo) == MergeOIDCIdentity(claims, IF claims = "" THEN userInfo ELSE "")

\* oidcCallback: the identity has an email, its account is found or made and
\* the tokens wait behind a code.
OidcCallback(t, claims, userInfo, answers) ==
    LET email == IdentityFromToken(claims, userInfo)
        good  == tab[t].at = "callback" /\ StateMatches(t) /\ ProviderConfig(answers) /\ email # ""
    IN  /\ tab[t].at \in {"callback", "refused"}
        /\ tab' = [tab EXCEPT ![t].at = IF good THEN "answered" ELSE "failing", ![t].got = tab[t].sent.page,
                              ![t].email = IF good THEN email ELSE ""]
        /\ codes' = [codes EXCEPT ![t] = IF good THEN "fresh" ELSE @]
        /\ resolved' = (resolved \/ good) /\ UNCHANGED <<logins, cookie>>

\* The answer clears the cookie, whichever login it is of by now.
CallbackArrives(t) ==
    /\ tab[t].at \in {"answered", "failing"} /\ cookie' = NoCookie
    /\ tab' = [tab EXCEPT ![t].at = IF @ = "answered" THEN "exchanging" ELSE "closed"]
    /\ UNCHANGED <<resolved, logins, codes>>

CodeExpires(t) ==
    /\ codes[t] = "fresh" /\ codes' = [codes EXCEPT ![t] = "stale"]
    /\ UNCHANGED <<resolved, logins, cookie, tab>>

\* oidcTokenExchange: the code is used up even when it is too old.
Consume(t) ==
    /\ tab[t].at = "exchanging" /\ codes' = [codes EXCEPT ![t] = "none"]
    /\ tab' = [tab EXCEPT ![t].at = IF codes[t] = "fresh" THEN "in" ELSE "closed"]
    /\ UNCHANGED <<resolved, logins, cookie>>

CloseTab(t) ==
    /\ tab[t].at \in {"in", "provider"} /\ tab' = [tab EXCEPT ![t] = Closed]
    /\ UNCHANGED <<resolved, logins, cookie, codes>>

\* The control plane restarts: configuration and codes are in its memory.
SsoRestarts ==
    /\ resolved /\ resolved' = FALSE /\ codes' = [t \in Tabs |-> "none"]
    /\ UNCHANGED <<logins, cookie, tab>>

TabStep(t) == CallbackArrives(t) \/ Consume(t) \/ \E c, u \in {"", "e1", "e2"}, b \in BOOLEAN : OidcCallback(t, c, u, b)

SsoNext ==
    \/ StateExpires \/ SsoRestarts
    \/ \E t \in Tabs : \/ \E page \in Pages \cup {"elsewhere"} : OidcLogin(t, page)
                       \/ \E ok \in BOOLEAN : ProviderAnswers(t, ok)
                       \/ TabStep(t) \/ CodeExpires(t) \/ CloseTab(t)

SsoSpec == SsoInit /\ [][SsoNext]_ssoVars

-----------------------------------------------------------------------------
\* A tab that is signed in got there by its own login: it comes back to the
\* page it asked for, or to the start page instead of another site's, with an
\* email, and its code is gone, whatever the other tabs did to the cookie.
SignedInAsAsked ==
    \A t \in Tabs : tab[t].at \in {"answered", "exchanging", "in"} =>
        /\ tab[t].got = SanitizeReturnURL(tab[t].asked) /\ tab[t].email # ""
        /\ tab[t].at = "in" => codes[t] = "none"
=============================================================================
