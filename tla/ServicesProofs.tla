--------------------------- MODULE ServicesProofs ---------------------------
(***************************************************************************)
(* Machine-checked proofs about the services of the control plane that     *)
(* keep state of their own, for any number of runs, requests, people,      *)
(* tabs, saves and goroutines: the environments page, accounts, password   *)
(* resets, single sign-on, the sign-in limits, the saves of executions,    *)
(* the overview, the state of mocks and the hand-over of steps.  They      *)
(* share no state; each part has its own invariant, and the theorems hold  *)
(* in their composition (MCServices.tla).                                  *)
(***************************************************************************)
EXTENDS MCServices, FiniteSetTheorems, TLAPS

-----------------------------------------------------------------------------
(* Environments *)

\* What tells a run of this process from a leftover: the containers of a run on
\* the host that this process booted carry its process id, also when an earlier
\* process had the same one.
EnvironmentsInv ==
    /\ run \in [Runs -> {"none", "running", "failing", "ended", "lost"}]
    /\ quietRun \in [Runs -> BOOLEAN]
    /\ \A r \in HostRuns : run[r] \in {"running", "failing", "ended"} => label[r] = pid
    /\ pid \in processes

\* Every step of the page, of the runs and of the process keeps that.
LEMMA EnvironmentsStep == EnvironmentsInv /\ [EnvironmentsNext]_environmentVars => EnvironmentsInv'
<1> SUFFICES ASSUME EnvironmentsInv, [EnvironmentsNext]_environmentVars PROVE EnvironmentsInv'
  OBVIOUS
<1> USE DEF EnvironmentsInv, Runs
<1>1. ASSUME NEW r \in Runs, Boot(r) PROVE EnvironmentsInv'
  BY <1>1 DEF Boot
<1>a. ASSUME NEW r \in Runs, EvictRun(r) PROVE EnvironmentsInv'
  BY <1>a DEF EvictRun, hostVars
<1>2. ASSUME NEW r \in Runs, StepStarts(r) \/ ContainerExits(r) \/ TwoMinutesPass(r) PROVE EnvironmentsInv'
  BY <1>2 DEF StepStarts, ContainerExits, TwoMinutesPass, runVars, hostVars
<1>3. ASSUME NEW r \in Runs, StepFails(r) \/ LastStepEnds(r) PROVE EnvironmentsInv'
  BY <1>3 DEF StepFails, LastStepEnds, hostVars
<1>4. CASE ProcessRestarts
  BY <1>4 DEF ProcessRestarts
<1>5. ASSUME UNCHANGED runVars PROVE EnvironmentsInv'
  BY <1>5 DEF runVars, hostVars
<1>6. ASSUME NEW r \in Runs, DestroyExecution(r) \/ ReapSandbox(r) PROVE UNCHANGED runVars
  BY <1>6 DEF DestroyExecution, ReapSandbox
<1>7. CASE ReapAll \/ ReapContainers \/ ReapNetworks \/ ReapAllRemote \/ BackendsComeAndGo
  BY <1>5, <1>7 DEF ReapAll, ReapContainers, ReapNetworks, ReapAllRemote, BackendsComeAndGo
<1>8. CASE UNCHANGED environmentVars
  BY <1>5, <1>8 DEF environmentVars, runVars, hostVars
<1>9. QED
  BY <1>1, <1>a, <1>2, <1>3, <1>4, <1>5, <1>6, <1>7, <1>8 DEF EnvironmentsNext

\* The page tells leaks from runs (ZombiesAreLost), for any runs on any backends:
\* what a run left behind is shown as a zombie, and a run that has not failed, or
\* had an event in the last two minutes, is not while the processes of the host
\* can be listed and its record is kept.
THEOREM ZombiesTold == EnvironmentsSpec => []ZombiesAreLost
<1>1. EnvironmentsInit => EnvironmentsInv
  BY DEF EnvironmentsInit, EnvironmentsInv
<1>2. EnvironmentsInv => ZombiesAreLost
  <2> SUFFICES ASSUME EnvironmentsInv, NEW r \in Runs, Listed(r)
               PROVE  /\ run[r] = "lost" /\ (r \in HostRuns => BoxState(r) = "running" /\ label[r] \notin processes)
                            => Snapshot[r] = "Zombie"
                      /\ (run[r] = "running" \/ (run[r] \in {"failing", "ended"} /\ ~quietRun[r]))
                            /\ (IF r \in HostRuns THEN ps ELSE r \notin evicted)
                            => Snapshot[r] # "Zombie"
    BY DEF ZombiesAreLost
  <2>1. Snapshot[r] = SandboxStatus(r)
    BY DEF Snapshot
  <2>2. (SandboxStatus(r) = "Zombie") <=> IsZombie(r)
    BY DEF SandboxStatus
  <2>3. CASE r \in HostRuns
    BY <2>1, <2>2, <2>3 DEF IsZombie, Alive, EnvironmentsInv
  <2>4. CASE r \notin HostRuns
    BY <2>1, <2>2, <2>4 DEF IsZombie, RunOwned, EnvironmentsInv
  <2>5. QED
    BY <2>3, <2>4
<1>3. QED
  BY <1>1, <1>2, EnvironmentsStep, PTL DEF EnvironmentsSpec

-----------------------------------------------------------------------------
(* Password resets *)

\* What a reset, under way or not, may hold.
Resets == [link : Nat, of : People \cup {NoReset.of}]

\* Link n has been mailed to p.
MailedTo(n, p) == n \in 1..Len(links) /\ links[n] = p

\* A link is in one of three places: its token waits in the store and it has not
\* been used, or a reset has taken it, once, or it is gone.  Those not mailed yet
\* have not been used.
ResetTyped ==
    /\ links \in Seq(People) /\ Len(links) <= MaxLinks
    /\ token \in [People -> Nat] /\ password \in [People -> Nat] /\ spent \in [1..MaxLinks -> 0..1]
    /\ reset \in [ResetCalls -> Resets]
Unmailed == \A n \in 1..MaxLinks : n > Len(links) => spent[n] = 0
Waiting(p) == token[p] # 0 => MailedTo(token[p], p) /\ spent[token[p]] = 0
Taken(q) ==
    reset[q] # NoReset =>
        reset[q].of \in People /\ MailedTo(reset[q].link, reset[q].of) /\ spent[reset[q].link] = 1
Changed(p) == password[p] # 0 => MailedTo(password[p], p) /\ spent[password[p]] = 1

ResetInv ==
    /\ ResetTyped /\ Unmailed
    /\ \A p \in People : Waiting(p) /\ Changed(p)
    /\ \A q \in ResetCalls : Taken(q)

\* A link is mailed: those mailed before keep their places.
LEMMA ResetMailed == ASSUME ResetInv, NEW p \in People, ForgotPassword(p) PROVE ResetInv'
<1> USE LinksAssumption DEF ResetInv
<1>1. /\ links' \in Seq(People) /\ Len(links') = Len(links) + 1 /\ Len(links') \in 1..MaxLinks
      /\ links'[Len(links) + 1] = p
      /\ \A n \in 1..Len(links) : links'[n] = links[n]
  BY DEF ForgotPassword, StorePasswordResetToken, ResetTyped
<1>2. token' \in [People -> Nat] /\ token'[p] = Len(links) + 1 /\ \A o \in People \ {p} : token'[o] = token[o]
  BY <1>1 DEF ForgotPassword, StorePasswordResetToken, ResetTyped
<1>3. UNCHANGED <<reset, password, spent>>
  BY DEF ForgotPassword, StorePasswordResetToken
<1>4. ASSUME NEW n, NEW o, MailedTo(n, o) PROVE MailedTo(n, o)'
  <2>1. Len(links) \in Nat /\ n \in 1..Len(links) /\ links[n] = o
    BY <1>4 DEF MailedTo, ResetTyped
  <2>2. n \in 1..Len(links')
    BY <1>1, <2>1
  <2>3. QED
    BY <1>1, <2>1, <2>2 DEF MailedTo
<1>5. ResetTyped' /\ Unmailed'
  <2>1. Len(links) \in Nat /\ Len(links') \in Nat /\ Len(links') > Len(links) /\ Len(links') <= MaxLinks
    BY <1>1 DEF ResetTyped
  <2>2. ResetTyped'
    BY <1>1, <1>2, <1>3, <2>1 DEF ResetTyped
  <2>3. ASSUME NEW n \in 1..MaxLinks, n > Len(links') PROVE spent'[n] = 0
    BY <1>3, <2>1, <2>3 DEF Unmailed
  <2>4. QED
    BY <2>2, <2>3 DEF Unmailed
<1>6. ASSUME NEW o \in People PROVE Waiting(o)'
  <2>1. CASE o = p
    BY <2>1, <1>1, <1>2, <1>3 DEF Waiting, MailedTo, Unmailed, ResetTyped
  <2>2. CASE o # p
    BY <2>2, <1>2, <1>3, <1>4 DEF Waiting
  <2>3. QED
    BY <2>1, <2>2
<1>7. ASSUME NEW o \in People PROVE Changed(o)'
  BY <1>3, <1>4 DEF Changed
<1>8. ASSUME NEW q \in ResetCalls PROVE Taken(q)'
  BY <1>3, <1>4 DEF Taken
<1> QED
  BY <1>5, <1>6, <1>7, <1>8

\* A link is used: its token goes, and the reset has it.
LEMMA ResetConsumed ==
    ASSUME ResetInv, NEW q \in ResetCalls, NEW n \in 1..MaxLinks, ConsumePasswordResetToken(q, n)
    PROVE  ResetInv'
<1> USE LinksAssumption DEF ResetInv
<1>1. PICK p \in People \ stale :
          /\ token[p] = n /\ DeleteToken(p)
          /\ reset' = [reset EXCEPT ![q] = [link |-> n, of |-> p]]
  BY DEF ConsumePasswordResetToken
<1>2. spent' = [spent EXCEPT ![n] = @ + 1] /\ UNCHANGED <<links, stale, password>>
  BY DEF ConsumePasswordResetToken
<1>3. MailedTo(n, p) /\ spent[n] = 0
  BY <1>1 DEF Waiting
<1>4. spent' \in [1..MaxLinks -> 0..1] /\ spent'[n] = 1 /\ \A m : m # n => spent'[m] = spent[m]
  BY <1>2, <1>3 DEF ResetTyped
<1>5. token' \in [People -> Nat] /\ token'[p] = 0 /\ \A o \in People \ {p} : token'[o] = token[o]
  BY <1>1 DEF DeleteToken, ResetTyped
<1>6. [link |-> n, of |-> p] \in Resets
  BY DEF Resets
<1>7. /\ reset' \in [ResetCalls -> Resets]
      /\ reset'[q] = [link |-> n, of |-> p] /\ \A o \in ResetCalls \ {q} : reset'[o] = reset[o]
  BY <1>1, <1>6 DEF ResetTyped
<1>8. ASSUME NEW m, NEW o PROVE MailedTo(m, o)' <=> MailedTo(m, o)
  BY <1>2 DEF MailedTo
<1>9. ResetTyped' /\ Unmailed'
  <2>1. ResetTyped'
    BY <1>2, <1>4, <1>5, <1>7 DEF ResetTyped
  <2>2. n <= Len(links) /\ Len(links) \in Nat
    BY <1>3 DEF ResetTyped, MailedTo
  <2>3. ASSUME NEW m \in 1..MaxLinks, m > Len(links) PROVE spent'[m] = 0
    BY <1>4, <2>2, <2>3 DEF Unmailed
  <2>4. QED
    BY <1>2, <2>1, <2>3 DEF Unmailed
<1>10. ASSUME NEW o \in People PROVE Waiting(o)' /\ Changed(o)'
  <2>1. token'[o] # 0 => token'[o] = token[o] /\ token[o] # n
    BY <1>1, <1>3, <1>5 DEF Waiting, MailedTo
  <2>2. password'[o] = password[o] /\ (password[o] # 0 => password[o] # n)
    BY <1>2, <1>3 DEF Changed
  <2>3. QED
    BY <2>1, <2>2, <1>4, <1>8 DEF Waiting, Changed
<1>11. ASSUME NEW o \in ResetCalls PROVE Taken(o)'
  <2>1. CASE o = q
    BY <2>1, <1>3, <1>4, <1>7, <1>8 DEF Taken
  <2>2. CASE o # q
    BY <2>2, <1>3, <1>4, <1>7, <1>8 DEF Taken
  <2>3. QED
    BY <2>1, <2>2
<1> QED
  BY <1>9, <1>10, <1>11

\* A reset ends: the password is set with its link, or is not.
LEMMA ResetUpdated == ASSUME ResetInv, NEW q \in ResetCalls, UpdatePassword(q) PROVE ResetInv'
<1> USE DEF ResetInv
<1>1. /\ reset[q] # NoReset /\ reset' = [reset EXCEPT ![q] = NoReset] /\ UNCHANGED <<links, token, stale, spent>>
      /\ password' = [password EXCEPT ![reset[q].of] = reset[q].link] \/ password' = password
  BY DEF UpdatePassword
<1>2. reset[q].of \in People /\ MailedTo(reset[q].link, reset[q].of) /\ spent[reset[q].link] = 1
  BY <1>1 DEF Taken
<1>3. ASSUME NEW m, NEW o PROVE MailedTo(m, o)' <=> MailedTo(m, o)
  BY <1>1 DEF MailedTo
<1>4. NoReset \in Resets
  BY DEF NoReset, Resets
<1>5. /\ reset' \in [ResetCalls -> Resets]
      /\ reset'[q] = NoReset /\ \A o \in ResetCalls \ {q} : reset'[o] = reset[o]
  BY <1>1, <1>4 DEF ResetTyped
<1>6. reset[q].link \in Nat
  BY <1>2 DEF MailedTo, ResetTyped
<1>7. /\ password' \in [People -> Nat]
      /\ \A o \in People : password'[o] = password[o] \/ (o = reset[q].of /\ password'[o] = reset[q].link)
  BY <1>1, <1>2, <1>6 DEF ResetTyped
<1>8. ResetTyped' /\ Unmailed'
  BY <1>1, <1>5, <1>7 DEF ResetTyped, Unmailed
<1>9. ASSUME NEW o \in People PROVE Waiting(o)' /\ Changed(o)'
  BY <1>1, <1>2, <1>3, <1>7 DEF Waiting, Changed
<1>10. ASSUME NEW o \in ResetCalls PROVE Taken(o)'
  BY <1>1, <1>3, <1>5 DEF Taken
<1> QED
  BY <1>8, <1>9, <1>10

\* However resets and new links overlap, a link sets the password of the one it
\* was mailed to, and does so once (LinksWorkOnce), for any number of people,
\* links and resets under way.
THEOREM ResetLinksWorkOnce == ResetSpec => []LinksWorkOnce
<1>1. ResetInit => ResetInv
  BY LinksAssumption
  DEF ResetInit, ResetInv, ResetTyped, Unmailed, Waiting, Changed, Taken, Resets, NoReset, MailedTo
<1>2. ResetInv /\ [ResetNext]_resetVars => ResetInv'
  <2> SUFFICES ASSUME ResetInv, [ResetNext]_resetVars PROVE ResetInv'
    OBVIOUS
  <2>1. ASSUME NEW p \in People, TokenExpires(p) PROVE ResetInv'
    BY <2>1 DEF TokenExpires, ResetInv, ResetTyped, Unmailed, Waiting, Changed, Taken, MailedTo
  <2>2. CASE UNCHANGED resetVars
    BY <2>2 DEF resetVars, ResetInv, ResetTyped, Unmailed, Waiting, Changed, Taken, MailedTo
  <2>3. QED
    BY <2>1, <2>2, ResetMailed, ResetConsumed, ResetUpdated DEF ResetNext
<1>3. ResetInv => LinksWorkOnce
  <2> SUFFICES ASSUME ResetInv PROVE LinksWorkOnce
    OBVIOUS
  <2>1. \A n \in 1..MaxLinks : spent[n] <= 1
    BY LinksAssumption DEF ResetInv, ResetTyped
  <2>2. \A p \in People : password[p] # 0 => links[password[p]] = p /\ spent[password[p]] = 1
    BY DEF ResetInv, Changed, MailedTo
  <2>3. QED
    BY <2>1, <2>2 DEF LinksWorkOnce
<1>4. QED
  BY <1>1, <1>2, <1>3, PTL DEF ResetSpec

-----------------------------------------------------------------------------
(* Single sign-on *)

AnyPage == Pages \cup {"/", "elsewhere"}
Cookies == [login : Nat, page : AnyPage]
TabStates ==
    [at : {"closed", "provider", "callback", "refused", "answered", "failing", "exchanging", "in"},
     login : Nat, asked : AnyPage, sent : Cookies, got : AnyPage, email : {"", "e1", "e2"}]

SsoTyped ==
    /\ logins \in Nat /\ resolved \in BOOLEAN /\ cookie \in Cookies
    /\ tab \in [Tabs -> TabStates] /\ codes \in [Tabs -> {"none", "fresh", "stale"}]

\* A cookie, the browser's or one that was sent, that names the login of tab s
\* has the page that tab asked for: logins are numbered, so it was set by that
\* login and no other.
OwnPage(c, s) == s.login # 0 /\ c.login = s.login => c.page = SanitizeReturnURL(s.asked)

\* How far tab s may be, and with what.
TabSound(s) ==
    /\ s.login <= logins /\ OwnPage(cookie, s) /\ OwnPage(s.sent, s)
    /\ s.at \in {"provider", "callback"} => s.login # 0
    /\ s.at \in {"answered", "exchanging", "in"} => s.got = SanitizeReturnURL(s.asked) /\ s.email # ""

SsoInv ==
    /\ SsoTyped /\ cookie.login <= logins
    /\ \A t \in Tabs : TabSound(tab[t]) /\ (tab[t].at = "in" => codes[t] = "none")

\* What the steps set pages to are pages.
LEMMA SsoPages ==
    /\ NoCookie \in Cookies /\ Closed \in TabStates
    /\ \A page \in AnyPage : SanitizeReturnURL(page) \in AnyPage
BY DEF NoCookie, Cookies, Closed, TabStates, AnyPage, SanitizeReturnURL

\* A tab that is closed is sound.
LEMMA SsoClosed == ASSUME logins \in Nat PROVE TabSound(Closed) /\ Closed.at = "closed"
<1>1. Closed.at = "closed" /\ Closed.login = 0
  BY DEF Closed
<1>2. QED
  BY <1>1 DEF TabSound, OwnPage

\* A login: its cookie is the browser's now, and no other tab has its number.
LEMMA SsoLogin == ASSUME SsoInv, NEW t \in Tabs, NEW page \in AnyPage, OidcLogin(t, page) PROVE SsoInv'
<1>1. PICK new : new = [Closed EXCEPT !.at = "provider", !.login = logins + 1, !.asked = page]
  OBVIOUS
<1>2. /\ logins' = logins + 1 /\ resolved' = TRUE /\ UNCHANGED codes
      /\ cookie' = [login |-> logins + 1, page |-> SanitizeReturnURL(page)]
      /\ tab' = [tab EXCEPT ![t] = new]
  BY <1>1 DEF OidcLogin
<1>3. new = [at |-> "provider", login |-> logins + 1, asked |-> page, sent |-> NoCookie, got |-> "/", email |-> ""]
  BY <1>1 DEF Closed
<1>4. logins \in Nat /\ tab \in [Tabs -> TabStates] /\ \A s \in Tabs : TabSound(tab[s])
  BY DEF SsoInv, SsoTyped
<1>5. /\ new \in TabStates /\ new.at = "provider" /\ new.login = logins + 1 /\ new.asked = page
      /\ new.sent = NoCookie
  <2>1. logins + 1 \in Nat
    BY <1>4
  <2>2. NoCookie \in Cookies /\ "/" \in AnyPage
    BY SsoPages DEF AnyPage
  <2>3. QED
    BY <1>3, <2>1, <2>2 DEF TabStates
<1>6. tab' \in [Tabs -> TabStates] /\ tab'[t] = new /\ \A s \in Tabs \ {t} : tab'[s] = tab[s]
  BY <1>2, <1>4, <1>5
<1>7. cookie' \in Cookies /\ cookie'.login = logins + 1 /\ cookie'.page = SanitizeReturnURL(page)
  BY <1>2, <1>4, SsoPages DEF Cookies
<1>8. SsoTyped' /\ cookie'.login <= logins'
  BY <1>2, <1>4, <1>6, <1>7 DEF SsoTyped, SsoInv
<1>9. TabSound(new)'
  <2>1. OwnPage(cookie, new)' /\ OwnPage(new.sent, new)'
    BY <1>2, <1>4, <1>5, <1>7 DEF OwnPage, NoCookie
  <2>2. QED
    <3>1. logins \in Nat /\ logins' = logins + 1
      BY <1>2, <1>4
    <3>2. QED
      BY <2>1, <3>1, <1>5 DEF TabSound
<1>10. ASSUME NEW s \in TabStates, TabSound(s) PROVE TabSound(s)'
  <2>1. s.login \in Nat /\ s.login <= logins
    BY <1>10 DEF TabStates, TabSound
  <2>2. OwnPage(cookie, s)' /\ s.login <= logins'
    BY <2>1, <1>2, <1>4, <1>7 DEF OwnPage
  <2>3. QED
    BY <2>2, <1>10 DEF TabSound, OwnPage
<1> QED
  BY <1>2, <1>4, <1>5, <1>6, <1>8, <1>9, <1>10 DEF SsoInv

\* The provider sends the tab back with the cookie the browser has then.
LEMMA SsoAnswers == ASSUME SsoInv, NEW t \in Tabs, NEW ok \in BOOLEAN, ProviderAnswers(t, ok) PROVE SsoInv'
<1>1. PICK new : new = [tab[t] EXCEPT !.at = IF ok THEN "callback" ELSE "refused", !.sent = cookie]
  OBVIOUS
<1>2. /\ cookie \in Cookies /\ tab \in [Tabs -> TabStates] /\ tab[t] \in TabStates
      /\ \A s \in Tabs : TabSound(tab[s])
  BY DEF SsoInv, SsoTyped
<1>3. tab' = [tab EXCEPT ![t] = new] /\ UNCHANGED <<resolved, logins, cookie, codes>> /\ tab[t].at = "provider"
  BY <1>1, <1>2 DEF ProviderAnswers
<1>4. /\ new \in TabStates /\ new.at \in {"callback", "refused"} /\ new.sent = cookie
      /\ new.login = tab[t].login /\ new.asked = tab[t].asked
  BY <1>1, <1>2 DEF TabStates
<1>5. tab' \in [Tabs -> TabStates] /\ tab'[t] = new /\ \A s \in Tabs \ {t} : tab'[s] = tab[s]
  BY <1>2, <1>3, <1>4
<1>6. SsoTyped' /\ cookie'.login <= logins'
  BY <1>3, <1>5 DEF SsoTyped, SsoInv
<1>7. TabSound(new)'
  BY <1>2, <1>3, <1>4 DEF TabSound, OwnPage
<1>8. ASSUME NEW s, TabSound(s) PROVE TabSound(s)'
  BY <1>3, <1>8 DEF TabSound, OwnPage
<1> QED
  BY <1>2, <1>3, <1>4, <1>5, <1>6, <1>7, <1>8 DEF SsoInv

\* The callback: only a cookie of the tab's own login is good.
LEMMA SsoCallback ==
    ASSUME SsoInv, NEW t \in Tabs, NEW c \in {"", "e1", "e2"}, NEW u \in {"", "e1", "e2"}, NEW b \in BOOLEAN,
           OidcCallback(t, c, u, b)
    PROVE  SsoInv'
<1>1. PICK email : email = IdentityFromToken(c, u)
  OBVIOUS
<1>2. PICK good \in BOOLEAN :
          good = (tab[t].at = "callback" /\ StateMatches(t) /\ ProviderConfig(b) /\ email # "")
  OBVIOUS
<1>3. PICK new : new = [tab[t] EXCEPT !.at = IF good THEN "answered" ELSE "failing", !.got = tab[t].sent.page,
                                      !.email = IF good THEN email ELSE ""]
  OBVIOUS
<1>4. /\ tab \in [Tabs -> TabStates] /\ tab[t] \in TabStates /\ codes \in [Tabs -> {"none", "fresh", "stale"}]
      /\ resolved \in BOOLEAN /\ \A s \in Tabs : TabSound(tab[s])
  BY DEF SsoInv, SsoTyped
<1>5. /\ tab' = [tab EXCEPT ![t] = new] /\ UNCHANGED <<logins, cookie>> /\ resolved' = (resolved \/ good)
      /\ codes' = [codes EXCEPT ![t] = IF good THEN "fresh" ELSE @]
  BY <1>1, <1>2, <1>3, <1>4 DEF OidcCallback
<1>6. email \in {"", "e1", "e2"}
  BY <1>1 DEF IdentityFromToken, MergeOIDCIdentity
<1>7. tab[t].sent.page \in AnyPage
  BY <1>4 DEF TabStates, Cookies
<1>8. /\ new \in TabStates /\ new.at = (IF good THEN "answered" ELSE "failing")
      /\ new.got = tab[t].sent.page /\ new.email = (IF good THEN email ELSE "")
      /\ new.login = tab[t].login /\ new.asked = tab[t].asked /\ new.sent = tab[t].sent
  BY <1>3, <1>4, <1>6, <1>7 DEF TabStates
<1>9. good => tab[t].sent.login = tab[t].login /\ tab[t].login # 0 /\ email # ""
  BY <1>2, <1>4 DEF StateMatches, TabSound
<1>10. /\ tab' \in [Tabs -> TabStates] /\ tab'[t] = new
       /\ \A s \in Tabs \ {t} : tab'[s] = tab[s] /\ codes'[s] = codes[s]
  BY <1>4, <1>5, <1>8
<1>11. codes' \in [Tabs -> {"none", "fresh", "stale"}] /\ resolved' \in BOOLEAN
  BY <1>4, <1>5
<1>12. SsoTyped' /\ cookie'.login <= logins'
  BY <1>5, <1>10, <1>11 DEF SsoTyped, SsoInv
<1>13. TabSound(new)'
  BY <1>4, <1>5, <1>8, <1>9 DEF TabSound, OwnPage
<1>14. ASSUME NEW s, TabSound(s) PROVE TabSound(s)'
  BY <1>5, <1>14 DEF TabSound, OwnPage
<1> QED
  BY <1>4, <1>8, <1>10, <1>12, <1>13, <1>14 DEF SsoInv

\* The answer of the callback and the exchange of the code move the tab on.
LEMMA SsoMoves ==
    ASSUME SsoInv, NEW t \in Tabs, CallbackArrives(t) \/ Consume(t)
    PROVE  SsoInv'
<1>1. /\ cookie \in Cookies /\ tab \in [Tabs -> TabStates] /\ tab[t] \in TabStates /\ logins \in Nat
      /\ codes \in [Tabs -> {"none", "fresh", "stale"}] /\ \A s \in Tabs : TabSound(tab[s])
  BY DEF SsoInv, SsoTyped
<1>2. PICK at \in {"exchanging", "closed", "in"} :
          /\ tab' = [tab EXCEPT ![t].at = at]
          /\ at # "closed" => tab[t].at \in {"answered", "exchanging"}
          /\ at = "in" => codes' = [codes EXCEPT ![t] = "none"]
  BY <1>1 DEF CallbackArrives, Consume
<1>3. /\ UNCHANGED <<resolved, logins>> /\ (cookie' = cookie \/ cookie' = NoCookie)
      /\ codes' = codes \/ codes' = [codes EXCEPT ![t] = "none"]
  BY DEF CallbackArrives, Consume
<1>4. PICK new : new = [tab[t] EXCEPT !.at = at]
  OBVIOUS
<1>5. /\ new \in TabStates /\ new.at = at /\ new.got = tab[t].got /\ new.email = tab[t].email
      /\ new.login = tab[t].login /\ new.asked = tab[t].asked /\ new.sent = tab[t].sent
  BY <1>1, <1>4 DEF TabStates
<1>6. /\ tab' \in [Tabs -> TabStates] /\ tab'[t] = new
      /\ \A s \in Tabs \ {t} : tab'[s] = tab[s]
  BY <1>1, <1>2, <1>4, <1>5
<1>7. /\ codes' \in [Tabs -> {"none", "fresh", "stale"}] /\ (at = "in" => codes'[t] = "none")
      /\ \A s \in Tabs \ {t} : codes'[s] = codes[s]
  BY <1>1, <1>2, <1>3
<1>8. cookie' \in Cookies /\ cookie'.login <= logins' /\ (cookie' = cookie \/ cookie'.login = 0)
  BY <1>1, <1>3, SsoPages DEF SsoInv, NoCookie
<1>9. SsoTyped'
  BY <1>3, <1>6, <1>7, <1>8 DEF SsoTyped, SsoInv
<1>10. ASSUME NEW s, TabSound(s) PROVE TabSound(s)'
  BY <1>3, <1>8, <1>10 DEF TabSound, OwnPage
<1>11. TabSound(new)'
  <2>1. TabSound(tab[t]) /\ (cookie' = cookie \/ cookie'.login = 0) /\ logins' = logins
    BY <1>1, <1>3, <1>8
  <2>2. OwnPage(cookie', new) /\ OwnPage(new.sent, new)
    BY <1>5, <2>1 DEF TabSound, OwnPage
  <2>3. new.at \notin {"provider", "callback"} /\ (new.at # "closed" => tab[t].at \in {"answered", "exchanging"})
    BY <1>2, <1>5
  <2>4. new.at \in {"answered", "exchanging", "in"} => new.got = SanitizeReturnURL(new.asked) /\ new.email # ""
    BY <1>5, <2>1, <2>3 DEF TabSound
  <2>5. QED
    BY <1>5, <2>1, <2>2, <2>3, <2>4 DEF TabSound, OwnPage
<1> QED
  BY <1>1, <1>5, <1>6, <1>7, <1>8, <1>9, <1>10, <1>11 DEF SsoInv

\* A tab that is signed in got there by its own login (SignedInAsAsked), for any
\* number of tabs of one browser that share one state cookie.
THEOREM SignedInByOwnLogin == SsoSpec => []SignedInAsAsked
<1>1. SsoInit => SsoInv
  <2> SUFFICES ASSUME SsoInit PROVE SsoInv
    OBVIOUS
  <2>1. SsoTyped
    BY SsoPages DEF SsoInit, SsoTyped
  <2>2. TabSound(Closed) /\ Closed.at = "closed"
    BY SsoClosed DEF SsoInit
  <2>3. QED
    BY <2>1, <2>2 DEF SsoInit, SsoInv, NoCookie
<1>2. SsoInv /\ [SsoNext]_ssoVars => SsoInv'
  <2> SUFFICES ASSUME SsoInv, [SsoNext]_ssoVars PROVE SsoInv'
    OBVIOUS
  <2>0. /\ cookie \in Cookies /\ tab \in [Tabs -> TabStates] /\ logins \in Nat
        /\ codes \in [Tabs -> {"none", "fresh", "stale"}] /\ \A s \in Tabs : TabSound(tab[s])
    BY DEF SsoInv, SsoTyped
  <2>1. CASE StateExpires
    <3>1. /\ UNCHANGED <<resolved, logins, codes>> /\ cookie' = NoCookie
          /\ \A t \in Tabs : tab'[t] = tab[t] \/ tab'[t] = [tab[t] EXCEPT !.sent = NoCookie]
      BY <2>1 DEF StateExpires
    <3>2. ASSUME NEW t \in Tabs PROVE tab'[t] \in TabStates /\ TabSound(tab[t])' /\ tab'[t].at = tab[t].at
      <4>1. CASE tab'[t] = tab[t]
        BY <3>1, <4>1, <2>0 DEF TabSound, OwnPage, NoCookie
      <4>2. CASE tab'[t] = [tab[t] EXCEPT !.sent = NoCookie]
        <5>1. /\ tab'[t] \in TabStates /\ tab'[t].at = tab[t].at /\ tab'[t].got = tab[t].got
              /\ tab'[t].email = tab[t].email /\ tab'[t].login = tab[t].login /\ tab'[t].asked = tab[t].asked
              /\ tab'[t].sent = NoCookie
          BY <4>2, <2>0, SsoPages DEF TabStates
        <5>2. NoCookie.login = 0
          BY DEF NoCookie
        <5>3. OwnPage(cookie, tab[t])' /\ OwnPage(tab[t].sent, tab[t])'
          BY <3>1, <5>1, <5>2 DEF OwnPage
        <5>4. TabSound(tab[t]) /\ logins' = logins
          BY <2>0, <3>1
        <5>5. QED
          BY <5>1, <5>3, <5>4 DEF TabSound
      <4>3. QED
        BY <3>1, <4>1, <4>2
    <3>3. tab' \in [Tabs -> TabStates]
      BY <2>1, <3>2 DEF StateExpires
    <3>4. SsoTyped' /\ cookie'.login <= logins'
      BY <3>1, <3>3, <2>0, SsoPages DEF SsoInv, SsoTyped, NoCookie
    <3>5. QED
      BY <3>1, <3>2, <3>4 DEF SsoInv
  <2>2. CASE SsoRestarts
    BY <2>2 DEF SsoRestarts, SsoInv, SsoTyped, TabSound, OwnPage
  <2>3. ASSUME NEW t \in Tabs, CodeExpires(t) PROVE SsoInv'
    BY <2>3 DEF CodeExpires, SsoInv, SsoTyped, TabSound, OwnPage
  <2>4. ASSUME NEW t \in Tabs, CloseTab(t) PROVE SsoInv'
    <3>1. /\ tab' \in [Tabs -> TabStates] /\ UNCHANGED <<resolved, logins, cookie, codes>>
          /\ tab'[t] = Closed /\ \A s \in Tabs \ {t} : tab'[s] = tab[s]
      BY <2>0, <2>4, SsoPages DEF CloseTab
    <3>2. TabSound(Closed) /\ Closed.at = "closed"
      BY <2>0, SsoClosed
    <3>3. ASSUME NEW s, TabSound(s) PROVE TabSound(s)'
      BY <3>1, <3>3 DEF TabSound, OwnPage
    <3>4. SsoTyped' /\ cookie'.login <= logins'
      BY <3>1 DEF SsoInv, SsoTyped
    <3>5. QED
      BY <2>0, <3>1, <3>2, <3>3, <3>4 DEF SsoInv
  <2>5. CASE UNCHANGED ssoVars
    BY <2>5 DEF ssoVars, SsoInv, SsoTyped, TabSound, OwnPage
  <2>6. ASSUME NEW t \in Tabs, NEW page \in Pages \cup {"elsewhere"}, OidcLogin(t, page) PROVE SsoInv'
    BY <2>6, SsoLogin DEF AnyPage
  <2>7. ASSUME NEW t \in Tabs, TabStep(t) PROVE SsoInv'
    BY <2>7, SsoCallback, SsoMoves DEF TabStep
  <2>8. QED
    BY <2>1, <2>2, <2>3, <2>4, <2>5, <2>6, <2>7, SsoAnswers DEF SsoNext
<1>3. SsoInv => SignedInAsAsked
  BY DEF SsoInv, SignedInAsAsked, TabSound
<1>4. QED
  BY <1>1, <1>2, <1>3, PTL DEF SsoSpec

-----------------------------------------------------------------------------
(* Accounts *)

AnyEmail == Emails \cup {NoAuthRequest.email}
AuthStates ==
    [kind : {"none", "sign_up", "sign_in", "sso", "seed", "refresh"},
     at : {"idle", "lookup", "workspace", "user", "undo", "sign", "rotate"},
     email : AnyEmail, workspace : Nat, session : Nat]
AuthSessions == [email : Emails, workspace : Nat]

AccountsTyped ==
    /\ users \in [Emails -> Nat] /\ made \in Nat /\ workspaces \subseteq 1..made
    /\ \A e \in Emails : users[e] <= made
    /\ authRequest \in [AuthRequests -> AuthStates]
    /\ sessions \in Seq(AuthSessions)

\* A request that is making an account, or taking one back, has a workspace.
Making(q) == q.at \in {"user", "undo"}

\* What request q holds: nothing until it makes a workspace or finds an account;
\* then a workspace no account has, or the one whose call failed when it was made,
\* which seeding leaves; and once its account is
\* there, that account's.
RequestSound(q) ==
    /\ q.at # "idle" => q.email \in Emails
    /\ q.at \in {"idle", "lookup", "workspace", "rotate"} => q.workspace = 0
    /\ Making(q) => q.workspace \in 1..made
    /\ Making(q) => \A e \in Emails : users[e] # q.workspace \/ (q.at = "undo" /\ e \in orphaned)
    /\ Making(q) /\ q.kind = "seed" => q.workspace \in left
    /\ q.at = "user" => q.workspace \in workspaces
    /\ q.at = "sign" => q.workspace # 0 /\ users[q.email] = q.workspace

\* No two requests are making an account of the same workspace.
Apart ==
    \A r1, r2 \in AuthRequests :
        r1 # r2 /\ Making(authRequest[r1]) /\ Making(authRequest[r2])
            => authRequest[r1].workspace # authRequest[r2].workspace

AccountsThere == \A e \in Emails : users[e] # 0 => users[e] \in workspaces \/ e \in orphaned

SessionsSound ==
    \A s \in 1..Len(sessions) : users[sessions[s].email] = sessions[s].workspace /\ sessions[s].workspace # 0

\* A workspace nothing has left behind has an account or a request.
Claimed(w) == (\E e \in Emails : users[e] = w) \/ \E r \in AuthRequests : authRequest[r].workspace = w

AccountsInv ==
    /\ AccountsTyped /\ AccountsThere /\ SessionsSound /\ Apart
    /\ \A r \in AuthRequests : RequestSound(authRequest[r])
    /\ \A w \in workspaces \ left : Claimed(w)

\* A request goes on, or ends, with what it has or nothing, and without a change
\* of the store.
LEMMA AccountsMove ==
    ASSUME AccountsInv, NEW r \in AuthRequests, NEW new \in AuthStates,
           authRequest' = [authRequest EXCEPT ![r] = new],
           UNCHANGED <<users, made, workspaces, orphaned>>, left \subseteq left',
           sessions' \in Seq(AuthSessions), SessionsSound',
           RequestSound(new)',
           Making(new) => Making(authRequest[r]) /\ new.workspace = authRequest[r].workspace,
           \/ new.workspace = authRequest[r].workspace \/ authRequest[r].workspace \in {0} \cup left'
           \/ \E e \in Emails : users[e] = authRequest[r].workspace
    PROVE  AccountsInv'
<1>1. AccountsTyped /\ \A q \in AuthRequests : RequestSound(authRequest[q])
  BY DEF AccountsInv
<1>2. authRequest'[r] = new /\ \A q \in AuthRequests \ {r} : authRequest'[q] = authRequest[q]
  BY <1>1 DEF AccountsTyped
<1>3. AccountsTyped'
  BY <1>1 DEF AccountsTyped
<1>4. AccountsThere' /\ SessionsSound'
  BY DEF AccountsInv, AccountsThere
<1>5. Apart'
  <2> SUFFICES ASSUME NEW r1 \in AuthRequests, NEW r2 \in AuthRequests, r1 # r2,
                      Making(authRequest'[r1]), Making(authRequest'[r2])
               PROVE  authRequest'[r1].workspace # authRequest'[r2].workspace
    BY DEF Apart, Making
  <2>1. \A q \in {r1, r2} : Making(authRequest[q]) /\ authRequest'[q].workspace = authRequest[q].workspace
    BY <1>2
  <2>2. QED
    BY <2>1 DEF AccountsInv, Apart
<1>6. ASSUME NEW q \in AuthRequests PROVE RequestSound(authRequest[q])'
  <2>1. CASE q = r
    BY <2>1, <1>2
  <2>2. CASE q # r
    BY <2>2, <1>1, <1>2 DEF RequestSound, Making
  <2>3. QED
    BY <2>1, <2>2
<1>7. ASSUME NEW w \in workspaces' \ left' PROVE Claimed(w)'
  <2>1. w \in workspaces \ left /\ w # 0 /\ w \notin left' /\ Claimed(w)
    BY <1>1 DEF AccountsInv, AccountsTyped
  <2>2. CASE \E e \in Emails : users[e] = w
    BY <2>2 DEF Claimed
  <2>3. ASSUME NEW q \in AuthRequests, authRequest[q].workspace = w PROVE Claimed(w)'
    BY <2>1, <2>3, <1>2 DEF Claimed
  <2>4. QED
    BY <2>1, <2>2, <2>3 DEF Claimed
<1> QED
  BY <1>3, <1>4, <1>5, <1>6, <1>7 DEF AccountsInv

\* A new workspace is nobody's but the request's that made it.
LEMMA AccountsWorkspace == ASSUME AccountsInv, NEW r \in AuthRequests, CreateWorkspace(r) PROVE AccountsInv'
<1>1. AccountsTyped /\ (\A q \in AuthRequests : RequestSound(authRequest[q])) /\ authRequest[r].at = "workspace"
  BY DEF AccountsInv, CreateWorkspace
<1>2. PICK new : new = [authRequest[r] EXCEPT !.at = "user", !.workspace = made + 1]
  OBVIOUS
<1>3. /\ made' = made + 1 /\ workspaces' = workspaces \cup {made + 1} /\ UNCHANGED <<users, sessions, orphaned>>
      /\ left \subseteq left' /\ left' \subseteq left \cup {made + 1}
      /\ authRequest[r].kind = "seed" => made + 1 \in left'
  BY DEF CreateWorkspace
<1>4. authRequest' = [authRequest EXCEPT ![r] = new]
  BY <1>1, <1>2 DEF CreateWorkspace, AccountsTyped
<1>5. /\ new \in AuthStates /\ new.at = "user" /\ new.workspace = made + 1
      /\ new.email = authRequest[r].email /\ new.kind = authRequest[r].kind
  <2>1. authRequest[r] \in AuthStates /\ made + 1 \in Nat
    BY <1>1 DEF AccountsTyped
  <2>2. QED
    BY <1>2, <2>1 DEF AuthStates
<1>6. authRequest'[r] = new /\ \A q \in AuthRequests \ {r} : authRequest'[q] = authRequest[q]
  BY <1>1, <1>4 DEF AccountsTyped
<1>7. \A e \in Emails : users[e] # made + 1
  BY <1>1 DEF AccountsTyped
<1>8. AccountsTyped'
  BY <1>1, <1>3, <1>4, <1>5 DEF AccountsTyped
<1>9. AccountsThere' /\ SessionsSound'
  BY <1>3 DEF AccountsInv, AccountsThere, SessionsSound
<1>10. ASSUME NEW q \in AuthRequests PROVE RequestSound(authRequest[q])'
  <2>1. CASE q = r
    BY <2>1, <1>1, <1>3, <1>5, <1>6, <1>7 DEF RequestSound, Making, AccountsTyped
  <2>2. CASE q # r
    BY <2>2, <1>1, <1>3, <1>6 DEF RequestSound, Making, AccountsTyped
  <2>3. QED
    BY <2>1, <2>2
<1>11. ASSUME NEW q \in AuthRequests \ {r}, Making(authRequest[q]) PROVE authRequest[q].workspace # made + 1
  BY <1>1, <1>11 DEF RequestSound, AccountsTyped
<1>12. Apart'
  <2> SUFFICES ASSUME NEW r1 \in AuthRequests, NEW r2 \in AuthRequests, r1 # r2,
                      Making(authRequest'[r1]), Making(authRequest'[r2])
               PROVE  authRequest'[r1].workspace # authRequest'[r2].workspace
    BY DEF Apart, Making
  <2>1. CASE r \notin {r1, r2}
    BY <2>1, <1>6 DEF AccountsInv, Apart
  <2>2. CASE r \in {r1, r2}
    BY <2>2, <1>5, <1>6, <1>11
  <2>3. QED
    BY <2>1, <2>2
<1>13. ASSUME NEW w \in workspaces' \ left' PROVE Claimed(w)'
  <2>1. CASE w = made + 1
    BY <2>1, <1>5, <1>6 DEF Claimed
  <2>2. CASE w # made + 1
    <3>1. w \in workspaces \ left /\ w # 0 /\ Claimed(w)
      BY <2>2, <1>1, <1>3 DEF AccountsInv, AccountsTyped
    <3>2. authRequest[r].workspace = 0
      BY <1>1 DEF RequestSound
    <3>3. QED
      BY <3>1, <3>2, <1>3, <1>6 DEF Claimed
  <2>3. QED
    BY <2>1, <2>2
<1> QED
  BY <1>8, <1>9, <1>10, <1>12, <1>13 DEF AccountsInv

\* A request that is over holds nothing.
LEMMA AccountsOver ==
    /\ NoAuthRequest \in AuthStates /\ NoAuthRequest.at = "idle" /\ NoAuthRequest.workspace = 0
    /\ RequestSound(NoAuthRequest) /\ ~Making(NoAuthRequest)
<1>1. NoAuthRequest.at = "idle" /\ NoAuthRequest.workspace = 0 /\ NoAuthRequest.email \in AnyEmail
  BY DEF NoAuthRequest, AnyEmail
<1>2. NoAuthRequest \in AuthStates
  BY <1>1 DEF NoAuthRequest, AuthStates
<1>3. QED
  BY <1>1, <1>2 DEF RequestSound, Making

\* The account is made: of a workspace that only this request had, and which it
\* goes on to remove when the call failed.
LEMMA AccountsUser ==
    ASSUME AccountsInv, NEW r \in AuthRequests, authRequest[r].at = "user", users[authRequest[r].email] = 0,
           users' = [users EXCEPT ![authRequest[r].email] = authRequest[r].workspace],
           UNCHANGED <<workspaces, made, left, sessions>>,
           \/ UNCHANGED orphaned /\ (End(r) \/ To(r, "sign"))
           \/ orphaned' = orphaned \cup {authRequest[r].email} /\ To(r, "undo") /\ authRequest[r].kind # "seed"
    PROVE  AccountsInv'
<1>1. AccountsTyped /\ (\A q \in AuthRequests : RequestSound(authRequest[q])) /\ authRequest[r].at = "user"
  BY DEF AccountsInv
<1>2. PICK e : e = authRequest[r].email
  OBVIOUS
<1>3. PICK w : w = authRequest[r].workspace
  OBVIOUS
<1>4. /\ e \in Emails /\ users[e] = 0 /\ w \in 1..made /\ w \in workspaces
      /\ \A o \in Emails : users[o] # w
  BY <1>1, <1>2, <1>3 DEF RequestSound, Making
<1>5. /\ users' = [users EXCEPT ![e] = w] /\ UNCHANGED <<workspaces, made, left, sessions>>
      /\ orphaned \subseteq orphaned'
      /\ \/ authRequest' = [authRequest EXCEPT ![r] = NoAuthRequest]
         \/ authRequest' = [authRequest EXCEPT ![r].at = "sign"]
         \/ /\ authRequest' = [authRequest EXCEPT ![r].at = "undo"]
            /\ e \in orphaned' /\ authRequest[r].kind # "seed"
  BY <1>2, <1>3 DEF End, To
<1>6. users' \in [Emails -> Nat] /\ users'[e] = w /\ \A o \in Emails \ {e} : users'[o] = users[o]
  BY <1>1, <1>4, <1>5 DEF AccountsTyped
<1>7. PICK new \in AuthStates :
          /\ authRequest' = [authRequest EXCEPT ![r] = new]
          /\ \/ new = NoAuthRequest
             \/ new.at = "sign" /\ new.email = e /\ new.workspace = w
             \/ /\ new.at = "undo" /\ new.email = e /\ new.workspace = w
                /\ new.kind # "seed" /\ e \in orphaned'
  <2>1. authRequest[r] \in AuthStates
    BY <1>1 DEF AccountsTyped
  <2>2. CASE authRequest' = [authRequest EXCEPT ![r] = NoAuthRequest]
    BY <2>2, AccountsOver
  <2>3. CASE authRequest' = [authRequest EXCEPT ![r].at = "sign"]
    <3>1. PICK new : new = [authRequest[r] EXCEPT !.at = "sign"]
      OBVIOUS
    <3>2. new \in AuthStates /\ new.at = "sign" /\ new.email = e /\ new.workspace = w
      BY <1>2, <1>3, <2>1, <3>1 DEF AuthStates
    <3>3. authRequest' = [authRequest EXCEPT ![r] = new]
      BY <2>3, <3>1, <1>1 DEF AccountsTyped
    <3>4. QED
      BY <3>2, <3>3
  <2>4. CASE /\ authRequest' = [authRequest EXCEPT ![r].at = "undo"]
             /\ e \in orphaned' /\ authRequest[r].kind # "seed"
    <3>1. PICK new : new = [authRequest[r] EXCEPT !.at = "undo"]
      OBVIOUS
    <3>2. /\ new \in AuthStates /\ new.at = "undo" /\ new.email = e /\ new.workspace = w
          /\ new.kind # "seed"
      BY <1>2, <1>3, <2>1, <2>4, <3>1 DEF AuthStates
    <3>3. authRequest' = [authRequest EXCEPT ![r] = new]
      BY <2>4, <3>1, <1>1 DEF AccountsTyped
    <3>4. QED
      BY <2>4, <3>2, <3>3
  <2>5. QED
    BY <1>5, <2>2, <2>3, <2>4
<1>8. authRequest'[r] = new /\ \A q \in AuthRequests \ {r} : authRequest'[q] = authRequest[q]
  BY <1>1, <1>7 DEF AccountsTyped
<1>9. AccountsTyped'
  <2>1. \A o \in Emails : users'[o] <= made
    BY <1>1, <1>4, <1>6 DEF AccountsTyped
  <2>2. QED
    BY <1>1, <1>5, <1>6, <1>7, <2>1 DEF AccountsTyped
<1>10. AccountsThere'
  BY <1>4, <1>5, <1>6 DEF AccountsInv, AccountsThere
<1>11. SessionsSound'
  <2> SUFFICES ASSUME NEW s \in 1..Len(sessions)
               PROVE  users'[sessions[s].email] = sessions[s].workspace /\ sessions[s].workspace # 0
    BY <1>5 DEF SessionsSound
  <2>1. sessions[s].email \in Emails
    <3>1. sessions[s] \in AuthSessions
      BY <1>1 DEF AccountsTyped
    <3>2. QED
      BY <3>1 DEF AuthSessions
  <2>2. users[sessions[s].email] = sessions[s].workspace /\ sessions[s].workspace # 0
    BY DEF AccountsInv, SessionsSound
  <2>3. QED
    BY <2>1, <2>2, <1>4, <1>6
<1>12. Apart'
  <2> SUFFICES ASSUME NEW r1 \in AuthRequests, NEW r2 \in AuthRequests, r1 # r2,
                      Making(authRequest'[r1]), Making(authRequest'[r2])
               PROVE  authRequest'[r1].workspace # authRequest'[r2].workspace
    BY DEF Apart, Making
  <2>1. Making(new) => new.workspace = w
    BY <1>7, AccountsOver DEF Making
  <2>2. \A q \in {r1, r2} : Making(authRequest[q]) /\ authRequest'[q].workspace = authRequest[q].workspace
    BY <1>1, <1>3, <1>8, <2>1 DEF Making
  <2>3. QED
    BY <2>2 DEF AccountsInv, Apart
<1>13. ASSUME NEW q \in AuthRequests PROVE RequestSound(authRequest[q])'
  <2>1. CASE q = r /\ new = NoAuthRequest
    BY <2>1, <1>8, AccountsOver DEF RequestSound, Making
  <2>2. CASE q = r /\ new # NoAuthRequest
    <3>1. /\ authRequest'[q] = new /\ new.email = e /\ new.workspace = w
          /\ new.at = "sign" \/ (new.at = "undo" /\ new.kind # "seed" /\ e \in orphaned')
      BY <2>2, <1>7, <1>8
    <3>2. e \in Emails /\ w # 0 /\ users'[e] = w /\ w \in 1..made'
      BY <1>1, <1>4, <1>5, <1>6 DEF AccountsTyped
    <3>3. \A o \in Emails : users'[o] = w => o = e
      BY <1>4, <1>6
    <3>4. QED
      BY <3>1, <3>2, <3>3 DEF RequestSound, Making
  <2>3. CASE q # r
    <3>1. authRequest'[q] = authRequest[q] /\ RequestSound(authRequest[q])
      BY <2>3, <1>1, <1>8
    <3>2. Making(authRequest[q]) => authRequest[q].workspace # w
      BY <2>3, <1>1, <1>3 DEF AccountsInv, Apart, Making
    <3>3. authRequest[q].at = "sign" => authRequest[q].email # e
      BY <3>1, <1>4 DEF RequestSound
    <3>4. QED
      BY <3>1, <3>2, <3>3, <1>5, <1>6 DEF RequestSound, Making
  <2>4. QED
    BY <2>1, <2>2, <2>3
<1>14. ASSUME NEW v \in workspaces' \ left' PROVE Claimed(v)'
  <2>1. v # 0 /\ Claimed(v)
    BY <1>1, <1>5 DEF AccountsInv, AccountsTyped
  <2>2. CASE v = w
    BY <2>2, <1>4, <1>6 DEF Claimed
  <2>3. CASE v # w
    <3>1. ASSUME NEW o \in Emails, users[o] = v PROVE Claimed(v)'
      BY <3>1, <2>1, <1>4, <1>6 DEF Claimed
    <3>2. ASSUME NEW q \in AuthRequests, authRequest[q].workspace = v PROVE Claimed(v)'
      BY <3>2, <2>3, <1>3, <1>8 DEF Claimed
    <3>3. QED
      BY <2>1, <3>1, <3>2 DEF Claimed
  <2>4. QED
    BY <2>2, <2>3
<1> QED
  BY <1>9, <1>10, <1>11, <1>12, <1>13, <1>14 DEF AccountsInv

\* A refused account's workspace is removed, which nothing else has but an account
\* whose call failed.
LEMMA AccountsUndo ==
    ASSUME AccountsInv, NEW r \in AuthRequests, Undo(r), UNCHANGED <<users, made, orphaned, sessions>>
    PROVE  AccountsInv'
<1>1. AccountsTyped /\ (\A q \in AuthRequests : RequestSound(authRequest[q])) /\ authRequest[r].at = "undo"
  BY DEF AccountsInv, Undo
<1>2. PICK w : w = authRequest[r].workspace
  OBVIOUS
<1>3. /\ workspaces' = workspaces \ {w} /\ UNCHANGED <<users, made, left, orphaned, sessions>>
      /\ authRequest' = [authRequest EXCEPT ![r] = NoAuthRequest]
  BY <1>2 DEF Undo, End
<1>4. \A o \in Emails : users[o] # w \/ o \in orphaned
  BY <1>1, <1>2 DEF RequestSound, Making
<1>5. authRequest'[r] = NoAuthRequest /\ \A q \in AuthRequests \ {r} : authRequest'[q] = authRequest[q]
  BY <1>1, <1>3 DEF AccountsTyped
<1>6. AccountsTyped'
  BY <1>1, <1>3, AccountsOver DEF AccountsTyped
<1>7. AccountsThere' /\ SessionsSound'
  BY <1>3, <1>4 DEF AccountsInv, AccountsThere, SessionsSound
<1>8. Apart'
  BY <1>5, AccountsOver DEF AccountsInv, Apart, Making
<1>9. ASSUME NEW q \in AuthRequests PROVE RequestSound(authRequest[q])'
  <2>1. CASE q = r
    BY <2>1, <1>5, AccountsOver DEF RequestSound, Making
  <2>2. CASE q # r
    <3>1. authRequest'[q] = authRequest[q] /\ RequestSound(authRequest[q])
      BY <2>2, <1>1, <1>5
    <3>2. Making(authRequest[q]) => authRequest[q].workspace # w
      BY <2>2, <1>1, <1>2 DEF AccountsInv, Apart, Making
    <3>3. QED
      BY <3>1, <3>2, <1>3 DEF RequestSound, Making
  <2>3. QED
    BY <2>1, <2>2
<1>10. ASSUME NEW v \in workspaces' \ left' PROVE Claimed(v)'
  <2>1. v # w /\ Claimed(v)
    BY <1>3 DEF AccountsInv
  <2>2. QED
    BY <2>1, <1>2, <1>3, <1>5 DEF Claimed
<1> QED
  BY <1>6, <1>7, <1>8, <1>9, <1>10 DEF AccountsInv

\* A workspace is made by a call that fails: it is left, and no request has it.
LEMMA AccountsLeft ==
    ASSUME AccountsInv, NEW r \in AuthRequests, authRequest[r].at = "workspace", End(r),
           made' = made + 1, workspaces' = workspaces \cup {made + 1}, left' = left \cup {made + 1},
           UNCHANGED <<users, orphaned, sessions>>
    PROVE  AccountsInv'
<1>1. AccountsTyped /\ \A q \in AuthRequests : RequestSound(authRequest[q])
  BY DEF AccountsInv
<1>2. /\ authRequest' = [authRequest EXCEPT ![r] = NoAuthRequest] /\ authRequest'[r] = NoAuthRequest
      /\ \A q \in AuthRequests \ {r} : authRequest'[q] = authRequest[q]
  BY <1>1 DEF AccountsTyped, End
<1>3. AccountsTyped'
  BY <1>1, <1>2, AccountsOver DEF AccountsTyped
<1>4. AccountsThere' /\ SessionsSound'
  BY DEF AccountsInv, AccountsThere, SessionsSound
<1>5. Apart'
  BY <1>2, AccountsOver DEF AccountsInv, Apart, Making
<1>6. ASSUME NEW q \in AuthRequests PROVE RequestSound(authRequest[q])'
  <2>1. CASE q = r
    BY <2>1, <1>2, AccountsOver DEF RequestSound, Making
  <2>2. CASE q # r
    BY <2>2, <1>1, <1>2 DEF RequestSound, Making, AccountsTyped
  <2>3. QED
    BY <2>1, <2>2
<1>7. ASSUME NEW w \in workspaces' \ left' PROVE Claimed(w)'
  <2>1. w \in workspaces \ left /\ w # 0 /\ Claimed(w) /\ authRequest[r].workspace = 0
    BY <1>1 DEF AccountsInv, AccountsTyped, RequestSound
  <2>2. QED
    BY <2>1, <1>2 DEF Claimed
<1> QED
  BY <1>3, <1>4, <1>5, <1>6, <1>7 DEF AccountsInv

\* Accounts stay whole while requests for one email race, the store fails and the
\* process is replaced (AccountsWhole), for any number of emails and requests.
THEOREM AccountsStayWhole == AccountsSpec => []AccountsWhole
<1>1. AccountsInit => AccountsInv
  <2> SUFFICES ASSUME AccountsInit PROVE AccountsInv
    OBVIOUS
  <2>1. AccountsTyped
    BY AccountsOver DEF AccountsInit, AccountsTyped
  <2>2. AccountsThere /\ SessionsSound
    BY DEF AccountsInit, AccountsThere, SessionsSound
  <2>3. Apart /\ \A r \in AuthRequests : RequestSound(authRequest[r])
    BY AccountsOver DEF AccountsInit, Apart
  <2>4. QED
    BY <2>1, <2>2, <2>3 DEF AccountsInit, AccountsInv
<1>2. AccountsInv /\ [AccountsNext]_accountVars => AccountsInv'
  <2> SUFFICES ASSUME AccountsInv, [AccountsNext]_accountVars PROVE AccountsInv'
    OBVIOUS
  <2>1. AccountsTyped /\ SessionsSound /\ \A q \in AuthRequests : RequestSound(authRequest[q])
    BY DEF AccountsInv
  <2>2. \A r \in AuthRequests : authRequest[r] \in AuthStates
    BY <2>1 DEF AccountsTyped
  <2>3. ASSUME UNCHANGED accountStore, UNCHANGED <<authRequest, sessions>> PROVE AccountsInv'
    BY <2>3 DEF accountStore, AccountsInv, AccountsTyped, AccountsThere, SessionsSound, Apart, RequestSound, Making, Claimed
  <2>4. ASSUME UNCHANGED accountStore, sessions' = sessions
        PROVE  /\ UNCHANGED <<users, made, workspaces, left, orphaned>> /\ SessionsSound'
               /\ sessions' \in Seq(AuthSessions)
    BY <2>1, <2>4 DEF accountStore, SessionsSound, AccountsTyped
  <2>5. ASSUME NEW r \in AuthRequests, NEW e \in Emails, NEW kind \in {"sign_up", "sign_in", "sso", "seed"},
               Arrive(r, kind, e)
        PROVE  AccountsInv'
    <3>1. PICK new : new = [NoAuthRequest EXCEPT !.kind = kind, !.at = "lookup", !.email = e]
      OBVIOUS
    <3>2. new \in AuthStates /\ new.at = "lookup" /\ new.email = e /\ new.workspace = 0 /\ ~Making(new)
      BY <3>1, AccountsOver DEF AuthStates, NoAuthRequest, AnyEmail, Making
    <3>3. /\ authRequest' = [authRequest EXCEPT ![r] = new] /\ authRequest[r].workspace = 0
          /\ UNCHANGED accountStore /\ sessions' = sessions
      BY <2>5, <3>1, AccountsOver DEF Arrive
    <3>4. RequestSound(new)'
      BY <3>2 DEF RequestSound, Making
    <3>5. QED
      BY <2>4, <3>2, <3>3, <3>4, AccountsMove
  <2>6. ASSUME NEW r \in AuthRequests, NEW s, ArriveRefresh(r, s) PROVE AccountsInv'
    <3>1. PICK new : new = [NoAuthRequest EXCEPT !.kind = "refresh", !.at = "rotate",
                                                 !.email = sessions[s].email, !.session = s]
      OBVIOUS
    <3>2. s \in Nat /\ sessions[s].email \in Emails
      <4>1. s \in 1..Len(sessions) /\ sessions \in Seq(AuthSessions)
        BY <2>1, <2>6 DEF ArriveRefresh, AccountsTyped
      <4>2. s \in Nat /\ sessions[s] \in AuthSessions
        BY <4>1
      <4>3. QED
        BY <4>2 DEF AuthSessions
    <3>3. /\ new \in AuthStates /\ new.at = "rotate" /\ new.email = sessions[s].email
          /\ new.workspace = 0 /\ ~Making(new)
      BY <3>1, <3>2, AccountsOver DEF AuthStates, NoAuthRequest, AnyEmail, Making
    <3>4. /\ authRequest' = [authRequest EXCEPT ![r] = new] /\ authRequest[r].workspace = 0
          /\ UNCHANGED accountStore /\ sessions' = sessions
      BY <2>6, <3>1, AccountsOver DEF ArriveRefresh
    <3>5. RequestSound(new)'
      BY <3>2, <3>3 DEF RequestSound, Making
    <3>6. QED
      BY <2>4, <3>3, <3>4, <3>5, AccountsMove
  <2>7. ASSUME NEW r \in AuthRequests, End(r), UNCHANGED <<users, made, workspaces, orphaned, sessions>>,
               left \subseteq left',
               \/ authRequest[r].at \in {"lookup", "workspace", "rotate", "sign"}
               \/ authRequest[r].workspace \in left'
        PROVE  AccountsInv'
    <3>1. authRequest' = [authRequest EXCEPT ![r] = NoAuthRequest]
      BY <2>7 DEF End
    <3>2. SessionsSound' /\ sessions' \in Seq(AuthSessions)
      BY <2>1, <2>7 DEF SessionsSound, AccountsTyped
    <3>3. RequestSound(NoAuthRequest)'
      BY AccountsOver DEF RequestSound, Making
    <3>4. \/ authRequest[r].workspace \in {0} \cup left'
          \/ \E e \in Emails : users[e] = authRequest[r].workspace
      BY <2>1, <2>7 DEF RequestSound
    <3>5. QED
      BY <2>7, <3>1, <3>2, <3>3, <3>4, AccountsMove, AccountsOver
  <2>8. ASSUME NEW r \in AuthRequests, authRequest[r].at \in {"lookup", "rotate"},
               users[authRequest[r].email] # 0, UNCHANGED accountStore, sessions' = sessions,
               authRequest' = [authRequest EXCEPT ![r].at = "sign", ![r].workspace = users[authRequest[r].email]]
        PROVE  AccountsInv'
    <3>1. PICK new : new = [authRequest[r] EXCEPT !.at = "sign", !.workspace = users[authRequest[r].email]]
      OBVIOUS
    <3>2. authRequest[r].email \in Emails /\ users[authRequest[r].email] \in Nat /\ authRequest[r].workspace = 0
      BY <2>1, <2>8 DEF RequestSound, AccountsTyped
    <3>3. /\ new \in AuthStates /\ new.at = "sign" /\ new.email = authRequest[r].email
          /\ new.workspace = users[authRequest[r].email] /\ ~Making(new)
      BY <2>2, <3>1, <3>2 DEF AuthStates, Making
    <3>4. authRequest' = [authRequest EXCEPT ![r] = new]
      BY <2>1, <2>8, <3>1 DEF AccountsTyped
    <3>5. RequestSound(new)'
      BY <2>4, <2>8, <3>2, <3>3 DEF RequestSound, Making
    <3>6. QED
      BY <2>4, <2>8, <3>2, <3>3, <3>4, <3>5, AccountsMove
  <2>9. ASSUME NEW r \in AuthRequests, Known(r) PROVE AccountsInv'
    BY <2>7, <2>8, <2>9 DEF Known, accountStore
  <2>10. ASSUME NEW r \in AuthRequests, Unknown(r) PROVE AccountsInv'
    <3>1. authRequest[r].at = "lookup" /\ UNCHANGED accountStore /\ sessions' = sessions
      BY <2>10 DEF Unknown
    <3>2. CASE End(r)
      BY <2>7, <3>1, <3>2 DEF accountStore
    <3>3. CASE To(r, "workspace")
      <4>1. PICK new : new = [authRequest[r] EXCEPT !.at = "workspace"]
        OBVIOUS
      <4>2. /\ new \in AuthStates /\ new.at = "workspace" /\ new.email = authRequest[r].email
            /\ new.workspace = authRequest[r].workspace /\ ~Making(new)
        BY <2>2, <4>1 DEF AuthStates, Making
      <4>3. authRequest' = [authRequest EXCEPT ![r] = new]
        BY <2>1, <3>3, <4>1 DEF To, AccountsTyped
      <4>4. authRequest[r].email \in Emails /\ authRequest[r].workspace = 0
        BY <2>1, <3>1 DEF RequestSound
      <4>5. RequestSound(new)'
        BY <4>2, <4>4 DEF RequestSound, Making
      <4>6. QED
        BY <2>4, <3>1, <4>2, <4>3, <4>5, AccountsMove
    <3>4. QED
      BY <2>10, <3>2, <3>3 DEF Unknown
  <2>11. ASSUME NEW r \in AuthRequests, authRequest[r].at = "user", authRequest[r].kind # "seed", To(r, "undo"),
                UNCHANGED <<users, made, workspaces, orphaned, sessions>>, left \subseteq left'
         PROVE  AccountsInv'
    <3>1. PICK new : new = [authRequest[r] EXCEPT !.at = "undo"]
      OBVIOUS
    <3>2. /\ new \in AuthStates /\ new.at = "undo" /\ new.email = authRequest[r].email
          /\ new.kind = authRequest[r].kind /\ new.workspace = authRequest[r].workspace
      BY <2>2, <3>1 DEF AuthStates
    <3>3. authRequest' = [authRequest EXCEPT ![r] = new]
      BY <2>1, <2>11, <3>1 DEF To, AccountsTyped
    <3>4. SessionsSound' /\ sessions' \in Seq(AuthSessions)
      BY <2>1, <2>11 DEF SessionsSound, AccountsTyped
    <3>5. Making(authRequest[r]) /\ RequestSound(authRequest[r])
      BY <2>1, <2>11 DEF Making
    <3>6. RequestSound(new)'
      BY <2>11, <3>2, <3>5 DEF RequestSound, Making
    <3>7. QED
      BY <2>11, <3>2, <3>3, <3>4, <3>5, <3>6, AccountsMove
  <2>12. ASSUME NEW r \in AuthRequests, CreateUser(r) PROVE AccountsInv'
    <3>1. CASE users[authRequest[r].email] = 0
      BY <2>12, <3>1, AccountsUser DEF CreateUser
    <3>2. CASE users[authRequest[r].email] # 0
      <4>1. /\ authRequest[r].at = "user" /\ UNCHANGED <<users, workspaces, made, left, orphaned, sessions>>
            /\ IF authRequest[r].kind = "seed" THEN End(r) ELSE To(r, "undo")
        BY <2>12, <3>2 DEF CreateUser
      <4>2. authRequest[r].kind = "seed" => authRequest[r].workspace \in left'
        BY <2>1, <4>1 DEF RequestSound, Making
      <4>3. QED
        BY <2>7, <2>11, <4>1, <4>2
    <3>3. QED
      BY <3>1, <3>2
  <2>13. ASSUME NEW r \in AuthRequests, StoreFails(r) PROVE AccountsInv'
    <3>1. /\ authRequest[r].at \in {"lookup", "workspace", "user", "undo", "rotate"}
          /\ UNCHANGED <<users, workspaces, made, orphaned, sessions>> /\ left \subseteq left'
          /\ authRequest[r].at = "undo" => authRequest[r].workspace \in left'
      BY <2>13 DEF StoreFails
    <3>2. CASE authRequest[r].at = "user" /\ authRequest[r].kind # "seed"
      BY <2>11, <2>13, <3>1, <3>2 DEF StoreFails
    <3>3. CASE ~(authRequest[r].at = "user" /\ authRequest[r].kind # "seed")
      <4>1. End(r)
        BY <2>13, <3>3 DEF StoreFails
      <4>2. authRequest[r].at = "user" => authRequest[r].workspace \in left
        BY <2>1, <3>3 DEF RequestSound, Making
      <4>3. QED
        BY <2>7, <3>1, <4>1, <4>2
    <3>4. QED
      BY <3>2, <3>3
  <2>14. ASSUME NEW r \in AuthRequests, Rotate(r) PROVE AccountsInv'
    BY <2>7, <2>8, <2>14 DEF Rotate, accountStore
  <2>15. ASSUME NEW r \in AuthRequests, Issue(r) PROVE AccountsInv'
    <3>1. PICK new : new = [email |-> authRequest[r].email, workspace |-> authRequest[r].workspace]
      OBVIOUS
    <3>2. /\ authRequest[r].at = "sign" /\ sessions' = Append(sessions, new)
          /\ authRequest' = [authRequest EXCEPT ![r] = NoAuthRequest]
          /\ UNCHANGED <<users, workspaces, made, left, orphaned>>
      BY <2>15, <3>1 DEF Issue, End, accountStore
    <3>3. /\ authRequest[r].email \in Emails /\ users[authRequest[r].email] = authRequest[r].workspace
          /\ authRequest[r].workspace # 0
      BY <2>1, <3>2 DEF RequestSound
    <3>4. /\ new \in AuthSessions /\ users[new.email] = new.workspace /\ new.workspace # 0
      BY <2>1, <3>1, <3>3 DEF AccountsTyped, AuthSessions
    <3>5. /\ sessions' \in Seq(AuthSessions) /\ Len(sessions') = Len(sessions) + 1
          /\ \A s \in 1..Len(sessions') : sessions'[s] = (IF s = Len(sessions) + 1 THEN new ELSE sessions[s])
      BY <2>1, <3>2, <3>4 DEF AccountsTyped
    <3>6. SessionsSound'
      BY <2>1, <3>2, <3>4, <3>5 DEF SessionsSound, AccountsTyped
    <3>7. RequestSound(NoAuthRequest)'
      BY AccountsOver DEF RequestSound, Making
    <3>8. QED
      BY <3>2, <3>3, <3>5, <3>6, <3>7, AccountsMove, AccountsOver
  <2>16. CASE AuthRestarts
    <3>1. /\ authRequest' = [r \in AuthRequests |-> NoAuthRequest]
          /\ UNCHANGED <<users, workspaces, made, orphaned, sessions>> /\ left \subseteq left'
          /\ \A r \in AuthRequests : Making(authRequest[r]) => authRequest[r].workspace \in left'
      BY <2>16 DEF AuthRestarts, Making
    <3>2. AccountsTyped' /\ AccountsThere' /\ SessionsSound'
      BY <2>1, <3>1, AccountsOver DEF AccountsInv, AccountsTyped, AccountsThere, SessionsSound
    <3>3. Apart' /\ \A r \in AuthRequests : RequestSound(authRequest[r])'
      BY <3>1, AccountsOver DEF Apart, RequestSound, Making
    <3>4. ASSUME NEW w \in workspaces' \ left' PROVE Claimed(w)'
      <4>1. w # 0 /\ Claimed(w)
        BY <2>1, <3>1 DEF AccountsInv, AccountsTyped
      <4>2. ASSUME NEW r \in AuthRequests, authRequest[r].workspace = w PROVE \E e \in Emails : users[e] = w
        BY <2>1, <2>2, <3>1, <4>1, <4>2 DEF RequestSound, AuthStates, Making
      <4>3. QED
        BY <3>1, <4>1, <4>2 DEF Claimed
    <3>5. QED
      BY <3>2, <3>3, <3>4 DEF AccountsInv
  <2>17. ASSUME NEW s, SignOut(s) PROVE AccountsInv'
    BY <2>3, <2>17 DEF SignOut
  <2>18. CASE UNCHANGED accountVars
    BY <2>3, <2>18 DEF accountVars, accountStore
  <2>19. ASSUME NEW r \in AuthRequests, UndoAccount(r) PROVE AccountsInv'
    BY <2>19, AccountsUndo DEF UndoAccount
  <2>20. ASSUME NEW r \in AuthRequests, AnswerLost(r) PROVE AccountsInv'
    <3>1. CASE authRequest[r].at = "workspace"
      BY <2>20, <3>1, AccountsLeft DEF AnswerLost, Undo
    <3>2. CASE authRequest[r].at = "user"
      BY <2>20, <3>2, AccountsUser DEF AnswerLost, Undo
    <3>3. CASE authRequest[r].at = "undo"
      BY <2>20, <3>3, AccountsUndo DEF AnswerLost
    <3>4. QED
      BY <2>20, <3>1, <3>2, <3>3 DEF AnswerLost, Undo
  <2>21. QED
    BY <2>5, <2>6, <2>9, <2>10, <2>12, <2>13, <2>14, <2>15, <2>16, <2>17, <2>18, <2>19, <2>20, AccountsWorkspace
    DEF AccountsNext, Seed
<1>3. AccountsInv => AccountsWhole
  BY DEF AccountsInv, AccountsThere, SessionsSound, Claimed, AccountsWhole
<1>4. QED
  BY <1>1, <1>2, <1>3, PTL DEF AccountsSpec

-----------------------------------------------------------------------------
(* Runtime persistence *)

ExecutionRecords == [record : Nat, log : Nat, ended : BOOLEAN]
SaveStates ==
    [at : {"idle", "copy", "documents", "cache", "write"}, copy : [Executions -> ExecutionRecords],
     left : SUBSET Executions, half : SUBSET Executions, alone : BOOLEAN]

PersistTyped ==
    /\ live \in [Executions -> ExecutionRecords] /\ documents \in [Executions -> ExecutionRecords]
    /\ cached \in [Executions -> ExecutionRecords] /\ saving \in [Savers -> SaveStates]
    /\ boot \in [Executions -> {"none", "under_way", "unsaved"}]

\* A save writes one log at a time, of a record that it no longer has to write.
SaveShape(s) ==
    /\ s.at = "idle" => s = NotSaving
    /\ s.left \cap s.half = {} /\ \A e, f \in s.half : e = f
    /\ s.at # "documents" => s.half = {}

AllScheduled == ~pending /\ owed = {}

\* The executions that were not booted since the last save began.
Kept == {e \in Executions : boot[e] # "unsaved"}

\* When every change made so far was saved or is no longer to be scheduled, a
\* save that nothing disturbs has written what it has passed and carries the
\* executions as they are for the rest.
SavedAs(e, s) ==
    /\ e \in s.left => s.copy[e] = live[e]
    /\ e \in s.half => /\ s.copy[e] = live[e]
                       /\ documents[e].record = live[e].record /\ documents[e].ended = live[e].ended
    /\ e \notin s.left \cup s.half => documents[e] = live[e]
Progress(s) ==
    /\ s.at # "cache"
    /\ s.at = "documents" => \A e \in Present(live) \cap Kept : SavedAs(e, s)
    /\ s.at = "write" => /\ \A e \in Kept : s.copy[e] = Running(live)[e]
                         /\ \A e \in Present(live) \cap Kept : documents[e] = live[e]

SavesAlone(p) ==
    saving[p].alone => (\A q \in Savers \ {p} : saving[q] = NotSaving) /\ (AllScheduled => Progress(saving[p]))

CaughtUp ==
    undisturbed /\ AllScheduled /\ (\A p \in Savers : saving[p] = NotSaving) =>
        /\ \A e \in Kept : cached[e] = Running(live)[e]
        /\ \A e \in Present(live) \cap Kept : documents[e] = live[e]

PersistInv ==
    /\ PersistTyped /\ CaughtUp
    /\ \A p \in Savers : SaveShape(saving[p]) /\ SavesAlone(p)
    /\ undisturbed => \A p \in Savers : saving[p] = NotSaving \/ saving[p].alone

LEMMA NothingToSave ==
    /\ NoExecution \in ExecutionRecords /\ NothingSaved \in [Executions -> ExecutionRecords]
    /\ NotSaving \in SaveStates /\ SaveShape(NotSaving) /\ NotSaving.at = "idle" /\ NotSaving.alone = FALSE
<1>1. NoExecution \in ExecutionRecords /\ NothingSaved \in [Executions -> ExecutionRecords]
  BY DEF NoExecution, NothingSaved, ExecutionRecords
<1>2. NotSaving \in SaveStates /\ NotSaving.at = "idle" /\ NotSaving.alone = FALSE /\ NotSaving.left = {} /\ NotSaving.half = {}
  BY <1>1 DEF NotSaving, SaveStates
<1>3. QED
  BY <1>1, <1>2 DEF SaveShape

\* A change is not scheduled yet, or has armed the timer.
LEMMA PersistChanges ==
    ASSUME PersistInv, NEW e \in Executions, CreateExecution(e) \/ ChangeExecution(e) \/ LogAndSchedule(e)
    PROVE  PersistInv'
<1>1. UNCHANGED <<saving, documents, cached, undisturbed>> /\ ~AllScheduled'
  BY DEF CreateExecution, ChangeExecution, LogAndSchedule, AllScheduled
<1>2. live \in [Executions -> ExecutionRecords] /\ live[e] \in ExecutionRecords
  BY DEF PersistInv, PersistTyped
<1>3. live' \in [Executions -> ExecutionRecords]
  <2>1. CASE CreateExecution(e)
    BY <1>2, <2>1 DEF CreateExecution, ExecutionRecords
  <2>2. CASE ChangeExecution(e)
    <3>1. PICK ended \in BOOLEAN : live' = [live EXCEPT ![e].record = @ + 1, ![e].ended = ended]
      <4>1. PICK more \in BOOLEAN : live' = [live EXCEPT ![e].record = @ + 1, ![e].ended = @ \/ more]
        BY <2>2 DEF ChangeExecution
      <4>2. live' = [live EXCEPT ![e].record = @ + 1, ![e].ended = live[e].ended \/ more]
        BY <1>2, <4>1 DEF ExecutionRecords
      <4>3. (live[e].ended \/ more) \in BOOLEAN
        OBVIOUS
      <4>4. QED
        BY <4>2, <4>3
    <3>2. PICK r : r = [live[e] EXCEPT !.record = @ + 1, !.ended = ended]
      OBVIOUS
    <3>3. r \in ExecutionRecords
      <4>1. live[e].record \in Nat /\ live[e].log \in Nat
        BY <1>2 DEF ExecutionRecords
      <4>2. r = [record |-> live[e].record + 1, log |-> live[e].log, ended |-> ended]
        BY <1>2, <3>2 DEF ExecutionRecords
      <4>3. PICK n \in Nat : n = live[e].record + 1
        BY <4>1
      <4>4. QED
        BY <4>1, <4>2, <4>3, Zenon DEF ExecutionRecords
    <3>4. live' = [live EXCEPT ![e] = r]
      BY <1>2, <3>1, <3>2 DEF ExecutionRecords
    <3>5. QED
      BY <1>2, <3>3, <3>4
  <2>3. CASE LogAndSchedule(e)
    BY <1>2, <2>3 DEF LogAndSchedule, ExecutionRecords
  <2>4. QED
    BY <2>1, <2>2, <2>3
<1>4. boot' \in [Executions -> {"none", "under_way", "unsaved"}]
  BY DEF CreateExecution, ChangeExecution, LogAndSchedule, PersistInv, PersistTyped
<1>5. QED
  BY <1>1, <1>3, <1>4 DEF PersistInv, PersistTyped, CaughtUp, SaveShape, SavesAlone

\* A boot changes what no save is to bring.
LEMMA PersistBoots == ASSUME PersistInv, NEW e \in Executions, BootExecution(e) PROVE PersistInv'
<1>1. /\ UNCHANGED <<owed, pending, saving, documents, cached, undisturbed>>
      /\ live' = [live EXCEPT ![e].record = @ + 1] /\ boot' = [boot EXCEPT ![e] = "unsaved"]
      /\ live \in [Executions -> ExecutionRecords] /\ boot \in [Executions -> {"none", "under_way", "unsaved"}]
  BY DEF BootExecution, PersistInv, PersistTyped
<1>2. /\ live' \in [Executions -> ExecutionRecords] /\ boot' \in [Executions -> {"none", "under_way", "unsaved"}]
      /\ \A f \in Executions \ {e} : live'[f] = live[f] /\ boot'[f] = boot[f]
  BY <1>1 DEF ExecutionRecords
<1>3. Kept' \subseteq Kept \ {e} /\ \A f \in Kept' : Running(live)'[f] = Running(live)[f] /\ live'[f] = live[f]
  BY <1>1, <1>2 DEF Kept, Running
<1>4. Present(live)' \cap Kept' \subseteq Present(live) \cap Kept
  BY <1>2, <1>3 DEF Present
<1>5. \A s : Progress(s) => Progress(s)'
  <2> SUFFICES ASSUME NEW s, Progress(s) PROVE Progress(s)'
    OBVIOUS
  <2>1. ASSUME NEW f \in Present(live)' \cap Kept', SavedAs(f, s) PROVE SavedAs(f, s)'
    BY <1>1, <1>3, <2>1 DEF SavedAs
  <2>2. QED
    BY <1>1, <1>3, <1>4, <2>1 DEF Progress
<1>6. AllScheduled' <=> AllScheduled
  BY <1>1 DEF AllScheduled
<1>7. CaughtUp' /\ PersistTyped'
  BY <1>1, <1>2, <1>3, <1>4, <1>6 DEF PersistInv, PersistTyped, CaughtUp
<1>8. \A p \in Savers : SaveShape(saving[p])' /\ SavesAlone(p)'
  BY <1>1, <1>5, <1>6 DEF PersistInv, SaveShape, SavesAlone
<1>9. QED
  BY <1>1, <1>7, <1>8 DEF PersistInv

\* A save goes on; the others are not touched.
LEMMA SaveMoves ==
    ASSUME PersistInv, NEW p \in Savers, NEW new \in SaveStates, saving' = [saving EXCEPT ![p] = new],
           UNCHANGED <<live, owed, pending, cached, undisturbed>>, documents' \in [Executions -> ExecutionRecords],
           boot' \in [Executions -> {"none", "under_way", "unsaved"}],
           saving[p].at # "idle", new.at # "idle", SaveShape(new), new.alone = saving[p].alone,
           saving[p].alone /\ AllScheduled => Progress(new)'
    PROVE  PersistInv'
<1>1. /\ saving' \in [Savers -> SaveStates] /\ saving'[p] = new
      /\ \A q \in Savers \ {p} : saving'[q] = saving[q]
  BY DEF PersistInv, PersistTyped
<1>2. saving[p] # NotSaving /\ new # NotSaving
  BY NothingToSave
<1>3. PersistTyped' /\ CaughtUp' /\ (AllScheduled' <=> AllScheduled)
  BY <1>1, <1>2 DEF PersistInv, PersistTyped, CaughtUp, AllScheduled
<1>4. \A q \in Savers : SaveShape(saving[q])'
  BY <1>1 DEF PersistInv, SaveShape
<1>5. SavesAlone(p)'
  <2>1. saving[p].alone => \A q \in Savers \ {p} : saving'[q] = NotSaving
    BY <1>1 DEF PersistInv, SavesAlone
  <2>2. QED
    BY <1>1, <1>3, <2>1 DEF SavesAlone
<1>6. \A q \in Savers \ {p} : ~saving[q].alone
  BY <1>2 DEF PersistInv, SavesAlone
<1>7. \A q \in Savers \ {p} : SavesAlone(q)'
  BY <1>1, <1>6 DEF SavesAlone
<1>8. undisturbed' => \A q \in Savers : saving'[q] = NotSaving \/ saving'[q].alone
  BY <1>1, <1>2 DEF PersistInv
<1>9. QED
  BY <1>3, <1>4, <1>5, <1>7, <1>8 DEF PersistInv

LEMMA SaveBegins == ASSUME PersistInv, NEW p \in Savers, TimerFires(p) PROVE PersistInv'
<1>1. /\ saving[p] = NotSaving /\ Begin(p) /\ UNCHANGED <<live, owed, boot, documents, cached>>
      /\ undisturbed' => Others(p) = {}
  BY DEF TimerFires
<1>2. PICK new : new = [NotSaving EXCEPT !.at = "copy", !.alone = Others(p) = {}]
  OBVIOUS
<1>3. /\ new \in SaveStates /\ new.at = "copy" /\ (new.alone <=> Others(p) = {}) /\ new.half = {} /\ new.left = {}
  <2>1. (Others(p) = {}) \in BOOLEAN /\ NotSaving.half = {} /\ NotSaving.left = {}
    BY DEF NotSaving
  <2>2. QED
    BY <1>2, <2>1, NothingToSave DEF SaveStates
<1>4. saving \in [Savers -> SaveStates] /\ \A q \in Savers : SaveShape(saving[q])
  BY DEF PersistInv, PersistTyped
<1>5. /\ saving' \in [Savers -> SaveStates] /\ saving'[p] = new
      /\ \A q \in Savers \ {p} : saving'[q] = [saving[q] EXCEPT !.alone = FALSE] /\ saving'[q].alone = FALSE
  <2>1. \A q \in Savers : [saving[q] EXCEPT !.alone = FALSE] \in SaveStates /\ [saving[q] EXCEPT !.alone = FALSE].alone = FALSE
    BY <1>4 DEF SaveStates
  <2>2. saving' = [q \in Savers |-> IF q = p THEN new ELSE [saving[q] EXCEPT !.alone = FALSE]]
    BY <1>1, <1>2 DEF Begin
  <2>3. QED
    BY <1>3, <2>1, <2>2
<1>6. \A q \in Savers \ {p} : saving[q] = NotSaving => saving'[q] = NotSaving
  BY <1>5 DEF NotSaving
<1>7. \A q \in Savers \ {p} : Others(p) = {} => saving'[q] = NotSaving
  BY <1>6 DEF Others
<1>8. \A q \in Savers : SaveShape(saving[q])'
  <2>1. SaveShape(saving[p])'
    BY <1>3, <1>5 DEF SaveShape
  <2>2. ASSUME NEW q \in Savers \ {p} PROVE SaveShape(saving[q])'
    <3>1. saving'[q].at = saving[q].at /\ saving'[q].left = saving[q].left /\ saving'[q].half = saving[q].half
      BY <1>4, <1>5 DEF SaveStates
    <3>2. QED
      BY <1>4, <1>6, <3>1 DEF SaveShape
  <2>3. QED
    BY <2>1, <2>2
<1>9. \A q \in Savers : SavesAlone(q)'
  BY <1>3, <1>5, <1>7 DEF SavesAlone, Progress
<1>10. undisturbed' => \A q \in Savers : saving'[q] = NotSaving \/ saving'[q].alone
  BY <1>1, <1>3, <1>5, <1>7
<1>11. PersistTyped' /\ CaughtUp'
  BY <1>1, <1>3, <1>5, NothingToSave DEF PersistInv, PersistTyped, CaughtUp
<1>12. QED
  BY <1>8, <1>9, <1>10, <1>11 DEF PersistInv

\* The save copies the executions and writes them one after the other.
LEMMA SaveWrites ==
    ASSUME PersistInv, NEW p \in Savers, CopyExecutions(p) \/ SaveRecord(p) \/ SaveLog(p) \/ CopyRunning(p)
    PROVE  PersistInv'
<1>1. /\ UNCHANGED <<live, owed, pending, cached, undisturbed>> /\ live \in [Executions -> ExecutionRecords]
      /\ saving \in [Savers -> SaveStates] /\ documents \in [Executions -> ExecutionRecords]
      /\ saving[p] \in SaveStates /\ SaveShape(saving[p])
      /\ saving[p].alone /\ AllScheduled => Progress(saving[p])
      /\ boot \in [Executions -> {"none", "under_way", "unsaved"}]
  BY DEF PersistInv, PersistTyped, SavesAlone, CopyExecutions, SaveRecord, SaveLog, CopyRunning
<1>2. /\ saving[p].half \subseteq Executions /\ saving[p].left \subseteq Executions
      /\ saving[p].copy \in [Executions -> ExecutionRecords] /\ Present(live) \subseteq Executions
  BY <1>1 DEF SaveStates, Present
<1>3. CASE CopyExecutions(p)
  <2>1. saving[p].at = "copy" /\ documents' = documents /\ boot' \in [Executions -> {"none", "under_way", "unsaved"}]
    BY <1>1, <1>3 DEF CopyExecutions
  <2>2. PICK new : new = [saving[p] EXCEPT !.at = "documents", !.copy = live, !.left = Present(live)]
    OBVIOUS
  <2>3. /\ new \in SaveStates /\ new.at = "documents" /\ new.copy = live /\ new.left = Present(live)
        /\ new.half = saving[p].half /\ new.alone = saving[p].alone
    BY <1>1, <1>2, <2>2 DEF SaveStates
  <2>4. saving' = [saving EXCEPT ![p] = new]
    BY <1>3, <2>2 DEF CopyExecutions, SetSave
  <2>5. new.half = {}
    BY <1>1, <2>1, <2>3 DEF SaveShape
  <2>6. SaveShape(new)
    BY <2>3, <2>5 DEF SaveShape
  <2>7. Progress(new)'
    BY <1>1, <2>1, <2>3, <2>5 DEF Progress, SavedAs, Present
  <2>8. QED
    BY <1>1, <2>1, <2>3, <2>4, <2>6, <2>7, SaveMoves
<1>4. CASE SaveRecord(p)
  <2>1. PICK e \in saving[p].left :
            /\ documents' = [documents EXCEPT ![e].record = saving[p].copy[e].record, ![e].ended = saving[p].copy[e].ended]
            /\ SetSave(p, [saving[p] EXCEPT !.left = @ \ {e}, !.half = {e}])
    BY <1>4 DEF SaveRecord
  <2>2. saving[p].at = "documents" /\ saving[p].half = {} /\ e \in Executions /\ boot' = boot
    BY <1>2, <1>4 DEF SaveRecord
  <2>3. PICK new : new = [saving[p] EXCEPT !.left = @ \ {e}, !.half = {e}]
    OBVIOUS
  <2>4. /\ new \in SaveStates /\ new.at = "documents" /\ new.copy = saving[p].copy /\ new.left = saving[p].left \ {e}
        /\ new.half = {e} /\ new.alone = saving[p].alone
    BY <1>1, <1>2, <2>2, <2>3 DEF SaveStates
  <2>5. saving' = [saving EXCEPT ![p] = new]
    BY <2>1, <2>3 DEF SetSave
  <2>6. SaveShape(new)
    BY <2>4 DEF SaveShape
  <2>7. PICK r : r = [documents[e] EXCEPT !.record = saving[p].copy[e].record, !.ended = saving[p].copy[e].ended]
    OBVIOUS
  <2>8. saving[p].copy[e] \in ExecutionRecords /\ documents[e] \in ExecutionRecords
    BY <1>1, <1>2, <2>2
  <2>9. r \in ExecutionRecords /\ r.record = saving[p].copy[e].record /\ r.ended = saving[p].copy[e].ended
    BY <2>7, <2>8 DEF ExecutionRecords
  <2>10. documents' = [documents EXCEPT ![e] = r]
    BY <1>1, <2>1, <2>2, <2>7, <2>8 DEF ExecutionRecords
  <2>11. documents' \in [Executions -> ExecutionRecords] /\ documents'[e] = r /\ \A f \in Executions \ {e} : documents'[f] = documents[f]
    BY <1>1, <2>2, <2>9, <2>10
  <2>12. ASSUME saving[p].alone /\ AllScheduled PROVE Progress(new)'
    <3>1. \A f \in Present(live) \cap Kept : SavedAs(f, saving[p])
      BY <1>1, <2>2, <2>12 DEF Progress
    <3>2. \A f \in Present(live) \cap Kept : SavedAs(f, new)'
      BY <1>1, <1>2, <2>2, <2>4, <2>9, <2>11, <3>1 DEF SavedAs
    <3>3. Present(live)' = Present(live) /\ Kept' = Kept
      BY <1>1, <1>4 DEF Present, Kept, SaveRecord
    <3>4. QED
      BY <2>4, <3>2, <3>3 DEF Progress
  <2>13. QED
    BY <1>1, <2>2, <2>4, <2>5, <2>6, <2>11, <2>12, SaveMoves
<1>5. CASE SaveLog(p)
  <2>1. PICK e \in saving[p].half :
            /\ documents' = [documents EXCEPT ![e].log = saving[p].copy[e].log]
            /\ SetSave(p, [saving[p] EXCEPT !.half = {}, !.copy[e] = NoExecution])
    BY <1>5 DEF SaveLog
  <2>2. saving[p].at = "documents" /\ e \in Executions /\ e \notin saving[p].left /\ saving[p].half = {e}
    BY <1>1, <1>2, <2>1 DEF SaveShape
  <2>3. PICK new : new = [saving[p] EXCEPT !.half = {}, !.copy[e] = NoExecution]
    OBVIOUS
  <2>4. /\ new \in SaveStates /\ new.at = "documents" /\ new.left = saving[p].left
        /\ new.copy = [saving[p].copy EXCEPT ![e] = NoExecution]
        /\ new.half = {} /\ new.alone = saving[p].alone
    <3>1. [saving[p].copy EXCEPT ![e] = NoExecution] \in [Executions -> ExecutionRecords]
      BY <1>2, NothingToSave
    <3>2. QED
      BY <1>1, <1>2, <2>2, <2>3, <3>1 DEF SaveStates
  <2>5. saving' = [saving EXCEPT ![p] = new]
    BY <2>1, <2>3 DEF SetSave
  <2>6. SaveShape(new)
    BY <2>4 DEF SaveShape
  <2>7. saving[p].copy[e] \in ExecutionRecords /\ documents[e] \in ExecutionRecords /\ live[e] \in ExecutionRecords
    BY <1>1, <1>2, <2>2
  <2>8. /\ documents' \in [Executions -> ExecutionRecords] /\ \A f \in Executions \ {e} : documents'[f] = documents[f]
        /\ documents'[e].log = saving[p].copy[e].log /\ documents'[e].record = documents[e].record
        /\ documents'[e].ended = documents[e].ended
    BY <1>1, <2>1, <2>2, <2>7 DEF ExecutionRecords
  <2>9. \A f \in Executions \ {e} : new.copy[f] = saving[p].copy[f]
    BY <1>2, <2>2, <2>4
  <2>10. ASSUME saving[p].alone /\ AllScheduled PROVE Progress(new)'
    <3>1. \A f \in Present(live) \cap Kept : SavedAs(f, saving[p])
      BY <1>1, <2>2, <2>10 DEF Progress
    <3>2. e \in Present(live) \cap Kept => documents'[e] = live[e]
      <4> SUFFICES ASSUME e \in Present(live) \cap Kept PROVE documents'[e] = live[e]
        OBVIOUS
      <4>1. documents'[e].log = live[e].log /\ documents'[e].record = live[e].record /\ documents'[e].ended = live[e].ended
        BY <2>2, <2>8, <3>1 DEF SavedAs
      <4>2. documents'[e] \in ExecutionRecords
        BY <2>2, <2>8
      <4>3. QED
        BY <2>7, <4>1, <4>2 DEF ExecutionRecords
    <3>3. \A f \in Present(live) \cap Kept : SavedAs(f, new)'
      BY <1>1, <1>2, <2>2, <2>4, <2>8, <2>9, <3>1, <3>2 DEF SavedAs
    <3>4. Present(live)' = Present(live) /\ Kept' = Kept
      BY <1>1, <1>5 DEF Present, Kept, SaveLog
    <3>5. QED
      BY <2>4, <3>3, <3>4 DEF Progress
  <2>11. boot' = boot
    BY <1>5 DEF SaveLog
  <2>12. QED
    BY <1>1, <2>2, <2>4, <2>5, <2>6, <2>8, <2>10, <2>11, SaveMoves
<1>6. CASE CopyRunning(p)
  <2>1. /\ saving[p].at = "cache" \/ (saving[p].at = "documents" /\ saving[p].left \cup saving[p].half = {})
        /\ documents' = documents /\ boot' = boot
    BY <1>6 DEF CopyRunning
  <2>2. PICK new : new = [saving[p] EXCEPT !.at = "write", !.copy = Running(live)]
    OBVIOUS
  <2>3. Running(live) \in [Executions -> ExecutionRecords]
    BY <1>1, NothingToSave DEF Running
  <2>4. /\ new \in SaveStates /\ new.at = "write" /\ new.copy = Running(live) /\ new.left = saving[p].left
        /\ new.half = saving[p].half /\ new.alone = saving[p].alone
    BY <1>1, <2>2, <2>3 DEF SaveStates
  <2>5. saving' = [saving EXCEPT ![p] = new]
    BY <1>6, <2>2 DEF CopyRunning, SetSave
  <2>6. SaveShape(new)
    BY <1>1, <2>1, <2>4 DEF SaveShape
  <2>7. ASSUME saving[p].alone /\ AllScheduled PROVE Progress(new)'
    BY <1>1, <2>1, <2>4, <2>7 DEF Progress, SavedAs, Present, Running, Kept
  <2>8. QED
    BY <1>1, <2>1, <2>4, <2>5, <2>6, <2>7, SaveMoves
<1>7. QED
  BY <1>3, <1>4, <1>5, <1>6

LEMMA SaveBreaks == ASSUME PersistInv, NEW p \in Savers, SaveFails(p) PROVE PersistInv'
<1>1. /\ UNCHANGED <<live, owed, boot, pending, documents, cached>> /\ undisturbed' = FALSE
      /\ saving[p].at = "documents" /\ saving[p] \in SaveStates /\ saving \in [Savers -> SaveStates]
  BY DEF SaveFails, PersistInv, PersistTyped
<1>2. PICK new : new = [saving[p] EXCEPT !.at = "cache", !.copy = NothingSaved, !.left = {}, !.half = {}, !.alone = FALSE]
  OBVIOUS
<1>3. new \in SaveStates /\ new.at = "cache" /\ new.left = {} /\ new.half = {} /\ new.alone = FALSE
  BY <1>1, <1>2, NothingToSave DEF SaveStates
<1>4. saving' = [saving EXCEPT ![p] = new]
  BY <1>2 DEF SaveFails, SetSave
<1>5. saving' \in [Savers -> SaveStates] /\ saving'[p] = new /\ \A q \in Savers \ {p} : saving'[q] = saving[q]
  BY <1>1, <1>3, <1>4
<1>6. \A q \in Savers \ {p} : ~saving[q].alone
  BY <1>1, NothingToSave DEF PersistInv, SavesAlone
<1>7. \A q \in Savers : SaveShape(saving[q])'
  BY <1>3, <1>5 DEF PersistInv, SaveShape
<1>8. \A q \in Savers : SavesAlone(q)'
  BY <1>3, <1>5, <1>6 DEF SavesAlone
<1>9. QED
  BY <1>1, <1>5, <1>7, <1>8 DEF PersistInv, PersistTyped, CaughtUp

\* A save that nothing disturbed leaves store and cache as the executions are.
LEMMA SaveCompletes == ASSUME PersistInv, NEW p \in Savers, WriteCache(p) PROVE PersistInv'
<1>1. /\ UNCHANGED <<live, owed, boot, pending, documents>> /\ cached' = saving[p].copy /\ saving[p].at = "write"
      /\ saving' = [saving EXCEPT ![p] = NotSaving] /\ undisturbed' = (undisturbed \/ saving[p].alone)
      /\ saving[p] \in SaveStates /\ saving \in [Savers -> SaveStates]
  BY DEF WriteCache, SetSave, PersistInv, PersistTyped
<1>2. saving' \in [Savers -> SaveStates] /\ saving'[p] = NotSaving /\ \A q \in Savers \ {p} : saving'[q] = saving[q]
  BY <1>1, NothingToSave
<1>3. saving[p] # NotSaving
  BY <1>1, NothingToSave
<1>4. undisturbed' => saving[p].alone
  BY <1>1, <1>3 DEF PersistInv
<1>5. saving[p].alone => \A q \in Savers : saving'[q] = NotSaving
  BY <1>2 DEF PersistInv, SavesAlone
<1>6. \A q \in Savers : SaveShape(saving[q])'
  BY <1>2, NothingToSave DEF PersistInv, SaveShape
<1>7. \A q \in Savers \ {p} : ~saving[q].alone
  BY <1>3 DEF PersistInv, SavesAlone
<1>8. \A q \in Savers : SavesAlone(q)'
  BY <1>2, <1>7, NothingToSave DEF SavesAlone
<1>9. CaughtUp'
  <2> SUFFICES ASSUME undisturbed', AllScheduled'
               PROVE  /\ \A e \in Kept' : cached'[e] = Running(live)'[e]
                      /\ \A e \in Present(live)' \cap Kept' : documents'[e] = live'[e]
    BY DEF CaughtUp
  <2>1. Progress(saving[p])
    BY <1>1, <1>4 DEF PersistInv, SavesAlone, AllScheduled
  <2>2. QED
    BY <1>1, <2>1 DEF Progress, Running, Present, Kept
<1>10. PersistTyped'
  BY <1>1, <1>2 DEF PersistInv, PersistTyped, SaveStates
<1>11. QED
  BY <1>4, <1>5, <1>6, <1>8, <1>9, <1>10 DEF PersistInv

\* A save whose cache cannot be written has disturbed.
LEMMA SaveLeaves == ASSUME PersistInv, NEW p \in Savers, CacheFails(p) PROVE PersistInv'
<1>1. /\ UNCHANGED <<live, owed, boot, pending, documents, cached>> /\ undisturbed' = FALSE
      /\ saving[p].at = "write" /\ saving' = [saving EXCEPT ![p] = NotSaving] /\ saving \in [Savers -> SaveStates]
  BY DEF CacheFails, SetSave, PersistInv, PersistTyped
<1>2. saving' \in [Savers -> SaveStates] /\ saving'[p] = NotSaving /\ \A q \in Savers \ {p} : saving'[q] = saving[q]
  BY <1>1, NothingToSave
<1>3. \A q \in Savers : SaveShape(saving[q])'
  BY <1>2, NothingToSave DEF PersistInv, SaveShape
<1>4. \A q \in Savers \ {p} : ~saving[q].alone
  BY <1>1, NothingToSave DEF PersistInv, SavesAlone
<1>5. \A q \in Savers : SavesAlone(q)'
  BY <1>2, <1>4, NothingToSave DEF SavesAlone
<1>6. QED
  BY <1>1, <1>2, <1>3, <1>5 DEF PersistInv, PersistTyped, CaughtUp

LEMMA PersistStep == PersistInv /\ [PersistNext]_persistVars => PersistInv'
<1> SUFFICES ASSUME PersistInv, [PersistNext]_persistVars PROVE PersistInv'
  OBVIOUS
<1>1. ASSUME NEW e \in Executions, CreateExecution(e) \/ ChangeExecution(e) \/ LogAndSchedule(e) PROVE PersistInv'
  BY <1>1, PersistChanges
<1>a. ASSUME NEW e \in Executions, BootExecution(e) PROVE PersistInv'
  BY <1>a, PersistBoots
<1>2. ASSUME NEW p \in Savers, TimerFires(p) PROVE PersistInv'
  BY <1>2, SaveBegins
<1>3. ASSUME NEW p \in Savers, CopyExecutions(p) \/ SaveRecord(p) \/ SaveLog(p) \/ CopyRunning(p) PROVE PersistInv'
  BY <1>3, SaveWrites
<1>4. ASSUME NEW p \in Savers, SaveFails(p) PROVE PersistInv'
  BY <1>4, SaveBreaks
<1>5. ASSUME NEW p \in Savers, WriteCache(p) PROVE PersistInv'
  BY <1>5, SaveCompletes
<1>b. ASSUME NEW p \in Savers, CacheFails(p) PROVE PersistInv'
  BY <1>b, SaveLeaves
<1>6. ASSUME NEW store \in BOOLEAN, NEW cache \in BOOLEAN, Restarts(store, cache) PROVE PersistInv'
  <2>1. /\ UNCHANGED <<documents, cached>> /\ saving' = [p \in Savers |-> NotSaving] /\ undisturbed' = FALSE
        /\ boot' = [e \in Executions |-> "none"]
        /\ live' = [e \in Executions |-> IF store /\ documents[e] # NoExecution THEN documents[e]
                                         ELSE IF cache THEN cached[e] ELSE NoExecution]
    BY <1>6 DEF Restarts, Restored
  <2>2. PersistTyped'
    BY <2>1, NothingToSave DEF PersistInv, PersistTyped
  <2>3. \A p \in Savers : saving'[p] = NotSaving
    BY <2>1
  <2>4. \A p \in Savers : SaveShape(saving[p])' /\ SavesAlone(p)'
    BY <2>3, NothingToSave DEF SaveShape, SavesAlone
  <2>5. QED
    BY <2>1, <2>2, <2>4 DEF PersistInv, CaughtUp
<1>7. CASE UNCHANGED persistVars
  BY <1>7 DEF persistVars, PersistInv, PersistTyped, CaughtUp, SaveShape, SavesAlone, Progress, SavedAs, AllScheduled,
              Present, Running, Kept
<1>8. QED
  BY <1>1, <1>a, <1>2, <1>3, <1>4, <1>5, <1>b, <1>6, <1>7 DEF PersistNext

\* When no timer is armed, no save runs and every change has been logged, store
\* and cache hold the executions in memory (schedulePersist,
\* persistExecutionRuntime) except one whose boot no save has followed, unless a
\* write failed or a save met another or was cut off and no complete one has
\* followed: for any number of executions, boots, changes, overlapping saves,
\* faults and restarts.
THEOREM PersistenceCatchesUp == PersistSpec => []PersistCatchesUp
<1>1. PersistInit => PersistInv
  <2> SUFFICES ASSUME PersistInit PROVE PersistInv
    OBVIOUS
  <2>1. PersistTyped /\ \A p \in Savers : saving[p] = NotSaving
    BY NothingToSave DEF PersistInit, PersistTyped
  <2>2. Present(live) = {} /\ Running(live) = NothingSaved
    BY DEF PersistInit, Present, Running, NothingSaved, NoExecution
  <2>3. CaughtUp
    BY <2>2 DEF PersistInit, CaughtUp, Kept
  <2>4. \A p \in Savers : SaveShape(saving[p]) /\ SavesAlone(p)
    BY <2>1, NothingToSave DEF SaveShape, SavesAlone
  <2>5. QED
    BY <2>1, <2>3, <2>4 DEF PersistInv
<1>2. PersistInv => PersistCatchesUp
  BY DEF PersistInv, CaughtUp, AllScheduled, PersistCatchesUp, Kept
<1>3. QED
  BY <1>1, <1>2, PersistStep, PTL DEF PersistSpec

-----------------------------------------------------------------------------
(* The overview *)

StepStates == {"none", "pending", "running"} \cup Terminal
ShownRecords ==
    [status : {"none", "Booting", "Healthy", "Failed"}, step : [Nodes -> StepStates], completed : Nat,
     updatedAt : Nat, late : BOOLEAN]

OverviewTyped ==
    /\ executions \in [Shown -> ShownRecords] /\ sync = [g \in Syncs |-> sync[g]]
    /\ overview \in [of : [Shown -> ShownRecords], updatedAt : Nat] /\ syncs \in Nat
    /\ watch \in [at : {"none", "open", "closed"}, channel : Seq(Nat), shows : Nat, latest : Nat]

AtEnd(record) == {n \in Nodes : record.step[n] \in Terminal}

\* Without a late report, completed counts the steps at their end, and a run is
\* healthy only with all of them there.
SoundRecords ==
    {record \in ShownRecords :
        ~record.late => /\ record.completed = Cardinality(AtEnd(record))
                        /\ record.status = "Healthy" => AtEnd(record) = Nodes}

SyncSound(s) ==
    /\ s.at \in {"changed", "taken"} => s.execution \in Shown
    /\ s.at = "taken" => s.snapshot \in SoundRecords
    /\ s.at = "sending" => s.overview \in Nat /\ s.overview <= overview.updatedAt

\* The execution as it is has been shown, or someone is going to show it.
ToBeShown(e) ==
    \/ executions[e] \in {NoRecord, overview.of[e]} \/ e \in overtaken
    \/ \E g \in Syncs : sync[g].at = "changed" /\ sync[g].execution = e
    \/ \E g \in Syncs : sync[g].at = "taken" /\ sync[g].execution = e /\ sync[g].snapshot = executions[e]

SendsLatest(g) == sync[g].at = "sending" /\ sync[g].overview = overview.updatedAt

\* The subscriber ends with the overview that was put into its channel last.
WatchFollows ==
    watch.at = "open" =>
        /\ watch.latest <= overview.updatedAt
        /\ watch.channel = <<>> => watch.shows = watch.latest
        /\ watch.channel # <<>> => watch.channel[Len(watch.channel)] = watch.latest
        /\ ~missed => watch.latest = overview.updatedAt \/ \E g \in Syncs : SendsLatest(g)

OverviewInv ==
    /\ OverviewTyped /\ WatchFollows
    /\ \A g \in Syncs : SyncSound(sync[g])
    /\ \A e \in Shown : executions[e] \in SoundRecords /\ overview.of[e] \in SoundRecords /\ ToBeShown(e)

LEMMA NothingShown == NoRecord \in ShownRecords /\ NoRecord.updatedAt = 0 /\ NoRecord \in SoundRecords /\ Idle.at = "idle"
<1>1. /\ NoRecord \in ShownRecords /\ NoRecord.updatedAt = 0 /\ NoRecord.status = "none" /\ Idle.at = "idle"
      /\ NoRecord.completed = 0
  BY DEF NoRecord, ShownRecords, StepStates, Idle
<1>2. AtEnd(NoRecord) = {}
  BY DEF AtEnd, NoRecord, Terminal
<1>3. QED
  BY <1>1, <1>2, FS_EmptySet DEF SoundRecords

LEMMA SyncChanged ==
    ASSUME OverviewInv, NEW g \in Syncs, NEW new, sync' = [sync EXCEPT ![g] = new]
    PROVE  sync' = [h \in Syncs |-> sync'[h]] /\ sync'[g] = new /\ \A h \in Syncs \ {g} : sync'[h] = sync[h]
<1>1. sync = [h \in Syncs |-> sync[h]]
  BY DEF OverviewInv, OverviewTyped
<1>2. QED
  BY <1>1

\* A record with another time keeps the rest.
LEMMA Stamped ==
    ASSUME NEW record \in SoundRecords, NEW n \in Nat, NEW new, new = [record EXCEPT !.updatedAt = n]
    PROVE  new \in SoundRecords /\ new.updatedAt = n
<1>1. /\ new \in ShownRecords /\ new.updatedAt = n /\ new.status = record.status /\ new.step = record.step
      /\ new.completed = record.completed /\ new.late = record.late
  BY DEF SoundRecords, ShownRecords
<1>2. AtEnd(new) = AtEnd(record)
  BY <1>1 DEF AtEnd
<1>3. QED
  BY <1>1, <1>2 DEF SoundRecords

\* A change makes every snapshot there is an older one.
LEMMA OverviewChanges ==
    ASSUME OverviewInv, NEW g \in Syncs, NEW e \in Shown, NEW record \in SoundRecords, Changes(g, e, record)
    PROVE  OverviewInv'
<1>1. /\ sync[g] = Idle /\ syncs' = syncs + 1 /\ UNCHANGED <<overview, watch, overtaken, missed>>
      /\ executions' = [executions EXCEPT ![e] = [record EXCEPT !.updatedAt = syncs + 1]]
      /\ sync' = [sync EXCEPT ![g] = [at |-> "changed", execution |-> e]]
  BY DEF Changes
<1>2. /\ executions \in [Shown -> ShownRecords] /\ syncs \in Nat /\ overview \in [of : [Shown -> ShownRecords], updatedAt : Nat]
      /\ \A f \in Shown : executions[f] \in SoundRecords /\ overview.of[f] \in SoundRecords /\ ToBeShown(f)
      /\ \A h \in Syncs : SyncSound(sync[h])
  BY DEF OverviewInv, OverviewTyped
<1>3. PICK new : new = [record EXCEPT !.updatedAt = syncs + 1]
  OBVIOUS
<1>4. new \in ShownRecords /\ new \in SoundRecords
  <2>1. syncs + 1 \in Nat
    BY <1>2
  <2>2. new \in SoundRecords
    BY <1>3, <2>1, Stamped, Zenon
  <2>3. QED
    BY <2>2 DEF SoundRecords
<1>5. /\ executions' \in [Shown -> ShownRecords] /\ executions'[e] = new
      /\ \A f \in Shown \ {e} : executions'[f] = executions[f]
  BY <1>1, <1>2, <1>3, <1>4
<1>6. /\ sync' = [h \in Syncs |-> sync'[h]] /\ sync'[g] = [at |-> "changed", execution |-> e]
      /\ \A h \in Syncs \ {g} : sync'[h] = sync[h]
  BY <1>1, SyncChanged
<1>8. \A f \in Shown : (executions[f] \in SoundRecords)' /\ (overview.of[f] \in SoundRecords)'
  BY <1>1, <1>2, <1>4, <1>5
<1>9. \A h \in Syncs : SyncSound(sync[h])'
  <2>1. SyncSound(sync[g])'
    BY <1>6 DEF SyncSound
  <2>2. ASSUME NEW h \in Syncs \ {g} PROVE SyncSound(sync[h])'
    BY <1>1, <1>2, <1>6 DEF SyncSound
  <2>3. QED
    BY <2>1, <2>2
<1>10. sync[g].at = "idle"
  BY <1>1, NothingShown
<1>11. \A f \in Shown : ToBeShown(f)'
  <2>1. ToBeShown(e)'
    BY <1>6 DEF ToBeShown
  <2>2. \A f \in Shown \ {e} : ToBeShown(f)'
    BY <1>1, <1>2, <1>5, <1>6, <1>10 DEF ToBeShown
  <2>3. QED
    BY <2>1, <2>2
<1>12. WatchFollows'
  <2>1. \A h \in Syncs : SendsLatest(h) => SendsLatest(h)'
    BY <1>1, <1>6, <1>10 DEF SendsLatest
  <2>2. QED
    BY <1>1, <2>1 DEF OverviewInv, WatchFollows
<1>13. OverviewTyped'
  BY <1>1, <1>2, <1>5, <1>6 DEF OverviewInv, OverviewTyped
<1>14. QED
  BY <1>8, <1>9, <1>11, <1>12, <1>13 DEF OverviewInv

\* A step that comes to its end is counted, once unless it was reported late.
LEMMA MarkedRecord ==
    ASSUME NEW record \in SoundRecords, NEW n \in Nodes, record.step[n] \notin Terminal,
           NEW status \in Terminal, NEW hardFailure \in BOOLEAN
    PROVE  Marked(record, n, status, hardFailure) \in SoundRecords
<1>1. PICK ended : ended = [record EXCEPT !.step[n] = status, !.completed = @ + 1,
                                          !.status = IF hardFailure THEN "Failed" ELSE @]
  OBVIOUS
<1>2. /\ record \in ShownRecords /\ record.step \in [Nodes -> StepStates] /\ record.completed \in Nat
      /\ record.status \in {"none", "Booting", "Healthy", "Failed"}
  BY DEF SoundRecords, ShownRecords
<1>3. [record.step EXCEPT ![n] = status] \in [Nodes -> StepStates]
  BY <1>2 DEF StepStates
<1>a. PICK st : st = IF hardFailure THEN "Failed" ELSE record.status
  OBVIOUS
<1>b. PICK c \in Nat : c = record.completed + 1
  BY <1>2
<1>c. PICK steps \in [Nodes -> StepStates] : steps = [record.step EXCEPT ![n] = status]
  BY <1>3
<1>d. ended = [record EXCEPT !.step = steps, !.completed = c, !.status = st]
  BY <1>1, <1>2, <1>a, <1>b, <1>c DEF ShownRecords
<1>e. st \in {"none", "Booting", "Healthy", "Failed"}
  BY <1>2, <1>a
<1>f. ended \in ShownRecords /\ ended.step = steps /\ ended.late = record.late /\ ended.completed = c /\ ended.status = st
  BY <1>2, <1>d, <1>e DEF ShownRecords
<1>4. /\ ended \in ShownRecords /\ ended.step = [record.step EXCEPT ![n] = status] /\ ended.late = record.late
      /\ ended.completed = record.completed + 1 /\ ended.status = IF hardFailure THEN "Failed" ELSE record.status
  BY <1>a, <1>b, <1>c, <1>f
<1>5. PICK s : s = IF ended.completed >= Cardinality(Nodes) /\ ended.status # "Failed" THEN "Healthy" ELSE ended.status
  OBVIOUS
<1>6. Marked(record, n, status, hardFailure) = [ended EXCEPT !.status = s]
  BY <1>1, <1>5 DEF Marked
<1>7. PICK marked : marked = [ended EXCEPT !.status = s]
  OBVIOUS
<1>8. s \in {"none", "Booting", "Healthy", "Failed"}
  BY <1>4, <1>5 DEF ShownRecords
<1>9. /\ marked \in ShownRecords /\ marked.status = s /\ marked.step = ended.step /\ marked.late = ended.late
      /\ marked.completed = ended.completed
  BY <1>4, <1>7, <1>8 DEF ShownRecords
<1>10. AtEnd(marked) = AtEnd(record) \cup {n} /\ n \notin AtEnd(record) /\ AtEnd(marked) \subseteq Nodes
  BY <1>2, <1>4, <1>9 DEF AtEnd
<1>11. ASSUME ~marked.late
       PROVE  marked.completed = Cardinality(AtEnd(marked)) /\ (s = "Healthy" => AtEnd(marked) = Nodes)
  <2>1. /\ IsFiniteSet(AtEnd(record)) /\ IsFiniteSet(AtEnd(marked)) /\ IsFiniteSet(Nodes)
    BY <1>10, OverviewAssumption, FS_Subset
  <2>2. Cardinality(AtEnd(marked)) = Cardinality(AtEnd(record)) + 1
    BY <1>10, <2>1, FS_AddElement
  <2>3. record.completed = Cardinality(AtEnd(record)) /\ (record.status = "Healthy" => AtEnd(record) = Nodes)
    BY <1>4, <1>9, <1>11 DEF SoundRecords
  <2>4. marked.completed = Cardinality(AtEnd(marked))
    BY <1>4, <1>9, <2>2, <2>3
  <2>5. Cardinality(AtEnd(marked)) \in Nat /\ Cardinality(Nodes) \in Nat /\ Cardinality(AtEnd(marked)) <= Cardinality(Nodes)
    BY <1>10, <2>1, FS_CardinalityType, FS_Subset
  <2>6. record.status # "Healthy"
    BY <1>10, <2>3
  <2>7. s = "Healthy" => ended.completed >= Cardinality(Nodes)
    BY <1>4, <1>5, <2>6
  <2>8. s = "Healthy" => Cardinality(AtEnd(marked)) = Cardinality(Nodes)
    BY <1>9, <2>4, <2>5, <2>7
  <2>9. s = "Healthy" => AtEnd(marked) = Nodes
    BY <1>10, <2>1, <2>8, FS_Subset
  <2>10. QED
    BY <2>4, <2>9
<1>12. QED
  BY <1>6, <1>7, <1>9, <1>11 DEF SoundRecords

\* A change that leaves the steps at their end there, or is a late report.
LEMMA RecordChanged ==
    ASSUME NEW record \in SoundRecords, NEW new \in ShownRecords,
           new.late \/ (/\ ~record.late /\ AtEnd(new) = AtEnd(record) /\ new.completed = record.completed
                        /\ (new.status = "Healthy" => record.status = "Healthy"))
    PROVE  new \in SoundRecords
BY DEF SoundRecords

LEMMA ExecutionsChange ==
    ASSUME OverviewInv, NEW g \in Syncs, NEW e \in Shown,
           \/ LaunchShown(g, e) \/ FailBooted(g, e) \/ SyncAgain(g, e)
           \/ \E n \in Nodes : \/ AppendEvent(g, e, n) \/ MarkNodeTerminal(g, e, n, "failed", TRUE)
                               \/ \E s \in Terminal : MarkNodeTerminal(g, e, n, s, FALSE)
    PROVE  OverviewInv'
<1>1. executions[e] \in SoundRecords /\ executions[e] \in ShownRecords
  BY DEF OverviewInv, SoundRecords
<1>2. CASE LaunchShown(g, e)
  <2>1. PICK new : new = [NoRecord EXCEPT !.status = "Booting"]
    OBVIOUS
  <2>2. /\ new \in ShownRecords /\ new.status = "Booting" /\ new.step = NoRecord.step /\ ~NoRecord.late
        /\ new.completed = NoRecord.completed
    BY <2>1, NothingShown DEF ShownRecords, NoRecord
  <2>3. AtEnd(new) = AtEnd(NoRecord)
    BY <2>2 DEF AtEnd
  <2>4. new \in SoundRecords
    BY <2>2, <2>3, NothingShown, RecordChanged
  <2>5. QED
    BY <1>2, <2>1, <2>4, OverviewChanges DEF LaunchShown
<1>a. CASE FailBooted(g, e)
  <2>1. PICK new : new = [executions[e] EXCEPT !.status = "Failed"]
    OBVIOUS
  <2>2. /\ new \in ShownRecords /\ new.status = "Failed" /\ new.step = executions[e].step
        /\ new.completed = executions[e].completed /\ new.late = executions[e].late
    BY <1>1, <2>1 DEF ShownRecords
  <2>3. AtEnd(new) = AtEnd(executions[e])
    BY <2>2 DEF AtEnd
  <2>4. new \in SoundRecords
    BY <1>1, <2>2, <2>3, RecordChanged
  <2>5. QED
    BY <1>a, <2>1, <2>4, OverviewChanges DEF FailBooted
<1>3. CASE SyncAgain(g, e)
  BY <1>1, <1>3, OverviewChanges DEF SyncAgain
<1>4. ASSUME NEW n \in Nodes, AppendEvent(g, e, n) PROVE OverviewInv'
  <2>1. PICK late : late = (executions[e].late \/ executions[e].step[n] \in Terminal)
    OBVIOUS
  <2>2. PICK new : new = [executions[e] EXCEPT !.step[n] = "running", !.late = late]
    OBVIOUS
  <2>3. executions[e].step \in [Nodes -> StepStates] /\ late \in BOOLEAN
    BY <1>1, <2>1 DEF ShownRecords
  <2>4. [executions[e].step EXCEPT ![n] = "running"] \in [Nodes -> StepStates]
    BY <2>3 DEF StepStates
  <2>5. /\ new \in ShownRecords /\ new.status = executions[e].status /\ new.completed = executions[e].completed
        /\ new.step = [executions[e].step EXCEPT ![n] = "running"] /\ new.late = late
    BY <1>1, <2>2, <2>3, <2>4 DEF ShownRecords
  <2>6. ~late => AtEnd(new) = AtEnd(executions[e]) /\ ~executions[e].late
    BY <2>1, <2>3, <2>5 DEF AtEnd, Terminal
  <2>7. new \in SoundRecords
    BY <1>1, <2>5, <2>6, RecordChanged
  <2>8. Changes(g, e, new)
    BY <1>1, <1>4, <2>1, <2>2 DEF AppendEvent, ShownRecords
  <2>9. QED
    BY <2>7, <2>8, OverviewChanges
<1>5. ASSUME NEW n \in Nodes, NEW s \in Terminal, NEW hard \in BOOLEAN, MarkNodeTerminal(g, e, n, s, hard) PROVE OverviewInv'
  <2>1. executions[e].step[n] \notin Terminal /\ Changes(g, e, Marked(executions[e], n, s, hard))
    BY <1>5 DEF MarkNodeTerminal, Markable, Terminal
  <2>2. Marked(executions[e], n, s, hard) \in SoundRecords
    BY <1>1, <2>1, MarkedRecord
  <2>3. QED
    BY <2>1, <2>2, OverviewChanges
<1>6. "failed" \in Terminal
  BY DEF Terminal
<1>7. QED
  BY <1>2, <1>a, <1>3, <1>4, <1>5, <1>6

\* The boot leaves the execution to be shown by its next change.
LEMMA ExecutionBooted == ASSUME OverviewInv, NEW e \in Shown, BootShown(e) PROVE OverviewInv'
<1>1. /\ executions' = [executions EXCEPT ![e].step = [n \in Nodes |-> "pending"]] /\ overtaken' = overtaken \cup {e}
      /\ UNCHANGED <<sync, overview, watch, missed, syncs>> /\ executions[e].status = "Booting"
      /\ \A n \in Nodes : executions[e].step[n] = "none"
  BY DEF BootShown
<1>2. executions \in [Shown -> ShownRecords] /\ executions[e] \in ShownRecords /\ executions[e] \in SoundRecords
  BY DEF OverviewInv, OverviewTyped
<1>3. PICK new : new = [executions[e] EXCEPT !.step = [n \in Nodes |-> "pending"]]
  OBVIOUS
<1>4. /\ new \in ShownRecords /\ new.status = "Booting" /\ new.completed = executions[e].completed
      /\ new.step = [n \in Nodes |-> "pending"] /\ new.late = executions[e].late
  <2>1. [n \in Nodes |-> "pending"] \in [Nodes -> StepStates]
    BY DEF StepStates
  <2>2. QED
    BY <1>1, <1>2, <1>3, <2>1 DEF ShownRecords
<1>5. AtEnd(new) = {} /\ AtEnd(executions[e]) = {}
  BY <1>1, <1>4 DEF AtEnd, Terminal
<1>6. new \in SoundRecords
  BY <1>2, <1>4, <1>5, RecordChanged
<1>7. /\ executions' \in [Shown -> ShownRecords] /\ executions'[e] = new
      /\ \A f \in Shown \ {e} : executions'[f] = executions[f]
  BY <1>1, <1>2, <1>3, <1>4
<1>8. \A f \in Shown : (executions[f] \in SoundRecords)' /\ (overview.of[f] \in SoundRecords)'
  BY <1>1, <1>6, <1>7 DEF OverviewInv
<1>9. \A f \in Shown : ToBeShown(f)'
  BY <1>1, <1>7 DEF OverviewInv, ToBeShown
<1>10. \A g \in Syncs : SyncSound(sync[g])'
  BY <1>1 DEF OverviewInv, SyncSound
<1>11. OverviewTyped' /\ WatchFollows'
  BY <1>1, <1>7 DEF OverviewInv, OverviewTyped, WatchFollows, SendsLatest
<1>12. QED
  BY <1>8, <1>9, <1>10, <1>11 DEF OverviewInv

\* An execution that is evicted has nothing left to show.
LEMMA ExecutionEvicted == ASSUME OverviewInv, NEW e \in Shown, Evict(e) PROVE OverviewInv'
<1>1. executions' = [executions EXCEPT ![e] = NoRecord] /\ UNCHANGED <<sync, overview, watch, overtaken, missed, syncs>>
  BY DEF Evict
<1>2. executions \in [Shown -> ShownRecords] /\ syncs \in Nat
  BY DEF OverviewInv, OverviewTyped
<1>3. /\ executions' \in [Shown -> ShownRecords] /\ executions'[e] = NoRecord
      /\ \A f \in Shown \ {e} : executions'[f] = executions[f]
  BY <1>1, <1>2, NothingShown
<1>5. \A f \in Shown : (executions[f] \in SoundRecords)' /\ (overview.of[f] \in SoundRecords)' /\ ToBeShown(f)'
  <2>1. \A f \in Shown : (executions[f] \in SoundRecords)' /\ (overview.of[f] \in SoundRecords)'
    BY <1>1, <1>3, NothingShown DEF OverviewInv
  <2>2. ToBeShown(e)'
    BY <1>3 DEF ToBeShown
  <2>3. ASSUME NEW f \in Shown \ {e} PROVE ToBeShown(f)'
    BY <1>1, <1>3 DEF OverviewInv, ToBeShown
  <2>4. QED
    BY <2>1, <2>2, <2>3
<1>6. \A g \in Syncs : SyncSound(sync[g])'
  BY <1>1 DEF OverviewInv, SyncSound
<1>7. OverviewTyped' /\ WatchFollows'
  BY <1>1, <1>3 DEF OverviewInv, OverviewTyped, WatchFollows, SendsLatest
<1>8. QED
  BY <1>5, <1>6, <1>7 DEF OverviewInv

LEMMA SnapshotTaken == ASSUME OverviewInv, NEW g \in Syncs, TakeSnapshot(g) PROVE OverviewInv'
<1>1. /\ sync[g].at = "changed" /\ UNCHANGED <<executions, overview, watch, overtaken, missed, syncs>>
      /\ sync[g].execution \in Shown
  BY DEF TakeSnapshot, OverviewInv, SyncSound
<1>2. PICK new : /\ sync' = [sync EXCEPT ![g] = new]
                 /\ \/ new = Idle /\ executions[sync[g].execution] = NoRecord
                    \/ new = [at |-> "taken", execution |-> sync[g].execution, snapshot |-> executions[sync[g].execution]]
  BY DEF TakeSnapshot, SnapshotExecution
<1>3. sync' = [h \in Syncs |-> sync'[h]] /\ sync'[g] = new /\ \A h \in Syncs \ {g} : sync'[h] = sync[h]
  BY <1>2, SyncChanged
<1>4. \A h \in Syncs : SyncSound(sync[h])'
  <2>1. SyncSound(sync[g])'
    BY <1>1, <1>2, <1>3, NothingShown DEF OverviewInv, SyncSound
  <2>2. \A h \in Syncs \ {g} : SyncSound(sync[h])'
    BY <1>1, <1>3 DEF OverviewInv, SyncSound
  <2>3. QED
    BY <2>1, <2>2
<1>5. \A e \in Shown : (executions[e] \in SoundRecords)' /\ (overview.of[e] \in SoundRecords)'
  BY <1>1 DEF OverviewInv
<1>6. ASSUME NEW e \in Shown PROVE ToBeShown(e)'
  <2>1. CASE sync[g].execution = e
    BY <1>1, <1>2, <1>3, <2>1 DEF ToBeShown
  <2>2. CASE sync[g].execution # e
    BY <1>1, <1>3, <2>2 DEF OverviewInv, ToBeShown
  <2>3. QED
    BY <2>1, <2>2
<1>7. WatchFollows'
  <2>1. \A h \in Syncs : SendsLatest(h) => SendsLatest(h)'
    BY <1>1, <1>3 DEF SendsLatest
  <2>2. QED
    BY <1>1, <2>1 DEF OverviewInv, WatchFollows
<1>8. OverviewTyped'
  BY <1>1, <1>3 DEF OverviewInv, OverviewTyped
<1>9. QED
  BY <1>4, <1>5, <1>6, <1>7, <1>8 DEF OverviewInv

\* The store shows the snapshot; an older one in place of a newer one is overtaken.
LEMMA SnapshotShown == ASSUME OverviewInv, NEW g \in Syncs, DispatchUpsert(g) PROVE OverviewInv'
<1> DEFINE e == sync[g].execution
           shot == sync[g].snapshot
<1>1. /\ sync[g].at = "taken" /\ UNCHANGED <<executions, watch, missed, syncs>>
      /\ overview' = [of |-> [overview.of EXCEPT ![e] = shot], updatedAt |-> overview.updatedAt + 1]
      /\ overtaken' = IF shot = executions[e] THEN overtaken \ {e}
                      ELSE IF overview.of[e] = executions[e] THEN overtaken \cup {e} ELSE overtaken
  BY DEF DispatchUpsert, Upsert
<1>2. PICK new : /\ sync' = [sync EXCEPT ![g] = new]
                 /\ new = IF watch.at = "open" THEN [at |-> "sending", overview |-> overview'.updatedAt] ELSE Idle
  BY DEF DispatchUpsert
<1>3. sync' = [h \in Syncs |-> sync'[h]] /\ sync'[g] = new /\ \A h \in Syncs \ {g} : sync'[h] = sync[h]
  BY <1>2, SyncChanged
<1>4. /\ e \in Shown /\ shot \in SoundRecords /\ overview \in [of : [Shown -> ShownRecords], updatedAt : Nat]
      /\ \A h \in Syncs : SyncSound(sync[h])
      /\ \A f \in Shown : executions[f] \in SoundRecords /\ overview.of[f] \in SoundRecords /\ ToBeShown(f)
  BY <1>1 DEF OverviewInv, OverviewTyped, SyncSound
<1> HIDE DEF e, shot
<1>5. /\ overview' \in [of : [Shown -> ShownRecords], updatedAt : Nat] /\ overview'.updatedAt = overview.updatedAt + 1
      /\ overview'.of[e] = shot /\ \A f \in Shown \ {e} : overview'.of[f] = overview.of[f]
  BY <1>1, <1>4 DEF SoundRecords
<1>6. overview.updatedAt \in Nat
  BY <1>4
<1>7. \A h \in Syncs : SyncSound(sync[h])'
  <2>1. SyncSound(sync[g])'
    <3>1. new.at = "sending" => new.overview = overview'.updatedAt
      BY <1>2, NothingShown
    <3>2. new.at \in {"sending", "idle"}
      BY <1>2, NothingShown
    <3>3. QED
      BY <1>3, <1>5, <1>6, <3>1, <3>2 DEF SyncSound
  <2>2. ASSUME NEW h \in Syncs \ {g} PROVE SyncSound(sync[h])'
    <3>1. sync[h].at = "sending" => sync[h].overview \in Nat /\ sync[h].overview <= overview'.updatedAt
      BY <1>4, <1>5, <1>6 DEF SyncSound
    <3>2. QED
      BY <1>1, <1>3, <1>4, <3>1 DEF SyncSound
  <2>3. QED
    BY <2>1, <2>2
<1>8. \A f \in Shown : (executions[f] \in SoundRecords)' /\ (overview.of[f] \in SoundRecords)'
  BY <1>1, <1>4, <1>5
<1>9. ASSUME NEW f \in Shown PROVE ToBeShown(f)'
  <2>1. CASE f # e
    <3>1. e # f /\ (f \in overtaken => f \in overtaken')
      BY <1>1, <2>1
    <3>2. QED
      BY <1>1, <1>3, <1>4, <1>5, <2>1, <3>1 DEF ToBeShown, e
  <2>2. CASE f = e
    <3>1. CASE shot = executions[e] \/ executions[e] = NoRecord
      BY <1>1, <1>5, <2>2, <3>1 DEF ToBeShown
    <3>2. CASE shot # executions[e] /\ executions[e] # NoRecord
      <4>2. executions[e] = overview.of[e] => e \in overtaken'
        BY <1>1, <3>2
      <4>3. e \in overtaken => e \in overtaken'
        BY <1>1, <3>2
      <4>4. \A h \in Syncs : sync[h].at = "taken" /\ sync[h].snapshot = executions[e] => h # g
        BY <3>2 DEF shot
      <4>5. \A h \in Syncs : sync[h].at = "changed" => h # g
        BY <1>1
      <4>6. QED
        BY <1>1, <1>3, <1>4, <2>2, <3>2, <4>2, <4>3, <4>4, <4>5 DEF ToBeShown
    <3>3. QED
      BY <3>1, <3>2
  <2>3. QED
    BY <2>1, <2>2
<1>10. WatchFollows'
  <2> SUFFICES ASSUME watch.at = "open" PROVE WatchFollows'
    BY <1>1 DEF WatchFollows
  <2>1. SendsLatest(g)'
    BY <1>2, <1>3 DEF SendsLatest
  <2>2. watch.latest <= overview'.updatedAt
    BY <1>5, <1>6 DEF OverviewInv, OverviewTyped, WatchFollows
  <2>3. QED
    BY <1>1, <2>1, <2>2 DEF OverviewInv, WatchFollows
<1>11. OverviewTyped'
  BY <1>1, <1>3, <1>5 DEF OverviewInv, OverviewTyped
<1>12. QED
  BY <1>7, <1>8, <1>9, <1>10, <1>11 DEF OverviewInv

\* What neither changes executions nor what the store shows.
LEMMA OverviewStays ==
    ASSUME OverviewInv, UNCHANGED <<executions, overview, overtaken, syncs>>, sync' = [h \in Syncs |-> sync'[h]],
           \A h \in Syncs : sync'[h] = sync[h] \/ (sync[h].at = "sending" /\ sync'[h] = Idle),
           watch' \in [at : {"none", "open", "closed"}, channel : Seq(Nat), shows : Nat, latest : Nat], WatchFollows'
    PROVE  OverviewInv'
<1>1. OverviewTyped'
  BY DEF OverviewInv, OverviewTyped
<1>2. \A h \in Syncs : SyncSound(sync[h])'
  BY NothingShown DEF OverviewInv, SyncSound
<1>3. \A e \in Shown : (executions[e] \in SoundRecords)' /\ (overview.of[e] \in SoundRecords)'
  BY DEF OverviewInv
<1>4. \A e \in Shown : ToBeShown(e)'
  <2> SUFFICES ASSUME NEW e \in Shown PROVE ToBeShown(e)'
    OBVIOUS
  <2>1. \A h \in Syncs : sync[h].at \in {"changed", "taken"} => sync'[h] = sync[h]
    OBVIOUS
  <2>2. ToBeShown(e) /\ executions' = executions /\ overview' = overview /\ overtaken' = overtaken
    BY DEF OverviewInv
  <2>3. QED
    BY <2>1, <2>2 DEF ToBeShown
<1>5. QED
  BY <1>1, <1>2, <1>3, <1>4 DEF OverviewInv

\* The last overview of a channel, after a send and after a receive.
LEMMA LastInChannel ==
    ASSUME NEW c \in Seq(Nat)
    PROVE  /\ \A n \in Nat : Append(c, n) \in Seq(Nat) /\ Append(c, n) # <<>> /\ Append(c, n)[Len(Append(c, n))] = n
           /\ c # <<>> =>
                 /\ Tail(c) \in Seq(Nat) /\ Head(c) \in Nat
                 /\ Tail(c) = <<>> => Head(c) = c[Len(c)]
                 /\ Tail(c) # <<>> => Tail(c)[Len(Tail(c))] = c[Len(c)]
<1>1. ASSUME NEW n \in Nat PROVE Append(c, n) \in Seq(Nat) /\ Append(c, n) # <<>> /\ Append(c, n)[Len(Append(c, n))] = n
  <2>1. Append(c, n) \in Seq(Nat) /\ Len(Append(c, n)) = Len(c) + 1 /\ Append(c, n)[Len(c) + 1] = n /\ Len(c) \in Nat
    OBVIOUS
  <2>2. QED
    BY <2>1
<1>2. ASSUME c # <<>>
      PROVE  /\ Tail(c) \in Seq(Nat) /\ Head(c) \in Nat
             /\ Tail(c) = <<>> => Head(c) = c[Len(c)]
             /\ Tail(c) # <<>> => Tail(c)[Len(Tail(c))] = c[Len(c)]
  <2>1. /\ Tail(c) \in Seq(Nat) /\ Len(c) \in Nat \ {0} /\ Len(Tail(c)) = Len(c) - 1 /\ Head(c) = c[1]
        /\ \A i \in 1..(Len(c) - 1) : Tail(c)[i] = c[i + 1]
    BY <1>2
  <2>2. Head(c) \in Nat
    BY <2>1
  <2>3. ASSUME Tail(c) = <<>> PROVE Len(c) = 1
    <3>1. \A t, n : t = <<>> /\ n \in Nat \ {0} /\ Len(t) = n - 1 => n = 1
      OBVIOUS
    <3>2. QED
      BY <2>1, <2>3, <3>1, Zenon
  <2>4. Tail(c) # <<>> => Len(c) - 1 \in 1..(Len(c) - 1) /\ Len(c) - 1 + 1 = Len(c)
    BY <2>1
  <2>5. QED
    BY <2>1, <2>2, <2>3, <2>4
<1>3. QED
  BY <1>1, <1>2

\* A full channel drops the overview; otherwise it is the last in the channel.
LEMMA OverviewSent == ASSUME OverviewInv, NEW g \in Syncs, Send(g) PROVE OverviewInv'
<1>1. /\ sync[g].at = "sending" /\ sync' = [sync EXCEPT ![g] = Idle] /\ UNCHANGED <<executions, overview, overtaken, syncs>>
      /\ sync[g].overview \in Nat /\ sync[g].overview <= overview.updatedAt /\ overview.updatedAt \in Nat
      /\ watch \in [at : {"none", "open", "closed"}, channel : Seq(Nat), shows : Nat, latest : Nat]
  BY DEF Send, OverviewInv, OverviewTyped, SyncSound
<1>2. sync' = [h \in Syncs |-> sync'[h]] /\ sync'[g] = Idle /\ \A h \in Syncs \ {g} : sync'[h] = sync[h]
  BY <1>1, SyncChanged
<1>3. watch.latest \in Nat /\ watch.channel \in Seq(Nat)
  BY <1>1
<1>4. \A h \in Syncs \ {g} : SendsLatest(h) => SendsLatest(h)'
  BY <1>1, <1>2 DEF SendsLatest
<1>5. CASE watch.at # "open"
  <2>1. watch'.at # "open" /\ watch' \in [at : {"none", "open", "closed"}, channel : Seq(Nat), shows : Nat, latest : Nat]
    <3>1. CASE UNCHANGED watch
      BY <1>1, <1>5, <3>1
    <3>2. CASE watch' = [watch EXCEPT !.channel = Append(@, sync[g].overview), !.latest = sync[g].overview]
      <4>1. Append(watch.channel, sync[g].overview) \in Seq(Nat)
        BY <1>1, <1>3
      <4>2. QED
        BY <1>1, <1>5, <3>2, <4>1
    <3>3. QED
      BY <3>1, <3>2 DEF Send
  <2>2. QED
    BY <1>1, <1>2, <2>1, OverviewStays DEF WatchFollows
<1>6. CASE watch.at = "open" /\ Len(watch.channel) = ChannelSize
  <2>1. watch' = watch /\ missed' = TRUE
    BY <1>6 DEF Send
  <2>2. WatchFollows'
    BY <1>1, <2>1 DEF OverviewInv, WatchFollows
  <2>3. QED
    BY <1>1, <1>2, <2>1, <2>2, OverviewStays
<1>7. CASE watch.at = "open" /\ Len(watch.channel) # ChannelSize
  <2>1. /\ watch' = [watch EXCEPT !.channel = Append(@, sync[g].overview), !.latest = sync[g].overview]
        /\ missed' <=> sync[g].overview < watch.latest \/ (missed /\ sync[g].overview < overview.updatedAt)
    BY <1>7 DEF Send
  <2>2. /\ Append(watch.channel, sync[g].overview) \in Seq(Nat) /\ Append(watch.channel, sync[g].overview) # <<>>
        /\ Append(watch.channel, sync[g].overview)[Len(Append(watch.channel, sync[g].overview))] = sync[g].overview
    BY <1>1, <1>3, LastInChannel
  <2>3. /\ watch' \in [at : {"none", "open", "closed"}, channel : Seq(Nat), shows : Nat, latest : Nat]
        /\ watch'.at = "open" /\ watch'.channel = Append(watch.channel, sync[g].overview) /\ watch'.latest = sync[g].overview
    BY <1>1, <1>7, <2>1, <2>2
  <2>4. ASSUME ~missed', sync[g].overview # overview.updatedAt PROVE \E h \in Syncs : SendsLatest(h)'
    <3>1. ~missed /\ sync[g].overview >= watch.latest /\ sync[g].overview < overview.updatedAt
      BY <1>1, <1>3, <2>1, <2>4
    <3>2. watch.latest # overview.updatedAt
      BY <1>1, <1>3, <3>1
    <3>3. PICK h \in Syncs : SendsLatest(h)
      BY <1>7, <3>1, <3>2 DEF OverviewInv, WatchFollows
    <3>4. h # g
      BY <2>4, <3>3 DEF SendsLatest
    <3>5. QED
      BY <1>4, <3>3, <3>4
  <2>5. WatchFollows'
    BY <1>1, <2>2, <2>3, <2>4 DEF WatchFollows
  <2>6. QED
    BY <1>1, <1>2, <2>3, <2>5, OverviewStays
<1>8. QED
  BY <1>5, <1>6, <1>7

LEMMA Watches == ASSUME OverviewInv, Subscribe \/ StreamOverview \/ Unsubscribe PROVE OverviewInv'
<1>1. /\ UNCHANGED <<executions, sync, overview, overtaken, syncs>> /\ sync = [h \in Syncs |-> sync[h]]
      /\ overview.updatedAt \in Nat
      /\ watch \in [at : {"none", "open", "closed"}, channel : Seq(Nat), shows : Nat, latest : Nat]
  BY DEF OverviewInv, OverviewTyped, Subscribe, StreamOverview, Unsubscribe
<1>2. sync' = [h \in Syncs |-> sync'[h]]
  BY <1>1
<1>3. CASE Subscribe
  <2>1. watch' = [at |-> "open", channel |-> <<overview.updatedAt>>, shows |-> 0, latest |-> overview.updatedAt]
    BY <1>3 DEF Subscribe, Subscribed
  <2>2. watch' \in [at : {"none", "open", "closed"}, channel : Seq(Nat), shows : Nat, latest : Nat]
    BY <1>1, <2>1
  <2>3. WatchFollows'
    BY <1>1, <2>1 DEF WatchFollows
  <2>4. QED
    BY <1>1, <1>2, <2>2, <2>3, OverviewStays
<1>4. CASE StreamOverview
  <2>1. /\ watch.at = "open" /\ watch.channel # <<>> /\ UNCHANGED missed
        /\ watch' = [watch EXCEPT !.channel = Tail(@), !.shows = Head(watch.channel)]
    BY <1>4 DEF StreamOverview
  <2>2. /\ watch.channel \in Seq(Nat) /\ Tail(watch.channel) \in Seq(Nat) /\ Head(watch.channel) \in Nat
        /\ Tail(watch.channel) = <<>> => Head(watch.channel) = watch.channel[Len(watch.channel)]
        /\ Tail(watch.channel) # <<>> => Tail(watch.channel)[Len(Tail(watch.channel))] = watch.channel[Len(watch.channel)]
    <3>1. watch.channel \in Seq(Nat)
      BY <1>1
    <3>2. QED
      BY <2>1, <3>1, LastInChannel
  <2>3. /\ watch' \in [at : {"none", "open", "closed"}, channel : Seq(Nat), shows : Nat, latest : Nat]
        /\ watch'.at = "open" /\ watch'.channel = Tail(watch.channel) /\ watch'.shows = Head(watch.channel)
        /\ watch'.latest = watch.latest
    BY <1>1, <2>1, <2>2
  <2>4. \A h \in Syncs : SendsLatest(h) => SendsLatest(h)'
    BY <1>1 DEF SendsLatest
  <2>5. WatchFollows'
    BY <1>1, <2>1, <2>2, <2>3, <2>4 DEF OverviewInv, WatchFollows
  <2>6. QED
    BY <1>1, <1>2, <2>3, <2>5, OverviewStays
<1>5. CASE Unsubscribe
  <2>1. watch' = [watch EXCEPT !.at = "closed", !.channel = <<>>, !.shows = 0, !.latest = 0]
    BY <1>5 DEF Unsubscribe
  <2>2. watch' \in [at : {"none", "open", "closed"}, channel : Seq(Nat), shows : Nat, latest : Nat] /\ watch'.at = "closed"
    <3>1. <<>> \in Seq(Nat) /\ 0 \in Nat
      OBVIOUS
    <3>2. QED
      BY <1>1, <2>1, <3>1
  <2>3. QED
    BY <1>1, <1>2, <2>2, OverviewStays DEF WatchFollows
<1>6. QED
  BY <1>3, <1>4, <1>5

LEMMA OverviewStep == OverviewInv /\ [OverviewNext]_overviewVars => OverviewInv'
<1> SUFFICES ASSUME OverviewInv, [OverviewNext]_overviewVars PROVE OverviewInv'
  OBVIOUS
<1>1. ASSUME NEW g \in Syncs, TakeSnapshot(g) PROVE OverviewInv'
  BY <1>1, SnapshotTaken
<1>2. ASSUME NEW g \in Syncs, DispatchUpsert(g) PROVE OverviewInv'
  BY <1>2, SnapshotShown
<1>3. ASSUME NEW g \in Syncs, Send(g) PROVE OverviewInv'
  BY <1>3, OverviewSent
<1>4. ASSUME NEW g \in Syncs, NEW e \in Shown,
             \/ LaunchShown(g, e) \/ FailBooted(g, e) \/ SyncAgain(g, e)
             \/ \E n \in Nodes : \/ AppendEvent(g, e, n) \/ MarkNodeTerminal(g, e, n, "failed", TRUE)
                                 \/ \E s \in Terminal : MarkNodeTerminal(g, e, n, s, FALSE)
      PROVE  OverviewInv'
  BY <1>4, ExecutionsChange
<1>5. ASSUME NEW e \in Shown, Evict(e) PROVE OverviewInv'
  BY <1>5, ExecutionEvicted
<1>a. ASSUME NEW e \in Shown, BootShown(e) PROVE OverviewInv'
  BY <1>a, ExecutionBooted
<1>6. CASE Subscribe \/ StreamOverview \/ Unsubscribe
  BY <1>6, Watches
<1>7. CASE UNCHANGED overviewVars
  <2>1. UNCHANGED <<executions, sync, overview, watch, overtaken, missed, syncs>>
    BY <1>7 DEF overviewVars
  <2>2. WatchFollows'
    BY <2>1 DEF OverviewInv, WatchFollows, SendsLatest
  <2>3. watch' \in [at : {"none", "open", "closed"}, channel : Seq(Nat), shows : Nat, latest : Nat] /\ sync' = [h \in Syncs |-> sync'[h]]
    BY <2>1 DEF OverviewInv, OverviewTyped
  <2>4. QED
    BY <2>1, <2>2, <2>3, OverviewStays
<1>8. QED
  BY <1>1, <1>2, <1>3, <1>4, <1>5, <1>a, <1>6, <1>7 DEF OverviewNext

\* Once those who changed an execution have synced it (syncObservers,
\* engine.Store.Dispatch), the overview shows it as it is, unless an older
\* snapshot or its boot came after; a run is shown healthy only with every step
\* at its end unless one was reported to run after that; and a subscriber that
\* has read its channel shows the overview unless one was dropped or overtaken:
\* for any number of executions, steps and goroutines and any size of the channel.
THEOREM OverviewShowsAll == OverviewSpec => []OverviewCatchesUp
<1>1. OverviewInit => OverviewInv
  <2> SUFFICES ASSUME OverviewInit PROVE OverviewInv
    OBVIOUS
  <2>1. OverviewTyped
    BY NothingShown DEF OverviewInit, OverviewTyped
  <2>2. \A e \in Shown : executions[e] = NoRecord /\ overview.of[e] = NoRecord
    BY DEF OverviewInit
  <2>3. \A e \in Shown : executions[e] \in SoundRecords /\ overview.of[e] \in SoundRecords /\ ToBeShown(e)
    BY <2>2, NothingShown DEF ToBeShown
  <2>4. \A g \in Syncs : SyncSound(sync[g])
    BY NothingShown DEF OverviewInit, SyncSound
  <2>5. WatchFollows
    BY DEF OverviewInit, WatchFollows
  <2>6. QED
    BY <2>1, <2>3, <2>4, <2>5 DEF OverviewInv
<1>2. OverviewInv => OverviewCatchesUp
  <2> SUFFICES ASSUME OverviewInv PROVE OverviewCatchesUp
    OBVIOUS
  <2>1. \A e \in Shown :
            \/ \E g \in Syncs : sync[g].at \in {"changed", "taken"} /\ sync[g].execution = e
            \/ executions[e] \in {NoRecord, overview.of[e]} \/ e \in overtaken
    BY DEF OverviewInv, ToBeShown
  <2>2. ASSUME NEW e \in Shown, overview.of[e].status = "Healthy", ~overview.of[e].late,
               NEW s \in {"none", "pending", "running"}
        PROVE  CountsOf(overview.of[e])[s] = 0
    <3>1. \A n \in Nodes : overview.of[e].step[n] \in Terminal
      BY <2>2 DEF OverviewInv, SoundRecords, AtEnd
    <3>2. {n \in Nodes : overview.of[e].step[n] = s} = {}
      BY <3>1 DEF Terminal
    <3>3. CountsOf(overview.of[e])[s] = Cardinality({n \in Nodes : overview.of[e].step[n] = s})
      BY DEF CountsOf
    <3>4. QED
      BY <3>2, <3>3, FS_EmptySet
  <2>3. ASSUME watch.at = "open", watch.channel = <<>>, ~missed, \A g \in Syncs : sync[g].at # "sending"
        PROVE  watch.shows = overview.updatedAt
    BY <2>3 DEF OverviewInv, WatchFollows, SendsLatest
  <2>4. QED
    BY <2>1, <2>2, <2>3 DEF OverviewCatchesUp
<1>3. QED
  BY <1>1, <1>2, OverviewStep, PTL DEF OverviewSpec

-----------------------------------------------------------------------------
(* Attempts in a window *)

\* The callers whose password is being compared.
Comparing == {c \in Callers : caller[c] = "comparing"}

\* All that a window of the histories holds, remembered or not.
AdmittedIn(t) == Within(admitted, DOMAIN admitted, t)
RefusedNow == Within(refused, DOMAIN refused, clock)

ThrottleType ==
    /\ clock \in 0..MaxTime
    /\ admitted \in Seq(Nat) /\ refused \in Seq(Nat)
    /\ events \subseteq DOMAIN admitted /\ failed \subseteq DOMAIN refused
    /\ caller \in [Callers -> {"idle", "comparing"}]

\* Nothing is dated in the future, and what is in the present window is remembered.
NothingForgotten ==
    /\ \A i \in DOMAIN admitted : admitted[i] <= clock
    /\ \A i \in DOMAIN refused : refused[i] <= clock
    /\ AdmittedIn(clock) \subseteq events /\ RefusedNow \subseteq failed

\* A caller compares only if it found the account open, so failures and
\* comparisons together stay below the limit and all callers.
FewCompare == Cardinality(RefusedNow) + Cardinality(Comparing) < Failures + Cardinality(Callers)

ThrottleInv ==
    /\ ThrottleType /\ NothingForgotten /\ FewCompare
    /\ \A t \in 0..MaxTime : Cardinality(AdmittedIn(t)) <= Limit

\* The numbers of a sequence's times in a window are a finite set.
LEMMA WithinFinite ==
    ASSUME NEW times \in Seq(Nat), NEW t
    PROVE  /\ IsFiniteSet(Within(times, DOMAIN times, t))
           /\ Cardinality(Within(times, DOMAIN times, t)) \in Nat
  <1>1. DOMAIN times = 1..Len(times) /\ Len(times) \in Nat
    OBVIOUS
  <1>2. IsFiniteSet(DOMAIN times)
    BY <1>1, FS_Interval
  <1>3. Within(times, DOMAIN times, t) \in SUBSET DOMAIN times
    BY DEF Within
  <1>4. QED
    BY <1>2, <1>3, FS_Subset, FS_CardinalityType

\* A time appended adds its own number to the windows that hold it.
LEMMA WithinAppend ==
    ASSUME NEW times \in Seq(Nat), NEW now \in Nat, NEW t \in Nat
    PROVE  LET longer == Append(times, now)
               n == Len(times) + 1
           IN  /\ n \notin Within(times, DOMAIN times, t)
               /\ DOMAIN longer = DOMAIN times \cup {n}
               /\ longer[n] = now /\ \A i \in DOMAIN times : longer[i] = times[i]
               /\ Within(longer, DOMAIN longer, t) =
                     Within(times, DOMAIN times, t)
                        \cup (IF now + Window > t /\ now <= t THEN {n} ELSE {})
  <1> DEFINE longer == Append(times, now)
             n == Len(times) + 1
  <1>1. n \notin DOMAIN times /\ DOMAIN longer = DOMAIN times \cup {n}
    OBVIOUS
  <1>2. longer[n] = now /\ \A i \in DOMAIN times : longer[i] = times[i]
    OBVIOUS
  <1> HIDE DEF longer, n
  <1>3. n \notin Within(times, DOMAIN times, t)
    BY <1>1 DEF Within
  <1>4. Within(longer, DOMAIN longer, t) =
            Within(times, DOMAIN times, t) \cup (IF now + Window > t /\ now <= t THEN {n} ELSE {})
    BY <1>1, <1>2 DEF Within
  <1>5. QED
    BY <1>1, <1>2, <1>3, <1>4 DEF longer, n

\* The limiter and the lockout see the whole window.
LEMMA WindowRemembered ==
    ASSUME ThrottleInv
    PROVE  FreshEvents = AdmittedIn(clock) /\ FreshFailures = RefusedNow
  BY DEF ThrottleInv, ThrottleType, NothingForgotten, FreshEvents, FreshFailures, AdmittedIn, RefusedNow, Within

\* Callers that compare are finitely many, at most all.
LEMMA ComparingFinite ==
    /\ IsFiniteSet(Comparing) /\ Cardinality(Comparing) \in Nat
    /\ Cardinality(Callers) \in Nat /\ Cardinality(Comparing) <= Cardinality(Callers)
  <1>1. Comparing \in SUBSET Callers
    BY DEF Comparing
  <1>2. IsFiniteSet(Callers)
    BY ThrottleAssumption
  <1>3. QED
    BY <1>1, <1>2, FS_Subset, FS_CardinalityType

LEMMA ThrottleInvInit == ThrottleInit => ThrottleInv
  <1> SUFFICES ASSUME ThrottleInit PROVE ThrottleInv
    OBVIOUS
  <1> USE ThrottleAssumption DEF ThrottleInit
  <1>1. ThrottleType
    BY DEF ThrottleType
  <1>2. (\A t : AdmittedIn(t) = {}) /\ RefusedNow = {}
    BY DEF AdmittedIn, RefusedNow, Within
  <1>3. NothingForgotten
    BY <1>2 DEF NothingForgotten
  <1>4. Comparing = {}
    BY DEF Comparing
  <1>5. Cardinality({}) = 0
    BY FS_EmptySet
  <1>6. FewCompare
    <2>1. Cardinality(Callers) \in Nat
      BY FS_CardinalityType
    <2>2. QED
      BY <1>2, <1>4, <1>5, <2>1 DEF FewCompare
  <1>7. \A t \in 0..MaxTime : Cardinality(AdmittedIn(t)) <= Limit
    <2>1. 0 <= Limit
      OBVIOUS
    <2>2. QED
      BY <1>2, <1>5, <2>1
  <1>8. QED
    BY <1>1, <1>3, <1>6, <1>7 DEF ThrottleInv

\* A caller that stops comparing is one less.
LEMMA CallerReturns ==
    ASSUME ThrottleType, NEW c \in Callers, caller[c] = "comparing",
           caller' = [caller EXCEPT ![c] = "idle"]
    PROVE  /\ caller' \in [Callers -> {"idle", "comparing"}]
           /\ Cardinality(Comparing') = Cardinality(Comparing) - 1
  <1>1. Comparing' = Comparing \ {c} /\ c \in Comparing
    BY DEF Comparing, ThrottleType
  <1>2. Cardinality(Comparing') = Cardinality(Comparing) - 1
    BY <1>1, ComparingFinite, FS_RemoveElement
  <1>3. QED
    BY <1>2 DEF ThrottleType

LEMMA SignInKeeps ==
    ASSUME ThrottleInv, NEW c \in Callers, SignIn(c)
    PROVE  ThrottleInv'
  <1> USE ThrottleAssumption
  <1>0. ThrottleType /\ NothingForgotten /\ FewCompare /\ clock \in Nat /\ clock' = clock
        /\ admitted \in Seq(Nat) /\ refused' = refused /\ failed' = failed
    BY DEF ThrottleInv, ThrottleType, SignIn
  <1> DEFINE n == Len(admitted) + 1
  <1>1. /\ admitted' = Append(admitted, clock) /\ events' = FreshEvents \cup {n}
        /\ FreshEvents = AdmittedIn(clock) /\ FreshFailures = RefusedNow
    BY WindowRemembered DEF SignIn
  <1>2. \A t \in Nat :
          /\ n \notin AdmittedIn(t) /\ DOMAIN admitted' = DOMAIN admitted \cup {n}
          /\ admitted'[n] = clock /\ \A i \in DOMAIN admitted : admitted'[i] = admitted[i]
          /\ AdmittedIn(t)' = AdmittedIn(t) \cup (IF clock + Window > t /\ clock <= t THEN {n} ELSE {})
    BY <1>0, <1>1, WithinAppend DEF AdmittedIn
  <1>3. ThrottleType'
    <2>1. admitted' \in Seq(Nat)
      BY <1>0, <1>1
    <2>2. events' \subseteq DOMAIN admitted'
      BY <1>0, <1>1, <1>2 DEF AdmittedIn, Within
    <2>3. caller' \in [Callers -> {"idle", "comparing"}]
      BY <1>0 DEF SignIn, ThrottleType
    <2>4. QED
      BY <1>0, <2>1, <2>2, <2>3 DEF ThrottleType
  <1>4. NothingForgotten'
    <2>1. \A i \in DOMAIN admitted' : admitted'[i] <= clock'
      BY <1>0, <1>2 DEF NothingForgotten
    <2>2. AdmittedIn(clock)' \subseteq events'
      <3>1. AdmittedIn(clock)' \subseteq AdmittedIn(clock) \cup {n}
        BY <1>0, <1>2 DEF AdmittedIn
      <3>2. QED
        BY <1>1, <3>1
    <2>3. RefusedNow' = RefusedNow
      BY <1>0 DEF RefusedNow, Within
    <2>4. QED
      BY <1>0, <2>1, <2>2, <2>3 DEF NothingForgotten
  <1>5. FewCompare'
    <2>1. RefusedNow' = RefusedNow
      BY <1>0 DEF RefusedNow, Within
    <2>2. CASE Locked
      <3>1. caller' = caller
        BY <1>0, <2>2 DEF SignIn, ThrottleType
      <3>2. Comparing' = Comparing
        BY <3>1 DEF Comparing
      <3>3. QED
        BY <1>0, <2>1, <3>2 DEF FewCompare
    <2>3. CASE ~Locked
      <3>1. Cardinality(RefusedNow) \in Nat
        BY <1>0, WithinFinite DEF RefusedNow, ThrottleType
      <3>2. Cardinality(RefusedNow) < Failures
        BY <1>1, <2>3, <3>1 DEF Locked
      <3>3. Cardinality(Comparing') <= Cardinality(Callers) /\ Cardinality(Comparing') \in Nat
            /\ Cardinality(Callers) \in Nat
        <4>1. Comparing' \in SUBSET Callers
          BY DEF Comparing
        <4>2. QED
          BY <4>1, FS_Subset, FS_CardinalityType
      <3>4. QED
        BY <2>1, <3>1, <3>2, <3>3 DEF FewCompare
    <2>4. QED
      BY <2>2, <2>3
  <1>6. ASSUME NEW t \in 0..MaxTime PROVE Cardinality(AdmittedIn(t)') <= Limit
    <2>1. IsFiniteSet(AdmittedIn(t)) /\ Cardinality(AdmittedIn(t)) <= Limit
      BY <1>0, WithinFinite DEF ThrottleInv, AdmittedIn
    <2>2. CASE clock + Window > t /\ clock <= t
      <3>1. AdmittedIn(t)' = AdmittedIn(t) \cup {n} /\ n \notin AdmittedIn(t)
        BY <1>2, <2>2
      <3>2. AdmittedIn(t) \in SUBSET AdmittedIn(clock)
        BY <1>0, <2>2 DEF AdmittedIn, Within, NothingForgotten, ThrottleType
      <3>3. IsFiniteSet(AdmittedIn(clock)) /\ Cardinality(AdmittedIn(clock)) \in Nat
            /\ Cardinality(AdmittedIn(t)) \in Nat
        BY <1>0, WithinFinite DEF AdmittedIn
      <3>4. Cardinality(AdmittedIn(t)) <= Cardinality(AdmittedIn(clock))
        BY <3>2, <3>3, FS_Subset
      <3>5. Cardinality(AdmittedIn(clock)) < Limit
        BY <1>1 DEF SignIn, Allow
      <3>6. Cardinality(AdmittedIn(t)') = Cardinality(AdmittedIn(t)) + 1
        BY <2>1, <3>1, FS_AddElement
      <3>7. QED
        BY <3>3, <3>4, <3>5, <3>6
    <2>3. CASE ~(clock + Window > t /\ clock <= t)
      <3>1. AdmittedIn(t)' = AdmittedIn(t) \cup {}
        <4>1. t \in Nat
          OBVIOUS
        <4>2. QED
          BY <1>2, <2>3, <4>1
      <3>2. QED
        BY <2>1, <3>1
    <2>4. QED
      BY <2>2, <2>3
  <1>7. QED
    BY <1>3, <1>4, <1>5, <1>6 DEF ThrottleInv

\* What forgets only old times keeps the invariant.
LEMMA ForgettingKeeps ==
    ASSUME ThrottleInv, events' \in {events, FreshEvents}, failed' \in {failed, FreshFailures},
           UNCHANGED <<clock, caller, admitted, refused>>
    PROVE  ThrottleInv'
  <1>1. FreshEvents = AdmittedIn(clock) /\ FreshFailures = RefusedNow
    BY WindowRemembered
  <1>2. RefusedNow' = RefusedNow /\ Comparing' = Comparing /\ \A t : AdmittedIn(t)' = AdmittedIn(t)
    BY DEF RefusedNow, Comparing, AdmittedIn, Within
  <1>3. AdmittedIn(clock)' = AdmittedIn(clock)
    BY DEF AdmittedIn, Within
  <1>4. ThrottleType'
    BY <1>1 DEF ThrottleInv, ThrottleType, AdmittedIn, RefusedNow, Within
  <1>5. NothingForgotten'
    BY <1>1, <1>2, <1>3 DEF ThrottleInv, NothingForgotten
  <1>6. FewCompare'
    BY <1>2 DEF ThrottleInv, FewCompare
  <1>7. QED
    BY <1>2, <1>4, <1>5, <1>6 DEF ThrottleInv

LEMMA WrongPasswordKeeps ==
    ASSUME ThrottleInv, NEW c \in Callers, WrongPassword(c)
    PROVE  ThrottleInv'
  <1> USE ThrottleAssumption
  <1>0. ThrottleType /\ NothingForgotten /\ FewCompare /\ clock \in Nat /\ clock' = clock
        /\ refused \in Seq(Nat) /\ admitted' = admitted /\ events' = events
    BY DEF ThrottleInv, ThrottleType, WrongPassword
  <1> DEFINE n == Len(refused) + 1
  <1>1. refused' = Append(refused, clock) /\ failed' = failed \cup {n}
    BY DEF WrongPassword
  <1>2. /\ n \notin RefusedNow /\ DOMAIN refused' = DOMAIN refused \cup {n}
        /\ refused'[n] = clock /\ \A i \in DOMAIN refused : refused'[i] = refused[i]
        /\ RefusedNow' \subseteq RefusedNow \cup {n}
    <2>1. /\ n \notin RefusedNow /\ DOMAIN refused' = DOMAIN refused \cup {n}
          /\ refused'[n] = clock /\ \A i \in DOMAIN refused : refused'[i] = refused[i]
      BY <1>0, <1>1, WithinAppend DEF RefusedNow
    <2>2. RefusedNow' \subseteq RefusedNow \cup {n}
      BY <1>0, <2>1 DEF RefusedNow, Within
    <2>3. QED
      BY <2>1, <2>2
  <1>3. \A t : AdmittedIn(t)' = AdmittedIn(t)
    BY <1>0 DEF AdmittedIn, Within
  <1>3a. AdmittedIn(clock)' = AdmittedIn(clock)
    BY <1>0 DEF AdmittedIn, Within
  <1>4. caller' \in [Callers -> {"idle", "comparing"}] /\ Cardinality(Comparing') = Cardinality(Comparing) - 1
    BY <1>0, CallerReturns DEF WrongPassword
  <1>5. ThrottleType'
    <2>1. refused' \in Seq(Nat)
      BY <1>0, <1>1
    <2>2. failed' \subseteq DOMAIN refused'
      BY <1>0, <1>1, <1>2 DEF ThrottleType
    <2>3. QED
      BY <1>0, <1>4, <2>1, <2>2 DEF ThrottleType
  <1>6. NothingForgotten'
    <2>1. \A i \in DOMAIN refused' : refused'[i] <= clock'
      BY <1>0, <1>2 DEF NothingForgotten
    <2>2. RefusedNow' \subseteq failed'
      BY <1>0, <1>1, <1>2 DEF NothingForgotten
    <2>3. QED
      BY <1>0, <1>3a, <2>1, <2>2 DEF NothingForgotten
  <1>7. FewCompare'
    <2>1. IsFiniteSet(RefusedNow) /\ Cardinality(RefusedNow) \in Nat
      BY <1>0, WithinFinite DEF RefusedNow
    <2>2. IsFiniteSet(RefusedNow \cup {n}) /\ Cardinality(RefusedNow \cup {n}) = Cardinality(RefusedNow) + 1
      BY <1>2, <2>1, FS_AddElement
    <2>3. Cardinality(RefusedNow') <= Cardinality(RefusedNow) + 1 /\ Cardinality(RefusedNow') \in Nat
      BY <1>2, <2>2, FS_Subset, FS_CardinalityType
    <2>4. QED
      BY <1>0, <1>4, <2>1, <2>3, ComparingFinite DEF FewCompare
  <1>8. QED
    BY <1>3, <1>5, <1>6, <1>7 DEF ThrottleInv

\* A caller that returns with the failures forgotten, or as they are.
LEMMA ReturnKeeps ==
    ASSUME ThrottleInv, NEW c \in Callers, RightPassword(c) \/ CouldNotSignIn(c)
    PROVE  ThrottleInv'
  <1> USE ThrottleAssumption
  <1>0. ThrottleType /\ NothingForgotten /\ FewCompare /\ clock \in Nat /\ clock' = clock
        /\ admitted' = admitted /\ events' = events
        /\ caller[c] = "comparing" /\ caller' = [caller EXCEPT ![c] = "idle"]
    BY DEF ThrottleInv, ThrottleType, RightPassword, CouldNotSignIn
  <1>1. \/ refused' = <<>> /\ failed' = {}
        \/ refused' = refused /\ failed' = failed
    BY DEF RightPassword, CouldNotSignIn
  <1>2. RefusedNow' \in {{}, RefusedNow}
    BY <1>0, <1>1 DEF RefusedNow, Within
  <1>3. (\A t : AdmittedIn(t)' = AdmittedIn(t)) /\ AdmittedIn(clock)' = AdmittedIn(clock)
    BY <1>0 DEF AdmittedIn, Within
  <1>4. caller' \in [Callers -> {"idle", "comparing"}] /\ Cardinality(Comparing') = Cardinality(Comparing) - 1
    BY <1>0, CallerReturns
  <1>5. ThrottleType'
    <2>1. refused' \in Seq(Nat)
      <3>1. <<>> \in Seq(Nat) /\ refused \in Seq(Nat)
        BY <1>0 DEF ThrottleType
      <3>2. QED
        BY <1>1, <3>1
    <2>1a. failed' \subseteq DOMAIN refused'
      BY <1>0, <1>1 DEF ThrottleType
    <2>2. QED
      BY <1>0, <1>4, <2>1, <2>1a DEF ThrottleType
  <1>6. NothingForgotten'
    <2>1. RefusedNow' \subseteq failed'
      BY <1>0, <1>1, <1>2 DEF NothingForgotten, RefusedNow, Within
    <2>2. \A i \in DOMAIN refused' : refused'[i] <= clock'
      BY <1>0, <1>1 DEF NothingForgotten
    <2>3. QED
      BY <1>0, <1>3, <2>1, <2>2 DEF NothingForgotten
  <1>7. FewCompare'
    <2>1. Cardinality(RefusedNow) \in Nat
      BY <1>0, WithinFinite DEF RefusedNow, ThrottleType
    <2>2. Cardinality(RefusedNow') \in Nat /\ Cardinality(RefusedNow') <= Cardinality(RefusedNow)
      <3>1. Cardinality({}) = 0
        BY FS_EmptySet
      <3>2. QED
        BY <1>2, <2>1, <3>1
    <2>3. QED
      BY <1>0, <1>4, <2>1, <2>2, ComparingFinite DEF FewCompare
  <1>8. QED
    BY <1>3, <1>5, <1>6, <1>7 DEF ThrottleInv

LEMMA TickKeeps ==
    ASSUME ThrottleInv, ClockTicks
    PROVE  ThrottleInv'
  <1> USE ThrottleAssumption
  <1>0. ThrottleType /\ NothingForgotten /\ FewCompare /\ clock \in Nat /\ clock' = clock + 1 /\ clock' \in 0..MaxTime
        /\ admitted \in Seq(Nat) /\ refused \in Seq(Nat)
        /\ UNCHANGED <<events, failed, caller, admitted, refused>>
    BY DEF ThrottleInv, ThrottleType, ClockTicks
  <1>1. RefusedNow' \in SUBSET RefusedNow
    BY <1>0 DEF RefusedNow, Within, NothingForgotten
  <1>2. AdmittedIn(clock)' \subseteq AdmittedIn(clock)
    BY <1>0 DEF AdmittedIn, Within, NothingForgotten
  <1>3. \A t : AdmittedIn(t)' = AdmittedIn(t)
    BY <1>0 DEF AdmittedIn, Within
  <1>4. ThrottleType'
    BY <1>0 DEF ThrottleType
  <1>5. NothingForgotten'
    <2>1. \A i \in DOMAIN admitted : admitted[i] <= clock'
      BY <1>0 DEF NothingForgotten
    <2>2. \A i \in DOMAIN refused : refused[i] <= clock'
      BY <1>0 DEF NothingForgotten
    <2>3. QED
      BY <1>0, <1>1, <1>2, <2>1, <2>2 DEF NothingForgotten
  <1>6. FewCompare'
    <2>1. IsFiniteSet(RefusedNow) /\ Cardinality(RefusedNow) \in Nat
      BY <1>0, WithinFinite DEF RefusedNow
    <2>2. Cardinality(RefusedNow') <= Cardinality(RefusedNow) /\ Cardinality(RefusedNow') \in Nat
      BY <1>1, <2>1, FS_Subset, FS_CardinalityType
    <2>3. Comparing' = Comparing
      BY <1>0 DEF Comparing
    <2>4. QED
      BY <1>0, <2>1, <2>2, <2>3, ComparingFinite DEF FewCompare
  <1>7. QED
    BY <1>3, <1>4, <1>5, <1>6 DEF ThrottleInv

LEMMA ThrottleInvStep == ThrottleInv /\ [ThrottleNext]_throttleVars => ThrottleInv'
  <1> SUFFICES ASSUME ThrottleInv, [ThrottleNext]_throttleVars PROVE ThrottleInv'
    OBVIOUS
  <1>1. ASSUME NEW c \in Callers, SignIn(c) PROVE ThrottleInv'
    BY <1>1, SignInKeeps
  <1>2. ASSUME NEW c \in Callers, WrongPassword(c) PROVE ThrottleInv'
    BY <1>2, WrongPasswordKeeps
  <1>3. ASSUME NEW c \in Callers, RightPassword(c) \/ CouldNotSignIn(c) PROVE ThrottleInv'
    BY <1>3, ReturnKeeps
  <1>4. CASE TooManyRequests
    BY <1>4, ForgettingKeeps DEF TooManyRequests
  <1>5. CASE SweepLocked
    BY <1>5, ForgettingKeeps DEF SweepLocked
  <1>6. CASE ClockTicks
    BY <1>6, TickKeeps
  <1>7. CASE UNCHANGED throttleVars
    BY <1>7, ForgettingKeeps DEF throttleVars
  <1>8. QED
    BY <1>1, <1>2, <1>3, <1>4, <1>5, <1>6, <1>7 DEF ThrottleNext

LEMMA ThrottleInvWindows == ThrottleInv => WindowsRespected
  <1> SUFFICES ASSUME ThrottleInv PROVE WindowsRespected
    OBVIOUS
  <1>1. Locked <=> Cardinality(RefusedNow) >= Failures
    BY WindowRemembered DEF Locked
  <1>2. Cardinality(RefusedNow) < Failures + Cardinality(Callers)
    <2>1. Cardinality(RefusedNow) \in Nat
      BY WithinFinite DEF ThrottleInv, ThrottleType, RefusedNow
    <2>2. QED
      BY <2>1, ComparingFinite, ThrottleAssumption DEF ThrottleInv, FewCompare
  <1>3. QED
    BY <1>1, <1>2 DEF WindowsRespected, ThrottleInv, AdmittedIn, RefusedNow

\* No window of the sign-in limiter (auth.ipRateLimiter) ever holds more
\* admitted requests than its limit, and an account is locked
\* (auth.accountLockout) exactly while its failures say so, with at most the
\* comparisons under way beyond that: for every limit, window and set of callers.
THEOREM WindowsHold == ThrottleSpec => []WindowsRespected
  <1>1. ThrottleSpec => []ThrottleInv
    BY ThrottleInvInit, ThrottleInvStep, PTL DEF ThrottleSpec
  <1>2. QED
    BY <1>1, ThrottleInvWindows, PTL

-----------------------------------------------------------------------------
(* Mocks *)

\* A call that waits, with what it has loaded.
WaitingCalls ==
    [suite : MockSuites, key : StateKeys \cup {"none"}, loaded : SUBSET Marks, example : {"mark", "clear"}, mark : Marks]

MockType ==
    /\ state \in [StateKeys -> SUBSET Marks] /\ life \in [MockSuites -> 0..MaxLives]
    /\ wrote \in [MockSuites -> SUBSET StateKeys]
    /\ call \in [MockCalls -> WaitingCalls \cup {NoCall}]

\* A reset of a suite forgets the keys its calls have stored, no more and no less.
KeysRegistered == suiteState = wrote

\* What a waiting call will leave is of the present life too, or it escaped.
WaitingFresh ==
    \A c \in MockCalls : call[c] # NoCall => call[c].mark[2] = life[call[c].mark[1]] \/ call[c].mark \in escaped

MockInv == MockType /\ KeysRegistered /\ ResetStartsAfresh /\ WaitingFresh

LEMMA MockInvInit == MockInit => MockInv
  <1> SUFFICES ASSUME MockInit PROVE MockInv
    OBVIOUS
  <1>1. MockType
    BY MockAssumption DEF MockInit, MockType, Stateless
  <1>2. ResetStartsAfresh /\ WaitingFresh
    BY DEF MockInit, ResetStartsAfresh, WaitingFresh, NoCall, Stateless
  <1>3. QED
    BY <1>1, <1>2 DEF MockInv, KeysRegistered, MockInit

LEMMA InvokeFresh ==
    ASSUME MockInv, NEW c \in MockCalls, NEW s \in MockSuites, NEW k \in StateKeys \cup {"none"}, NEW example,
           Invoke(c, s, k, example)
    PROVE  MockInv'
  <1>0. MockType /\ KeysRegistered /\ ResetStartsAfresh /\ WaitingFresh
    BY DEF MockInv
  <1>1. CASE example \in {"mark", "clear"}
    <2> DEFINE q == [suite |-> s, key |-> k, loaded |-> LoadState(k), example |-> example, mark |-> <<s, life[s]>>]
    <2>1. call' = [call EXCEPT ![c] = q] /\ UNCHANGED <<state, suiteState, wrote, life, escaped>>
      BY <1>1 DEF Invoke
    <2>2. LoadState(k) \in SUBSET Marks /\ <<s, life[s]>> \in Marks
      BY <1>0 DEF LoadState, MockType, Stateless, Marks
    <2>3. \A m \in LoadState(k) : m[2] = life[m[1]] \/ m \in escaped
      BY <1>0 DEF LoadState, Stateless, ResetStartsAfresh
    <2>4. q \in WaitingCalls /\ q.loaded = LoadState(k) /\ q.mark = <<s, life[s]>>
      BY <1>1, <2>2 DEF WaitingCalls
    <2> HIDE DEF q
    <2>5. MockType' /\ KeysRegistered'
      BY <1>0, <2>1, <2>4 DEF MockType, KeysRegistered
    <2>6. \A d \in MockCalls : call'[d] = IF d = c THEN q ELSE call[d]
      BY <1>0, <2>1 DEF MockType
    <2>7. ResetStartsAfresh'
      BY <1>0, <2>1, <2>3, <2>4, <2>6 DEF ResetStartsAfresh
    <2>8. WaitingFresh'
      BY <1>0, <2>1, <2>4, <2>6 DEF WaitingFresh
    <2>9. QED
      BY <2>5, <2>7, <2>8 DEF MockInv
  <1>2. CASE example \notin {"mark", "clear"}
    <2>1. UNCHANGED <<call, state, suiteState, wrote, life, escaped>>
      BY <1>2 DEF Invoke
    <2>2. QED
      BY <1>0, <2>1 DEF MockInv, MockType, KeysRegistered, ResetStartsAfresh, WaitingFresh
  <1>3. QED
    BY <1>1, <1>2

LEMMA CallEnds ==
    ASSUME MockInv, NEW c \in MockCalls, call' = [call EXCEPT ![c] = NoCall], UNCHANGED <<life, escaped>>
    PROVE  /\ call' \in [MockCalls -> WaitingCalls \cup {NoCall}] /\ WaitingFresh'
           /\ \A d \in MockCalls : call'[d].loaded \subseteq call[d].loaded
  <1>1. \A d \in MockCalls : call'[d] = NoCall \/ call'[d] = call[d]
    BY DEF MockInv, MockType
  <1>2. \A d \in MockCalls : call'[d].loaded \subseteq call[d].loaded
    BY <1>1 DEF NoCall, Stateless
  <1>3. WaitingFresh'
    BY <1>1 DEF MockInv, WaitingFresh
  <1>4. call' \in [MockCalls -> WaitingCalls \cup {NoCall}]
    BY DEF MockInv, MockType
  <1>5. QED
    BY <1>2, <1>3, <1>4

LEMMA InvokeCanceledFresh ==
    ASSUME MockInv, NEW c \in MockCalls, InvokeCanceled(c)
    PROVE  MockInv'
  <1>1. /\ call' \in [MockCalls -> WaitingCalls \cup {NoCall}] /\ WaitingFresh'
        /\ \A d \in MockCalls : call'[d].loaded \subseteq call[d].loaded
    BY CallEnds DEF InvokeCanceled
  <1>2. MockType' /\ KeysRegistered'
    BY <1>1 DEF MockInv, MockType, KeysRegistered, InvokeCanceled
  <1>3. ResetStartsAfresh'
    BY <1>1 DEF MockInv, ResetStartsAfresh, InvokeCanceled
  <1>4. QED
    BY <1>1, <1>2, <1>3 DEF MockInv

LEMMA ApplyFresh ==
    ASSUME MockInv, NEW c \in MockCalls, NEW template \in StateKeys \cup {"none"}, ApplyStateTransition(c, template)
    PROVE  MockInv'
  <1>0. MockType /\ KeysRegistered /\ ResetStartsAfresh /\ WaitingFresh
    BY DEF MockInv
  <1> DEFINE q == call[c]
             key == IF template = "none" THEN q.key ELSE template
             value == Transition(q.example, q.loaded, q.mark)
  <1>1. q \in WaitingCalls
    BY <1>0 DEF MockType, ApplyStateTransition
  <1>2. q.suite \in MockSuites /\ key \in StateKeys \cup {"none"} /\ q.loaded \in SUBSET Marks /\ q.mark \in Marks
    BY <1>1 DEF WaitingCalls
  <1>3. /\ call' = [call EXCEPT ![c] = NoCall] /\ UNCHANGED <<life, escaped>>
        /\ IF key = "none" THEN UNCHANGED <<state, suiteState, wrote>>
           ELSE /\ state' = [state EXCEPT ![key] = value]
                /\ suiteState' = [suiteState EXCEPT ![q.suite] = @ \cup {key}]
                /\ wrote' = [wrote EXCEPT ![q.suite] = @ \cup {key}]
    BY DEF ApplyStateTransition, StoreState
  <1>4. value \in SUBSET Marks /\ value \subseteq q.loaded \cup {q.mark}
    BY <1>2 DEF Transition, Stateless
  <1>5. \A m \in q.loaded \cup {q.mark} : m[2] = life[m[1]] \/ m \in escaped
    BY <1>0 DEF ApplyStateTransition, ResetStartsAfresh, WaitingFresh
  <1>6. /\ call' \in [MockCalls -> WaitingCalls \cup {NoCall}] /\ WaitingFresh'
        /\ \A d \in MockCalls : call'[d].loaded \subseteq call[d].loaded
    BY <1>3, CallEnds
  <1> HIDE DEF value, q, key
  <1>7. state' \in [StateKeys -> SUBSET Marks] /\ wrote' \in [MockSuites -> SUBSET StateKeys] /\ KeysRegistered'
    <2>1. CASE key = "none"
      BY <1>0, <1>3, <2>1 DEF MockType, KeysRegistered
    <2>2. CASE key # "none"
      <3>1. key \in StateKeys
        BY <1>2, <2>2
      <3>2. state' \in [StateKeys -> SUBSET Marks]
        BY <1>0, <1>3, <1>4, <2>2, <3>1 DEF MockType
      <3>3. wrote' \in [MockSuites -> SUBSET StateKeys]
        BY <1>0, <1>2, <1>3, <2>2, <3>1 DEF MockType
      <3>4. KeysRegistered'
        BY <1>0, <1>3, <2>2 DEF KeysRegistered
      <3>5. QED
        BY <3>2, <3>3, <3>4
    <2>3. QED
      BY <2>1, <2>2
  <1>8. ASSUME NEW l \in StateKeys, NEW m \in state'[l] PROVE m[2] = life[m[1]] \/ m \in escaped
    <2>1. state'[l] = state[l] \/ state'[l] = value
      BY <1>0, <1>3 DEF MockType
    <2>2. QED
      BY <1>0, <1>4, <1>5, <1>8, <2>1 DEF ResetStartsAfresh
  <1>9. ResetStartsAfresh'
    BY <1>0, <1>3, <1>6, <1>8 DEF ResetStartsAfresh
  <1>10. QED
    BY <1>0, <1>3, <1>6, <1>7, <1>9 DEF MockInv, MockType

LEMMA ResetFresh ==
    ASSUME MockInv, NEW s \in MockSuites, ResetSuiteState(s)
    PROVE  MockInv'
  <1>0. MockType /\ KeysRegistered /\ ResetStartsAfresh /\ WaitingFresh
    BY DEF MockInv
  <1>1. /\ state' = [k \in StateKeys |-> IF k \in wrote[s] THEN {} ELSE state[k]]
        /\ suiteState' = [wrote EXCEPT ![s] = {}] /\ wrote' = [wrote EXCEPT ![s] = {}]
        /\ life[s] < MaxLives /\ life' = [life EXCEPT ![s] = @ + 1]
        /\ escaped' = escaped \cup {m \in Marks : OutOfReach(s, m)}
        /\ call' = call
    BY <1>0 DEF ResetSuiteState, KeysRegistered, Stateless
  <1>2. MockType'
    <2>1. state' \in [StateKeys -> SUBSET Marks]
      BY <1>0, <1>1 DEF MockType
    <2>2. life' \in [MockSuites -> 0..MaxLives]
      BY <1>0, <1>1, MockAssumption DEF MockType
    <2>3. wrote' \in [MockSuites -> SUBSET StateKeys]
      BY <1>0, <1>1 DEF MockType
    <2>4. QED
      BY <1>0, <1>1, <2>1, <2>2, <2>3 DEF MockType
  <1>3. KeysRegistered'
    BY <1>1 DEF KeysRegistered
  <1>4. ASSUME NEW m \in Marks, m[2] = life[m[1]] \/ m \in escaped, m[1] = s => OutOfReach(s, m)
        PROVE  m[2] = life'[m[1]] \/ m \in escaped'
    <2>1. CASE m[1] = s
      BY <1>1, <1>4, <2>1
    <2>2. CASE m[1] # s
      <3>1. m[1] \in MockSuites
        BY DEF Marks
      <3>2. life'[m[1]] = life[m[1]]
        BY <1>0, <1>1, <2>2, <3>1 DEF MockType
      <3>3. QED
        BY <1>1, <1>4, <3>2
    <2>3. QED
      BY <2>1, <2>2
  <1>5. ASSUME NEW k \in StateKeys, NEW m \in state'[k] PROVE m[2] = life'[m[1]] \/ m \in escaped'
    <2>1. k \notin wrote[s] /\ m \in state[k]
      BY <1>1, <1>5
    <2>2. m \in Marks /\ (m[2] = life[m[1]] \/ m \in escaped)
      BY <1>0, <2>1 DEF MockType, ResetStartsAfresh
    <2>3. QED
      BY <1>4, <2>1, <2>2 DEF OutOfReach
  <1>6. ASSUME NEW c \in MockCalls, NEW m \in call[c].loaded PROVE m[2] = life'[m[1]] \/ m \in escaped'
    <2>1. call[c].loaded \subseteq Marks
      BY <1>0 DEF MockType, WaitingCalls, NoCall, Stateless
    <2>2. m \in Marks /\ (m[2] = life[m[1]] \/ m \in escaped)
      BY <1>0, <1>6, <2>1 DEF ResetStartsAfresh
    <2>3. QED
      BY <1>4, <1>6, <2>2 DEF OutOfReach
  <1>7. ASSUME NEW c \in MockCalls, call[c] # NoCall
        PROVE  call[c].mark[2] = life'[call[c].mark[1]] \/ call[c].mark \in escaped'
    <2>1. call[c] \in WaitingCalls
      BY <1>0, <1>7 DEF MockType
    <2>2. call[c].mark \in Marks
      BY <2>1 DEF WaitingCalls
    <2>3. call[c].mark[2] = life[call[c].mark[1]] \/ call[c].mark \in escaped
      BY <1>0, <1>7 DEF WaitingFresh
    <2>4. QED
      BY <1>4, <2>2, <2>3 DEF OutOfReach
  <1>8. ResetStartsAfresh' /\ WaitingFresh'
    BY <1>1, <1>5, <1>6, <1>7 DEF ResetStartsAfresh, WaitingFresh
  <1>9. QED
    BY <1>2, <1>3, <1>8 DEF MockInv

LEMMA MockInvStep == MockInv /\ [MockNext]_mockVars => MockInv'
  <1> SUFFICES ASSUME MockInv, [MockNext]_mockVars PROVE MockInv'
    OBVIOUS
  <1>1. ASSUME NEW c \in MockCalls, NEW s \in MockSuites, NEW k \in StateKeys \cup {"none"}, NEW example \in Answers,
               Invoke(c, s, k, example)
        PROVE  MockInv'
    BY <1>1, InvokeFresh
  <1>2. ASSUME NEW c \in MockCalls, InvokeCanceled(c) PROVE MockInv'
    BY <1>2, InvokeCanceledFresh
  <1>3. ASSUME NEW c \in MockCalls, NEW template \in StateKeys \cup {"none"}, ApplyStateTransition(c, template)
        PROVE  MockInv'
    BY <1>3, ApplyFresh
  <1>4. ASSUME NEW s \in MockSuites, ResetSuiteState(s) PROVE MockInv'
    BY <1>4, ResetFresh
  <1>5. CASE UNCHANGED mockVars
    BY <1>5 DEF mockVars, MockInv, MockType, KeysRegistered, ResetStartsAfresh, WaitingFresh
  <1>6. QED
    BY <1>1, <1>2, <1>3, <1>4, <1>5 DEF MockNext

\* However calls, resets and copies from one key to another of the mock service
\* (mocking/state.go) interleave, nothing of an earlier life of a suite is stored
\* or answered from, but for what a call under way at the reset or a key only
\* another suite stored kept: for every set of suites, keys and calls and every
\* number of resets.
THEOREM ResetsStartAfresh == MockSpec => []ResetStartsAfresh
  <1>1. MockSpec => []MockInv
    BY MockInvInit, MockInvStep, PTL DEF MockSpec
  <1>2. MockInv => ResetStartsAfresh
    BY DEF MockInv
  <1>3. QED
    BY <1>1, <1>2, PTL

-----------------------------------------------------------------------------
(* Steps on their way to an agent *)

URLs == {URL(host, port) : host \in {"127.0.0.1", "mock", "none"}, port \in {32768, 9080, 0}}

\* What runNode makes of its inputs, as far as the conversions depend on it.
PlannedSteps ==
    [identity : {"step"}, content : {"empty", "text", "latin1", "other"}, env : {"env"}, aliases : {"aliases"},
     exports : {"exports"}, gateway : URLs, gateways : UNION {[1..n -> URLs] : n \in Nat},
     expectExit : SUBSET {0, 3}, memory : Nat, kind : {"task", "service", "plugin"},
     image : {"image", "none"}, index : {7}, lease : {StepLease},
     collects : {TRUE}, plugins : {TRUE}]

\* The request as it arrives by either route.
ArrivedAsJSON(p) == [ToStepRequest(p) EXCEPT !.content = JSONText(@)]
ArrivedAsProto(p) == ProtoToStepRequest(StepRequestToProto(ToStepRequest(p)))

\* At every place the step is the planned one, converted as far as it has come.
HandedIsConverted ==
    \/ handed = Nowhere
    \/ /\ handed.planned \in PlannedSteps
       /\ (handed.at \in {"request", "arrived"} \/ (handed.at = "spec" /\ handed.route # "local"))
             => StepRequiresContainer(handed.planned)
       /\ \/ handed.at = "planned" /\ handed.step = handed.planned /\ handed.route # "local"
          \/ handed.at = "spec" /\ handed.step = handed.planned /\ handed.route = "local"
          \/ handed.at = "request" /\ handed.step = ToStepRequest(handed.planned) /\ handed.route # "local"
          \/ handed.at = "arrived" /\ handed.step = ArrivedAsJSON(handed.planned) /\ handed.route # "local"
          \/ handed.at = "arrived" /\ handed.step = ArrivedAsProto(handed.planned) /\ handed.route # "local"
          \/ handed.at = "spec" /\ handed.step = ToStepSpec(ArrivedAsJSON(handed.planned)) /\ handed.route # "local"
          \/ handed.at = "spec" /\ handed.step = ToStepSpec(ArrivedAsProto(handed.planned)) /\ handed.route # "local"
          \/ handed.at \in {"refused", "in_process"}

HandedType == handed = [at |-> handed.at, route |-> handed.route, step |-> handed.step, planned |-> handed.planned]

Texts == {"empty", "text", "latin1"}
ExitCodes == {{}, {0}, {3}}

\* A step that runNode puts together has the shape the conversions expect.
LEMMA RunNodePlans ==
    ASSUME NEW owner, NEW packages, NEW content \in Texts,
           NodeSourceFiles(owner, packages) \in {{content}, {"other"}}, NEW kinds, NEW mocks \in Nat, NEW running,
           NEW expectExit \in ExitCodes, NEW memory \in Nat,
           NEW kind \in {"task", "service", "plugin"}, NEW image \in {"image", "none"}
    PROVE  RunNode(kind, image, owner, packages, kinds, mocks, running, expectExit, memory) \in PlannedSteps
  <1> DEFINE urls == ResolveGatewayURLs(kinds, mocks, running)
  <1>1. ResolveNodeFileContent(owner, packages) \in {"empty", "text", "latin1", "other"}
    BY DEF ResolveNodeFileContent, Texts
  <1>2. URL("127.0.0.1", 32768) \in URLs /\ URL("mock", 9080) \in URLs /\ URL("none", 0) \in URLs
    BY DEF URLs
  <1>3. \E n \in Nat : urls \in [1..n -> URLs]
    <2>1. CASE ~SidecarNeeded(kinds)
      <3>1. urls = <<>>
        BY <2>1 DEF ResolveGatewayURLs
      <3>2. <<>> \in [1..0 -> URLs]
        OBVIOUS
      <3>3. QED
        BY <3>1, <3>2
    <2>2. CASE SidecarNeeded(kinds) /\ running
      <3>1. urls = [i \in 1..(IF mocks = 0 THEN 1 ELSE mocks) |-> URL("127.0.0.1", 32768)]
        BY <2>2 DEF ResolveGatewayURLs
      <3>2. (IF mocks = 0 THEN 1 ELSE mocks) \in Nat
        OBVIOUS
      <3>3. QED
        BY <1>2, <3>1, <3>2
    <2>3. CASE SidecarNeeded(kinds) /\ ~running
      <3>1. urls = [i \in 1..mocks |-> URL("mock", 9080)]
        BY <2>3 DEF ResolveGatewayURLs
      <3>2. QED
        BY <1>2, <3>1
    <2>4. QED
      BY <2>1, <2>2, <2>3
  <1>4. urls \in UNION {[1..n -> URLs] : n \in Nat}
    BY <1>3
  <1>5. FirstOrNone(urls) \in URLs
    <2>1. PICK n \in Nat : urls \in [1..n -> URLs]
      BY <1>3
    <2>2. CASE n = 0
      <3>1. urls = <<>>
        BY <2>1, <2>2
      <3>2. QED
        BY <1>2, <3>1 DEF FirstOrNone
    <2>3. CASE n # 0
      <3>1. 1 \in 1..n
        BY <2>3
      <3>2. QED
        BY <1>2, <2>1, <3>1 DEF FirstOrNone
    <2>4. QED
      BY <2>2, <2>3
  <1> HIDE DEF urls
  <1>6. expectExit \in SUBSET {0, 3}
    BY DEF ExitCodes
  <1>7. QED
    BY <1>1, <1>4, <1>5, <1>6 DEF RunNode, PlannedSteps, urls

\* The request keeps what was planned and asks for a lease that is no shorter.
LEMMA RequestKeeps ==
    ASSUME NEW p \in PlannedSteps
    PROVE  LET r == ToStepRequest(p)
           IN  /\ DOMAIN r = DOMAIN p
               /\ r.lease \in Nat /\ r.lease >= p.lease
               /\ \A f \in DOMAIN p \ {"collects", "plugins", "lease"} : r[f] = p[f]
  <1>1. p.lease = StepLease /\ StepLease \in Nat /\ LeastLease \in Nat
    BY HandoffAssumption DEF PlannedSteps
  <1>2. DOMAIN p = {"identity", "content", "env", "aliases", "exports", "gateway", "gateways", "expectExit", "memory",
                    "kind", "image", "index", "lease", "collects", "plugins"}
    BY DEF PlannedSteps
  <1> DEFINE l == IF p.lease > LeastLease THEN p.lease ELSE LeastLease
             r == [p EXCEPT !.collects = FALSE, !.plugins = FALSE, !.lease = l]
  <1>3. ToStepRequest(p) = r
    BY DEF ToStepRequest
  <1>4. l \in Nat /\ l >= p.lease
    BY <1>1
  <1> HIDE DEF l
  <1>5. DOMAIN r = DOMAIN p /\ r.lease = l
    BY <1>2
  <1>6. \A f \in DOMAIN p \ {"collects", "plugins", "lease"} : r[f] = p[f]
    BY <1>2
  <1> HIDE DEF r
  <1>7. QED
    BY <1>3, <1>4, <1>5, <1>6

\* What arrives is what was planned, but for texts that are no UTF-8 and what
\* stays behind.
Arrives(p, s) ==
    /\ DOMAIN s = DOMAIN p /\ s.lease >= p.lease
    /\ \A f \in {"identity", "env", "aliases", "exports", "gateways", "expectExit", "memory", "kind", "image"} : s[f] = p[f]
    /\ s.content = "empty" => p.content = "empty"
    /\ p.content # "latin1" => s.content = p.content

LEMMA JSONArrives ==
    ASSUME NEW p \in PlannedSteps
    PROVE  Arrives(p, ArrivedAsJSON(p))
  <1> DEFINE r == ToStepRequest(p)
  <1>1. /\ DOMAIN r = DOMAIN p
        /\ r.lease \in Nat /\ r.lease >= p.lease
        /\ \A f \in DOMAIN p \ {"collects", "plugins", "lease"} : r[f] = p[f]
    BY RequestKeeps
  <1>2. DOMAIN p = {"identity", "content", "env", "aliases", "exports", "gateway", "gateways", "expectExit", "memory",
                    "kind", "image", "index", "lease", "collects", "plugins"}
    BY DEF PlannedSteps
  <1> HIDE DEF r
  <1>3. ArrivedAsJSON(p) = [r EXCEPT !.content = JSONText(@)]
    BY DEF ArrivedAsJSON, r
  <1>4. QED
    BY <1>1, <1>2, <1>3 DEF Arrives, JSONText

LEMMA ProtoArrives ==
    ASSUME NEW p \in PlannedSteps
    PROVE  Arrives(p, ArrivedAsProto(p))
  <1> DEFINE r == ToStepRequest(p)
             m == StepRequestToProto(r)
  <1>1. /\ DOMAIN r = DOMAIN p
        /\ r.lease \in Nat /\ r.lease >= p.lease
        /\ \A f \in DOMAIN p \ {"collects", "plugins", "lease"} : r[f] = p[f]
    BY RequestKeeps
  <1>2. DOMAIN p = {"identity", "content", "env", "aliases", "exports", "gateway", "gateways", "expectExit", "memory",
                    "kind", "image", "index", "lease", "collects", "plugins"}
    BY DEF PlannedSteps
  <1>3. p.lease \in Nat
    BY <1>1, <1>2, HandoffAssumption DEF PlannedSteps
  <1> HIDE DEF r
  <1>4. /\ DOMAIN m = DOMAIN p
        /\ m.lease = IF r.lease > 0 THEN r.lease ELSE NotSent
        /\ \A f \in DOMAIN p \ {"lease"} : m[f] = r[f]
    BY <1>1, <1>2 DEF StepRequestToProto, EvaluationToProto
  <1> HIDE DEF m
  <1>5. ArrivedAsProto(p) = [m EXCEPT !.lease = IF @ = NotSent THEN 0 ELSE @]
    BY DEF ArrivedAsProto, ProtoToStepRequest, m, r
  <1> DEFINE s == ArrivedAsProto(p)
  <1>6. /\ DOMAIN s = DOMAIN p
        /\ s.lease = IF m.lease = NotSent THEN 0 ELSE m.lease
        /\ \A f \in DOMAIN p \ {"lease"} : s[f] = r[f]
    <2>1. "lease" \in DOMAIN m
      BY <1>2, <1>4
    <2>2. DOMAIN s = DOMAIN m /\ s.lease = IF m.lease = NotSent THEN 0 ELSE m.lease
      BY <1>5, <2>1
    <2>3. \A f \in DOMAIN m \ {"lease"} : s[f] = m[f]
      BY <1>5
    <2> HIDE DEF s
    <2>4. QED
      BY <1>4, <2>1, <2>2, <2>3
  <1> HIDE DEF s
  <1>7. s.lease >= p.lease
    BY <1>1, <1>3, <1>4, <1>6 DEF NotSent
  <1>8. \A f \in {"identity", "env", "aliases", "exports", "gateways", "expectExit", "memory", "content", "kind", "image"} :
           s[f] = p[f]
    BY <1>1, <1>2, <1>6
  <1>9. QED
    BY <1>6, <1>7, <1>8 DEF Arrives, s

\* The agent's executor points gateways at the control plane and passes on the rest.
LEMMA AgentSpecKeeps ==
    ASSUME NEW p \in PlannedSteps, NEW a, Arrives(p, a)
    PROVE  LET s == ToStepSpec(a)
           IN  /\ \A f \in {"identity", "env", "aliases", "exports", "expectExit", "memory", "content", "kind", "image"} : s[f] = a[f]
               /\ DOMAIN s.gateways = DOMAIN p.gateways
               /\ \A i \in DOMAIN s.gateways :
                    /\ s.gateways[i].port = p.gateways[i].port
                    /\ ControlPlaneHost \notin Loopback \cup {"none"} => s.gateways[i].host \notin Loopback
  <1> DEFINE s == ToStepSpec(a)
             g == a.gateways
  <1>1. DOMAIN a = {"identity", "content", "env", "aliases", "exports", "gateway", "gateways", "expectExit", "memory",
                    "kind", "image", "index", "lease", "collects", "plugins"}
    BY DEF PlannedSteps, Arrives
  <1>2. g = p.gateways
    BY DEF Arrives
  <1>3. PICK n \in Nat : p.gateways \in [1..n -> URLs]
    BY DEF PlannedSteps
  <1>4. \A f \in {"identity", "env", "aliases", "exports", "expectExit", "memory", "content", "kind", "image"} : s[f] = a[f]
    BY <1>1 DEF ToStepSpec
  <1> HIDE DEF g
  <1>5. s.gateways = [i \in DOMAIN g |-> RewriteLoopbackURL(g[i], ControlPlaneHost)]
    BY <1>1 DEF ToStepSpec, g
  <1> HIDE DEF s
  <1>6. DOMAIN s.gateways = DOMAIN p.gateways
    BY <1>2, <1>5
  <1>7. ASSUME NEW i \in DOMAIN p.gateways
        PROVE  /\ s.gateways[i].port = p.gateways[i].port
               /\ ControlPlaneHost \notin Loopback \cup {"none"} => s.gateways[i].host \notin Loopback
    <2> DEFINE u == p.gateways[i]
    <2>1. u \in URLs
      BY <1>3
    <2>2. PICK h \in {"127.0.0.1", "mock", "none"}, q \in {32768, 9080, 0} : u = URL(h, q)
      BY <2>1 DEF URLs
    <2>3. s.gateways[i] = RewriteLoopbackURL(u, ControlPlaneHost)
      BY <1>2, <1>5
    <2> DEFINE v == RewriteLoopbackURL(u, ControlPlaneHost)
    <2> HIDE DEF u
    <2>4. v.port = u.port /\ (ControlPlaneHost \notin Loopback \cup {"none"} => v.host \notin Loopback)
      BY <2>2 DEF RewriteLoopbackURL, Loopback, URL
    <2> HIDE DEF v
    <2>5. QED
      BY <2>3, <2>4 DEF u, v
  <1>8. QED
    BY <1>4, <1>6, <1>7 DEF s

\* Wherever the step has come to, it arrives whole.
LEMMA ConvertedArrivesWhole ==
    ASSUME HandedIsConverted
    PROVE  StepsArriveWhole
  <1> DEFINE p == handed.planned
             s == handed.step
  <1>1. CASE handed = Nowhere
    <2>1. handed.at = "none"
      BY <1>1 DEF Nowhere
    <2>2. QED
      BY <2>1 DEF StepsArriveWhole
  <1>2. ASSUME p \in PlannedSteps, handed.at \in {"planned", "refused", "in_process"} PROVE StepsArriveWhole
    BY <1>2 DEF StepsArriveWhole
  <1>3. ASSUME p \in PlannedSteps, handed.at = "spec", s = p, handed.route = "local" PROVE StepsArriveWhole
    BY <1>3 DEF StepsArriveWhole
  <1>4. ASSUME p \in PlannedSteps, handed.at = "request", s = ToStepRequest(p) PROVE StepsArriveWhole
    <2>1. s.lease >= p.lease
      BY <1>4, RequestKeeps
    <2>2. QED
      BY <1>4, <2>1 DEF StepsArriveWhole
  <1>5. ASSUME p \in PlannedSteps, handed.at = "arrived", Arrives(p, s) PROVE StepsArriveWhole
    BY <1>5 DEF StepsArriveWhole, Arrives
  <1>6. ASSUME p \in PlannedSteps, handed.at = "spec", handed.route # "local",
               StepRequiresContainer(p), NEW a, Arrives(p, a), s = ToStepSpec(a)
        PROVE  StepsArriveWhole
    <2>1. /\ \A f \in {"identity", "env", "aliases", "exports", "expectExit", "memory", "content", "kind", "image"} : s[f] = a[f]
          /\ DOMAIN s.gateways = DOMAIN p.gateways
          /\ \A i \in DOMAIN s.gateways :
               /\ s.gateways[i].port = p.gateways[i].port
               /\ ControlPlaneHost \notin Loopback \cup {"none"} => s.gateways[i].host \notin Loopback
      BY <1>6, AgentSpecKeeps
    <2>2. /\ s.identity = p.identity /\ s.env = p.env /\ s.aliases = p.aliases /\ s.exports = p.exports
          /\ p.content # "latin1" => s.content = p.content
          /\ s.expectExit = p.expectExit /\ s.memory = p.memory
      BY <1>6, <2>1 DEF Arrives
    <2>3. s.kind = p.kind /\ s.image = p.image /\ (s.content = "empty" => p.content = "empty")
      BY <1>6, <2>1 DEF Arrives
    <2>4. StepRequiresContainer(s)
      BY <1>6, <2>3 DEF StepRequiresContainer
    <2> HIDE DEF p, s
    <2>5. QED
      BY <1>6, <2>1, <2>2, <2>4 DEF StepsArriveWhole, p, s
  <1>7. QED
    BY <1>1, <1>2, <1>3, <1>4, <1>5, <1>6, JSONArrives, ProtoArrives DEF HandedIsConverted

\* Every step of the hand-over converts the step as the code at that place does.
LEMMA HandedStep ==
    ASSUME HandedType, HandedIsConverted, HandoffNext
    PROVE  HandedType' /\ HandedIsConverted'
  <1> USE DEF Move1
  <1>1. ASSUME UNCHANGED handed PROVE HandedType' /\ HandedIsConverted'
    BY <1>1 DEF HandedType, HandedIsConverted
  <1>2. CASE PlanNode
    <2>0. PICK route \in {"local", "json", "proto"}, kind \in {"task", "service", "plugin"}, image \in {"image", "none"},
               owner \in {"suite", "dependency", "unresolved"}, content \in {"empty", "text", "latin1"},
               others \in SUBSET {"mock", "traffic"}, mocks \in 0..2,
               running \in BOOLEAN, expectExit \in {{}, {0}, {3}}, memory \in {0, 512} :
                 /\ mocks > 0 <=> "mock" \in others
                 /\ kind # "task" => expectExit = {} /\ memory = 512
                 /\ PlanStep(route, kind, image, owner, content, {kind} \cup others, mocks, running, expectExit, memory)
      BY <1>2 DEF PlanNode
    <2> DEFINE packages == [suite |-> {content}, dependency |-> {"other"}]
               p == RunNode(kind, image, owner, packages, {kind} \cup others, mocks, running, expectExit, memory)
               a == IF route = "local" THEN "spec" ELSE "planned"
    <2>1. handed' = [at |-> a, route |-> route, step |-> p, planned |-> p]
      BY <2>0 DEF PlanStep
    <2>2. content \in Texts /\ expectExit \in ExitCodes /\ memory \in Nat /\ mocks \in Nat
      BY DEF Texts, ExitCodes
    <2>3. NodeSourceFiles(owner, packages) \in {{content}, {"other"}}
      BY DEF NodeSourceFiles
    <2> HIDE DEF packages
    <2>4. p \in PlannedSteps
      BY <2>2, <2>3, RunNodePlans
    <2> HIDE DEF p
    <2>5. HandedType'
      BY <2>1 DEF HandedType
    <2>6. HandedIsConverted'
      BY <2>1, <2>4 DEF HandedIsConverted
    <2>7. QED
      BY <2>5, <2>6
  <1>3. ASSUME NEW at, NEW step, Move1(at, step)
        PROVE  /\ HandedType'
               /\ handed'.at = at /\ handed'.step = step
               /\ handed'.route = handed.route /\ handed'.planned = handed.planned
    <2>1. handed' = [at |-> at, route |-> handed.route, step |-> step, planned |-> handed.planned]
      BY <1>3 DEF HandedType
    <2>2. QED
      BY <2>1 DEF HandedType
  <1>4. ASSUME handed.at # "none" PROVE handed # Nowhere
    BY <1>4 DEF Nowhere
  <1>5. CASE Dispatch
    <2>1. handed.at = "planned"
      BY <1>5 DEF Dispatch
    <2>2. handed.step = handed.planned /\ handed.planned \in PlannedSteps /\ handed.route # "local"
      BY <1>4, <2>1 DEF HandedIsConverted
    <2>3. CASE StepRequiresContainer(handed.step) /\ Move1("request", ToStepRequest(handed.step))
      BY <1>3, <2>2, <2>3 DEF HandedIsConverted
    <2>4. CASE Move1("in_process", handed.step)
      BY <1>3, <2>2, <2>4 DEF HandedIsConverted
    <2>5. QED
      BY <1>5, <2>3, <2>4 DEF Dispatch
  <1>6. ASSUME handed.at = "request"
        PROVE  /\ handed.step = ToStepRequest(handed.planned) /\ handed.planned \in PlannedSteps /\ handed.route # "local"
               /\ StepRequiresContainer(handed.planned)
    BY <1>4, <1>6 DEF HandedIsConverted
  <1>7. CASE TravelsAsJSON
    <2>1. handed.at = "request" /\ Move1("arrived", [handed.step EXCEPT !.content = JSONText(@)])
      BY <1>7 DEF TravelsAsJSON
    <2>2. /\ handed.step = ToStepRequest(handed.planned) /\ handed.planned \in PlannedSteps /\ handed.route # "local"
          /\ StepRequiresContainer(handed.planned)
      BY <1>6, <2>1
    <2>3. [handed.step EXCEPT !.content = JSONText(@)] = ArrivedAsJSON(handed.planned)
      BY <2>2 DEF ArrivedAsJSON
    <2>4. Move1("arrived", ArrivedAsJSON(handed.planned))
      BY <2>1, <2>3
    <2>5. /\ HandedType'
          /\ handed'.at = "arrived" /\ handed'.step = ArrivedAsJSON(handed.planned)
          /\ handed'.route = handed.route /\ handed'.planned = handed.planned
      BY <1>3, <2>4
    <2>6. QED
      BY <2>2, <2>5 DEF HandedIsConverted
  <1>8. CASE TravelsAsProto
    <2>1. handed.at = "request"
      BY <1>8 DEF TravelsAsProto
    <2>2. /\ handed.step = ToStepRequest(handed.planned) /\ handed.planned \in PlannedSteps /\ handed.route # "local"
          /\ StepRequiresContainer(handed.planned)
      BY <1>6, <2>1
    <2>3. CASE Move1("refused", handed.step)
      BY <1>3, <2>1, <2>2, <2>3 DEF HandedIsConverted
    <2>4. CASE Move1("arrived", ProtoToStepRequest(StepRequestToProto(handed.step)))
      <3>1. Move1("arrived", ArrivedAsProto(handed.planned))
        BY <2>2, <2>4 DEF ArrivedAsProto
      <3>2. /\ HandedType' /\ handed'.at = "arrived" /\ handed'.step = ArrivedAsProto(handed.planned)
            /\ handed'.route = handed.route /\ handed'.planned = handed.planned
        BY <1>3, <3>1
      <3>3. HandedIsConverted'
        BY <2>2, <3>2 DEF HandedIsConverted
      <3>4. QED
        BY <3>2, <3>3
    <2>5. QED
      BY <1>8, <2>3, <2>4 DEF TravelsAsProto
  <1>9. CASE AgentExecutes
    <2>1. handed.at = "arrived" /\ Move1("spec", ToStepSpec(handed.step))
      BY <1>9 DEF AgentExecutes
    <2>2. /\ handed.planned \in PlannedSteps /\ handed.route # "local" /\ StepRequiresContainer(handed.planned)
          /\ handed.step = ArrivedAsJSON(handed.planned) \/ handed.step = ArrivedAsProto(handed.planned)
      BY <1>4, <2>1 DEF HandedIsConverted
    <2>3. /\ HandedType'
          /\ handed'.at = "spec" /\ handed'.step = ToStepSpec(handed.step)
          /\ handed'.route = handed.route /\ handed'.planned = handed.planned
      BY <1>3, <2>1
    <2>4. QED
      BY <2>2, <2>3 DEF HandedIsConverted
  <1>10. QED
    BY <1>1, <1>2, <1>5, <1>7, <1>8, <1>9
    DEF HandoffNext, PlanPlugins, ServiceStarts, ServiceEnds, PluginStarts

-----------------------------------------------------------------------------
(* Plugins and the services they name *)

\* A running service has published every port that a plugin of its suite
\* names, and nothing runs before the suite is planned.
PluginsInv ==
    /\ topology \in PluginSuites \cup {<<>>}
    /\ DOMAIN published = 1..MaxNodes /\ DOMAIN config = 1..MaxNodes
    /\ published = [i \in 1..MaxNodes |-> published[i]] /\ config = [i \in 1..MaxNodes |-> config[i]]
    /\ topology = <<>> => \A i \in 1..MaxNodes : published[i] = {} /\ config[i] = NotStarted
    /\ ~resolves => \A i \in 1..MaxNodes : published[i] = {}
    /\ \A k \in DOMAIN topology : published[k] \in {{}, PluginHostPortRefs(topology, topology[k].name)}

\* Within a suite names are distinct, so a plugin's reference finds its node.
LEMMA NodeFound ==
    ASSUME PluginsInv, NEW k \in DOMAIN topology
    PROVE  k \in 1..MaxNodes /\ NodeIDByName(topology[k].name) = k /\ topology[k].name \in NodeNames(topology)
  <1>1. topology \in PluginSuites
    BY DEF PluginsInv
  <1>2. DOMAIN topology \subseteq 1..MaxNodes /\ MaxNodes \in Nat
    BY <1>1, HandoffAssumption
  <1>3. \A i, j \in DOMAIN topology : topology[i].name = topology[j].name => i = j
    BY <1>1, HandoffAssumption
  <1> DEFINE Is(i) == topology[i].name = topology[k].name
                        /\ \A j \in DOMAIN topology : topology[j].name = topology[k].name => i >= j
  <1>4. Is(k)
    BY <1>2, <1>3
  <1>5. \A i \in DOMAIN topology : Is(i) => i = k
    BY <1>3
  <1>6. NodeIDByName(topology[k].name) = CHOOSE i \in DOMAIN topology : Is(i)
    BY DEF NodeIDByName
  <1> HIDE DEF Is
  <1>7. (CHOOSE i \in DOMAIN topology : Is(i)) = k
    BY <1>4, <1>5
  <1>8. QED
    BY <1>2, <1>6, <1>7 DEF NodeNames

\* A plugin that starts finds every service it names that is found up, and what
\* is no node of the suite stays as it is.
LEMMA RewriteReaches ==
    ASSUME PluginsInv, NEW i \in DOMAIN topology, NEW ref \in topology[i].refs, NEW failing
    PROVE  /\ \A k \in DOMAIN topology : topology[k].name = ref[1] /\ Found(failing)[k] # {} =>
                 <<"host.docker.internal", k, ref[2]>> \in RewritePluginConfig(topology[i].refs, Found(failing))
           /\ (~resolves \/ (\A k \in DOMAIN topology : topology[k].name # ref[1])) =>
                 ref \in RewritePluginConfig(topology[i].refs, Found(failing))
  <1>1. ASSUME NEW k \in DOMAIN topology, topology[k].name = ref[1], Found(failing)[k] # {}
        PROVE  <<"host.docker.internal", k, ref[2]>> \in RewritePluginConfig(topology[i].refs, Found(failing))
    <2>0. k \in 1..MaxNodes
      BY NodeFound
    <2>1. Found(failing)[k] = published[k] /\ resolves
      BY <1>1, <2>0 DEF Found, PluginsInv
    <2>2. published[k] = PluginHostPortRefs(topology, topology[k].name)
      BY <1>1, <2>1 DEF PluginsInv
    <2>3. ref \in Refs(topology)
      BY DEF Refs
    <2>4. ref[2] \in Found(failing)[k]
      BY <1>1, <2>1, <2>2, <2>3 DEF PluginHostPortRefs
    <2>5. NodeIDByName(ref[1]) = k /\ ref[1] \in NodeNames(topology)
      BY <1>1, NodeFound
    <2>6. HostPort(Found(failing), NodeIDByName(ref[1]), ref[2]) = <<"host.docker.internal", k, ref[2]>>
      BY <2>4, <2>5 DEF HostPort
    <2>7. <<"host.docker.internal", k, ref[2]>> # <<>>
      OBVIOUS
    <2>8. QED
      BY <2>1, <2>5, <2>6, <2>7 DEF RewritePluginConfig
  <1>2. ASSUME \A k \in DOMAIN topology : topology[k].name # ref[1], resolves
        PROVE  ref \in RewritePluginConfig(topology[i].refs, Found(failing))
    <2>1. ref[1] \notin NodeNames(topology)
      BY <1>2 DEF NodeNames
    <2>2. QED
      BY <1>2, <2>1 DEF RewritePluginConfig
  <1>3. ASSUME ~resolves PROVE ref \in RewritePluginConfig(topology[i].refs, Found(failing))
    BY <1>3 DEF RewritePluginConfig
  <1>4. QED
    BY <1>1, <1>2, <1>3

LEMMA PluginsStep ==
    ASSUME PluginsInv, PluginsReachServices, HandoffNext
    PROVE  PluginsInv' /\ PluginsReachServices'
  <1>0. /\ MaxNodes \in Nat
        /\ DOMAIN topology \subseteq 1..MaxNodes
        /\ \A nodes \in PluginSuites : nodes # <<>> /\ DOMAIN nodes \subseteq 1..MaxNodes
    BY HandoffAssumption, NodeFound
  <1>1. ASSUME UNCHANGED pluginVars PROVE PluginsInv' /\ PluginsReachServices'
    <2>1. PluginsInv'
      BY <1>1 DEF pluginVars, PluginsInv, PluginHostPortRefs, Refs
    <2>2. PluginsReachServices'
      BY <1>1 DEF pluginVars, PluginsReachServices
    <2>3. QED
      BY <2>1, <2>2
  <1>2. CASE PlanPlugins
    <2>1. topology = <<>> /\ topology' \in PluginSuites /\ UNCHANGED <<published, config>>
      BY <1>2 DEF PlanPlugins
    <2>2. \A i \in 1..MaxNodes : published'[i] = {} /\ config'[i] = NotStarted
      BY <2>1 DEF PluginsInv
    <2>3. DOMAIN topology' \subseteq 1..MaxNodes /\ topology' # <<>>
      BY <1>0, <2>1
    <2>4. PluginsInv'
      BY <2>1, <2>2, <2>3 DEF PluginsInv
    <2>5. PluginsReachServices'
      BY <2>2, <2>3 DEF PluginsReachServices
    <2>6. QED
      BY <2>4, <2>5
  <1>3. ASSUME NEW i \in 1..MaxNodes, ServiceStarts(i) PROVE PluginsInv' /\ PluginsReachServices'
    <2>1. /\ i \in DOMAIN topology /\ UNCHANGED <<topology, config, resolves>> /\ resolves
          /\ published' = [published EXCEPT ![i] = PluginHostPortRefs(topology, topology[i].name)]
      BY <1>3 DEF ServiceStarts
    <2>2. PluginsReachServices'
      BY <2>1 DEF PluginsReachServices
    <2>3. topology # <<>>
      BY <2>1
    <2>4. DOMAIN published' = 1..MaxNodes /\ published' = [j \in 1..MaxNodes |-> published'[j]]
      BY <2>1 DEF PluginsInv
    <2>5. \A k \in DOMAIN topology : published'[k] \in {{}, PluginHostPortRefs(topology, topology[k].name)}
      BY <1>0, <2>1 DEF PluginsInv
    <2>6. PluginsInv'
      BY <2>1, <2>3, <2>4, <2>5 DEF PluginsInv, PluginHostPortRefs, Refs
    <2>7. QED
      BY <2>2, <2>6
  <1>4. ASSUME NEW i \in 1..MaxNodes, ServiceEnds(i) PROVE PluginsInv' /\ PluginsReachServices'
    <2>1. UNCHANGED <<topology, config, resolves>> /\ published' = [published EXCEPT ![i] = {}]
      BY <1>4 DEF ServiceEnds
    <2>2. PluginsReachServices'
      BY <2>1 DEF PluginsReachServices
    <2>3. DOMAIN published' = 1..MaxNodes /\ published' = [j \in 1..MaxNodes |-> published'[j]]
      BY <2>1 DEF PluginsInv
    <2>4. \A j \in 1..MaxNodes : published'[j] \in {{}, published[j]}
      BY <2>1 DEF PluginsInv
    <2>5. \A k \in DOMAIN topology : published'[k] \in {{}, PluginHostPortRefs(topology, topology[k].name)}
      BY <1>0, <2>4 DEF PluginsInv
    <2>6. /\ topology = <<>> => \A j \in 1..MaxNodes : published'[j] = {} /\ config'[j] = NotStarted
          /\ ~resolves => \A j \in 1..MaxNodes : published'[j] = {}
      BY <2>1, <2>4 DEF PluginsInv
    <2>7. PluginsInv'
      BY <2>1, <2>3, <2>5, <2>6 DEF PluginsInv, PluginHostPortRefs, Refs
    <2>8. QED
      BY <2>2, <2>7
  <1>5. ASSUME NEW i \in 1..MaxNodes, NEW failing \in SUBSET (1..MaxNodes), PluginStarts(i, failing)
        PROVE  PluginsInv' /\ PluginsReachServices'
    <2> DEFINE started == [refs |-> RewritePluginConfig(topology[i].refs, Found(failing)), up |-> Found(failing)]
    <2>1. /\ i \in DOMAIN topology /\ UNCHANGED <<topology, published, resolves>>
          /\ config' = [config EXCEPT ![i] = started]
      BY <1>5 DEF PluginStarts
    <2>2. topology # <<>>
      BY <2>1
    <2>3. started.refs = RewritePluginConfig(topology[i].refs, Found(failing)) /\ started.up = Found(failing)
      OBVIOUS
    <2> HIDE DEF started
    <2>4. /\ DOMAIN config' = 1..MaxNodes /\ config' = [j \in 1..MaxNodes |-> config'[j]]
          /\ \A j \in 1..MaxNodes : config'[j] = IF j = i THEN started ELSE config[j]
      BY <2>1 DEF PluginsInv
    <2>5. PluginsInv'
      BY <2>1, <2>2, <2>4 DEF PluginsInv, PluginHostPortRefs, Refs
    <2> DEFINE Reaches(c, ref) ==
                 /\ \A k \in DOMAIN topology : topology[k].name = ref[1] /\ c.up[k] # {} =>
                       <<"host.docker.internal", k, ref[2]>> \in c.refs
                 /\ (~resolves \/ (\A k \in DOMAIN topology : topology[k].name # ref[1])) => ref \in c.refs
    <2>6. ASSUME NEW j \in DOMAIN topology, NEW ref \in topology[j].refs, config'[j] # NotStarted
          PROVE  Reaches(config'[j], ref)
      <3>1. CASE j # i
        <4>1. config'[j] = config[j]
          BY <1>0, <2>4, <3>1
        <4>2. Reaches(config[j], ref)
          BY <2>6, <4>1 DEF PluginsReachServices
        <4>3. QED
          BY <4>1, <4>2
      <3>2. CASE j = i
        <4>1. config'[j] = started
          BY <1>0, <2>4, <3>2
        <4>2. Reaches(started, ref)
          BY <2>3, <2>6, <3>2, RewriteReaches
        <4>3. QED
          BY <4>1, <4>2
      <3>3. QED
        BY <3>1, <3>2
    <2>7. QED
      BY <2>1, <2>5, <2>6 DEF PluginsReachServices
  <1>6. CASE PlanNode
    <2>1. UNCHANGED pluginVars
      BY <1>6 DEF PlanNode, PlanStep
    <2>2. QED
      BY <1>1, <2>1
  <1>7. QED
    BY <1>1, <1>2, <1>3, <1>4, <1>5, <1>6
    DEF HandoffNext, Dispatch, TravelsAsJSON, TravelsAsProto, AgentExecutes, Move1

HandoffInv == HandedType /\ HandedIsConverted /\ PluginsInv /\ PluginsReachServices

LEMMA HandoffInvInit == HandoffInit => HandoffInv
  <1> SUFFICES ASSUME HandoffInit PROVE HandoffInv
    OBVIOUS
  <1>1. HandedType /\ HandedIsConverted
    BY DEF HandoffInit, HandedType, HandedIsConverted, Nowhere
  <1>2. PluginsInv /\ PluginsReachServices
    BY DEF HandoffInit, PluginsInv, PluginsReachServices
  <1>3. QED
    BY <1>1, <1>2 DEF HandoffInv

LEMMA HandoffInvStep == HandoffInv /\ [HandoffNext]_handoffVars => HandoffInv'
  <1> SUFFICES ASSUME HandoffInv, [HandoffNext]_handoffVars PROVE HandoffInv'
    OBVIOUS
  <1>1. CASE HandoffNext
    BY <1>1, HandedStep, PluginsStep DEF HandoffInv
  <1>2. CASE UNCHANGED handoffVars
    <2>1. (HandedType /\ HandedIsConverted)'
      BY <1>2 DEF handoffVars, HandoffInv, HandedType, HandedIsConverted
    <2>2. PluginsInv'
      BY <1>2 DEF handoffVars, pluginVars, HandoffInv, PluginsInv, PluginHostPortRefs, Refs
    <2>3. PluginsReachServices'
      BY <1>2 DEF handoffVars, pluginVars, HandoffInv, PluginsReachServices
    <2>4. QED
      BY <2>1, <2>2, <2>3 DEF HandoffInv
  <1>3. QED
    BY <1>1, <1>2

LEMMA HandoffInvSound == HandoffInv => HandoffSound
  BY ConvertedArrivesWhole DEF HandoffInv, HandoffSound

\* A step is the same wherever it runs, whatever the lease and the control
\* plane's host, what goes to an agent runs a container there, and a plugin finds
\* every service it names that is found up, in every suite whose nodes have
\* distinct names (runtime.go, runner/remote.go, agent/proto_convert.go).
THEOREM HandoffsAreSound == HandoffSpec => []HandoffSound
  <1>1. HandoffSpec => []HandoffInv
    BY HandoffInvInit, HandoffInvStep, PTL DEF HandoffSpec
  <1>2. QED
    BY <1>1, HandoffInvSound, PTL


-----------------------------------------------------------------------------
(* The services together *)

\* The services share no state: what one of them does is a step of it or
\* leaves it alone, so each behaves in company as it does alone.
LEMMA ServicesApart ==
    ASSUME [MCNext]_vars
    PROVE  /\ [PersistNext]_persistVars /\ [EnvironmentsNext]_environmentVars /\ [AccountsNext]_accountVars
           /\ [ResetNext]_resetVars /\ [ThrottleNext]_throttleVars /\ [SsoNext]_ssoVars /\ [MockNext]_mockVars
           /\ [HandoffNext]_handoffVars /\ [OverviewNext]_overviewVars
  <1>1. CASE UNCHANGED vars
    BY <1>1 DEF vars
  <1>2. CASE MCNext
    BY <1>2 DEF MCNext, OthersStay
  <1>3. QED
    BY <1>1, <1>2

\* Nobody gets in who should not, whatever the other services do: accounts are
\* there with their workspace or not at all (auth.signUp), a reset link works
\* once (auth.resetPassword), the rate limit and the lockout hold (ratelimit.go,
\* lockout.go), and a tab is signed in as the login it started (oidc.go).
THEOREM SignInIsSound == MCSpec => []SignInSound
  <1>1. MCInit => AccountsInit /\ ResetInit /\ ThrottleInit /\ SsoInit
    BY DEF MCInit
  <1>2. MCSpec => AccountsSpec /\ ResetSpec /\ ThrottleSpec /\ SsoSpec
    BY <1>1, ServicesApart, PTL DEF MCSpec, AccountsSpec, ResetSpec, ThrottleSpec, SsoSpec
  <1>3. AccountsWhole /\ LinksWorkOnce /\ WindowsRespected /\ SignedInAsAsked => SignInSound
    BY DEF SignInSound
  <1>4. QED
    BY <1>2, <1>3, AccountsStayWhole, ResetLinksWorkOnce, WindowsHold, SignedInByOwnLogin, PTL

\* What is saved of the executions (runtime_store.go) and what the overview
\* shows of them (engine/store.go) catch up with what they are.
THEOREM RecordsAllCatchUp == MCSpec => []RecordsCatchUp
  <1>1. MCInit => PersistInit /\ OverviewInit
    BY DEF MCInit
  <1>2. MCSpec => PersistSpec /\ OverviewSpec
    BY <1>1, ServicesApart, PTL DEF MCSpec, PersistSpec, OverviewSpec
  <1>3. PersistCatchesUp /\ OverviewCatchesUp => RecordsCatchUp
    BY DEF RecordsCatchUp
  <1>4. QED
    BY <1>2, <1>3, PersistenceCatchesUp, OverviewShowsAll, PTL
=============================================================================
