--------------------------- MODULE PasswordReset ---------------------------
(***************************************************************************)
(* Passwords reset by mail (forgotPassword and resetPassword in            *)
(* auth/handler.go, the token documents of store/mongo/store.go).  The     *)
(* store keeps one token per person; a reset deletes it and then sets the  *)
(* password, two calls that a failing store, a crash and other requests    *)
(* come between.  A link is the number of the mail it came with.           *)
(***************************************************************************)
EXTENDS Naturals, Sequences, FiniteSets

CONSTANTS
    People,       \* those with an account
    ResetCalls,   \* resets that may be under way at once
    MaxLinks      \* bound: links mailed

ASSUME LinksAssumption == MaxLinks \in Nat

VARIABLES
    links,        \* links[n]: whom link n was mailed to
    token,        \* token[p]: the link whose token the store has for p, 0 for none
    stale,        \* those whose token is older than 15 minutes
    reset,        \* reset[q]: the link it has used up and whose it was, link 0 for none
    password,     \* password[p]: the link the password was set with, 0 for none
    spent         \* spent[n]: how often link n was used

resetVars == <<links, token, stale, reset, password, spent>>

NoReset == [link |-> 0, of |-> CHOOSE p \in People : TRUE]

ResetInit ==
    /\ links = <<>> /\ token = [p \in People |-> 0] /\ stale = {}
    /\ reset = [q \in ResetCalls |-> NoReset]
    /\ password = [p \in People |-> 0] /\ spent = [n \in 1..MaxLinks |-> 0]

\* A new token takes the place of the one the person has.
StorePasswordResetToken(p, n) == token' = [token EXCEPT ![p] = n] /\ stale' = stale \ {p}

\* The answer is the same for an email without an account, which gets no mail.
ForgotPassword(p) ==
    /\ Len(links) < MaxLinks /\ links' = Append(links, p)
    /\ StorePasswordResetToken(p, Len(links'))
    /\ UNCHANGED <<reset, password, spent>>

TokenExpires(p) ==
    /\ token[p] # 0 /\ p \notin stale /\ stale' = stale \cup {p}
    /\ UNCHANGED <<links, token, reset, password, spent>>

\* Mutant: the token is found now and deleted with the update.
FindToken(p) == UNCHANGED token

DeleteToken(p) == token' = [token EXCEPT ![p] = 0]

\* A link whose token is not there or stale is refused and changes nothing.
ConsumePasswordResetToken(q, n) ==
    /\ reset[q] = NoReset
    /\ \E p \in People \ stale :
         /\ token[p] = n /\ DeleteToken(p)
         /\ reset' = [reset EXCEPT ![q] = [link |-> n, of |-> p]]
    /\ spent' = [spent EXCEPT ![n] = @ + 1]
    /\ UNCHANGED <<links, stale, password>>

\* The update may fail, or the process may die before it: the link is gone.
UpdatePassword(q) ==
    /\ reset[q] # NoReset /\ reset' = [reset EXCEPT ![q] = NoReset]
    /\ \/ password' = [password EXCEPT ![reset[q].of] = reset[q].link]
       \/ UNCHANGED password
    /\ UNCHANGED <<links, token, stale, spent>>

ResetNext ==
    \/ \E p \in People : ForgotPassword(p) \/ TokenExpires(p)
    \/ \E q \in ResetCalls : UpdatePassword(q) \/ \E n \in 1..MaxLinks : ConsumePasswordResetToken(q, n)

ResetSpec == ResetInit /\ [][ResetNext]_resetVars

\* However resets and new links overlap, a link sets the password of the one
\* it was mailed to, and does so once.
LinksWorkOnce ==
    /\ \A n \in 1..MaxLinks : spent[n] <= 1
    /\ \A p \in People : password[p] # 0 => links[password[p]] = p /\ spent[password[p]] = 1
=============================================================================
