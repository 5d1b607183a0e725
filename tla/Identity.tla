------------------------------ MODULE Identity ------------------------------
(* The accounts of user-identity and their refresh tokens: api/auth.routes.ts,   *)
(* domain/identityRepository.ts.  A sign-in waits for the provider and for the   *)
(* ERP's list of employees; what it then does to the database, and everything    *)
(* the other handlers do, is one step.                                           *)
EXTENDS Naturals, FiniteSets

CONSTANTS
  Profiles,     \* (provider, subject) pairs at the identity providers
  Emails,
  Employees,
  Nobody,       \* no employee
  Calls,        \* the sign-ins that may be under way at a time
  MaxIdentities, MaxTokens   \* bounds on the rows; a row is known by its number

ASSUME IdentityAssumption ==
  Nobody \notin Employees /\ MaxIdentities \in Nat /\ MaxTokens \in Nat

VARIABLES
  identity,     \* identity_user
  token,        \* refresh_token
  signIn,       \* the callbacks under way
  granted,      \* history: the identities that were linked, and made administrators
  loggedOut     \* history: the chains that a logout ended

Identities == 1 .. MaxIdentities
Tokens == 1 .. MaxTokens   \* a chain of them is named by its first

identityVars == <<identity, token, signIn, granted, loggedOut>>

\* The subject that a break-glass sign-in makes up; no provider ever sends it.
BreakGlassSubject == "break-glass"
NotSigningIn == [pc |-> "idle"]
Absent == [status |-> "absent"]
Unused == [status |-> "unused"]

Present == {i \in Identities : identity[i] # Absent}
StatusFor(employee) == IF employee = Nobody THEN "limited" ELSE "active"

IdentityRows == [status : {"limited", "active"}, subject : Profiles \cup {BreakGlassSubject},
                 email : Emails, employee : Employees \cup {Nobody}, admin : BOOLEAN]

TokenRows == [status : {"live", "expired", "revoked"}, owner : Identities, chain : Tokens]

-----------------------------------------------------------------------------
(* domain/identityRepository.ts                                                 *)

\* Mutant: the lookup's result is stored, whatever it is.
FoundOnly(found, kept) == found

\* COALESCE(?, h2r_employee_id)
Coalesce(found, kept) == IF found = Nobody THEN kept ELSE found

\* What resolveIdentity makes of a row
Resolved(row, subject, email, found, admin) ==
  LET employee == Coalesce(found, row.employee) IN
  [status |-> StatusFor(employee), subject |-> subject, email |-> email,
   employee |-> employee, admin |-> admin \/ row.admin]

NewRow == [status |-> "limited", subject |-> BreakGlassSubject, email |-> "", employee |-> Nobody,
           admin |-> FALSE]

\* The identity that resolveIdentity takes: by the provider's subject, which fails
\* when the address has become another identity's; else by the address; else new.
Resolves(i, subject, email) ==
  LET bySubject == {j \in Present : identity[j].subject = subject /\ subject # BreakGlassSubject}
      byEmail == {j \in Present : identity[j].email = email} IN
  \/ bySubject = {i} /\ byEmail \subseteq {i}
  \/ bySubject = {} /\ byEmail = {i}
  \/ bySubject = {} /\ byEmail = {} /\ Present = 1 .. i - 1

IsNew(t) == token[t] = Unused /\ \A u \in Tokens : u < t => token[u] # Unused

\* createRefreshToken: a row of a chain
IssueToken(tokens, t, i, chain) ==
  [tokens EXCEPT ![t] = [status |-> "live", owner |-> i, chain |-> chain]]

\* resolveIdentity and issueSession
ResolveAndIssue(subject, email, found, admin) ==
  \E i \in Identities, t \in Tokens :
    LET row == IF i \in Present THEN identity[i] ELSE NewRow
        now == Resolved(row, subject, email, found, admin) IN
    /\ Resolves(i, subject, email)
    /\ identity' = [identity EXCEPT ![i] = now]
    /\ IsNew(t)
    /\ token' = IssueToken(token, t, i, t)
    /\ granted' = [linked |-> granted.linked \cup (IF now.employee # Nobody THEN {i} ELSE {}),
                   admin |-> granted.admin \cup (IF admin THEN {i} ELSE {})]

\* revokeRefreshToken
Revoked(tokens, t) == [tokens EXCEPT ![t].status = "revoked"]

-----------------------------------------------------------------------------
IdentityInit ==
  /\ identity = [i \in Identities |-> Absent]
  /\ token = [t \in Tokens |-> Unused]
  /\ signIn = [c \in Calls |-> NotSigningIn]
  /\ granted = [linked |-> {}, admin |-> {}]
  /\ loggedOut = {}

\* GET /auth/callback/:provider, up to the claims that the provider's answers hold:
\* the account's address at that time
Callback(c) ==
  /\ signIn[c] = NotSigningIn
  /\ \E a \in Profiles, e \in Emails :
       signIn' = [signIn EXCEPT ![c] = [pc |-> "lookup", subject |-> a, email |-> e]]
  /\ UNCHANGED <<identity, token, granted, loggedOut>>

\* resolveH2rEmployeeIdByEmail: whoever has the address at that time; nobody, when
\* the lookup fails or takes too long
Lookup(c) ==
  /\ signIn[c].pc = "lookup"
  /\ \E found \in Employees \cup {Nobody} :
       signIn' = [signIn EXCEPT ![c] = [pc |-> "resolve", subject |-> signIn[c].subject,
                                        email |-> signIn[c].email, found |-> found]]
  /\ UNCHANGED <<identity, token, granted, loggedOut>>

\* The rest of the callback
SignIn(c) ==
  /\ signIn[c].pc = "resolve"
  /\ ResolveAndIssue(signIn[c].subject, signIn[c].email, signIn[c].found, FALSE)
  /\ signIn' = [signIn EXCEPT ![c] = NotSigningIn]
  /\ UNCHANGED loggedOut

\* The provider refused, the address is another identity's, or the process died.
SignInFails(c) ==
  /\ signIn[c] # NotSigningIn
  /\ signIn' = [signIn EXCEPT ![c] = NotSigningIn]
  /\ UNCHANGED <<identity, token, granted, loggedOut>>

\* POST /auth/break-glass
BreakGlass ==
  /\ \E e \in Emails : ResolveAndIssue(BreakGlassSubject, e, Nobody, TRUE)
  /\ UNCHANGED <<signIn, loggedOut>>

\* POST /identity/link-h2r
LinkH2R ==
  /\ \E i \in Present, h \in Employees :
       /\ identity' = [identity EXCEPT ![i].employee = h, ![i].status = "active"]
       /\ granted' = [granted EXCEPT !.linked = @ \cup {i}]
  /\ UNCHANGED <<token, signIn, loggedOut>>

\* POST /auth/refresh: consumeRefreshToken and issueSession
RefreshSession ==
  /\ \E t, next \in Tokens :
       /\ token[t].status = "live" /\ IsNew(next)
       /\ token' = IssueToken(Revoked(token, t), next, token[t].owner, token[t].chain)
  /\ UNCHANGED <<identity, signIn, granted, loggedOut>>

\* POST /auth/logout, with a token that was not consumed before
Logout ==
  /\ \E t \in Tokens :
       /\ token[t].status \in {"live", "expired"}
       /\ token' = Revoked(token, t)
       /\ loggedOut' = loggedOut \cup {token[t].chain}
  /\ UNCHANGED <<identity, signIn, granted>>

TokenExpires ==
  /\ \E t \in Tokens :
       /\ token[t].status = "live"
       /\ token' = [token EXCEPT ![t].status = "expired"]
  /\ UNCHANGED <<identity, signIn, granted, loggedOut>>

IdentityNext ==
  \/ \E c \in Calls : Callback(c) \/ Lookup(c) \/ SignIn(c) \/ SignInFails(c)
  \/ BreakGlass \/ LinkH2R
  \/ RefreshSession \/ Logout \/ TokenExpires

IdentitySpec == IdentityInit /\ [][IdentityNext]_identityVars

IdentityTypeOK ==
  /\ identity \in [Identities -> {Absent} \cup IdentityRows]
  /\ token \in [Tokens -> {Unused} \cup TokenRows]
  /\ granted.linked \subseteq Identities /\ granted.admin \subseteq Identities

(* Signing in never takes anything away: an identity that was linked to an      *)
(* employee, by a sign-in or by hand, stays linked when a later lookup times    *)
(* out or another account takes the identity over by its address, and is active *)
(* exactly when it is linked; an administrator stays one.  Of the tokens that   *)
(* go back to one sign-in at most one is good at a time, and none is after a    *)
(* logout with the last of them.                                                *)
IdentitiesAgree ==
  /\ \A i \in Present :
       /\ identity[i].status = StatusFor(identity[i].employee)
       /\ i \in granted.linked => identity[i].employee # Nobody
       /\ i \in granted.admin => identity[i].admin
  /\ \A chain \in Tokens :
       LET live == {t \in Tokens : token[t].status = "live" /\ token[t].chain = chain} IN
       Cardinality(live) <= 1 /\ (chain \in loggedOut => live = {})
=============================================================================
