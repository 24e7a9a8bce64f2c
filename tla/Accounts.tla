------------------------------ MODULE Accounts ------------------------------
(***************************************************************************)
(* The requests that change what a reader has: an account, made by         *)
(* app/api/auth/signup/route.ts and opened by lib/auth.ts, and the things  *)
(* one user saves through lib/user-resource-route.ts, of which at most     *)
(* MAX_USER_RESOURCES are kept.  Each handler is interleaved with the      *)
(* others at every await.  All go through the fixed windows of             *)
(* lib/request-security.ts, a Map of the process whose order is that of    *)
(* the last use, cut down to MAX_RATE_LIMIT_KEYS.                          *)
(*                                                                         *)
(* Emails are normalized ones, a password stands for itself and for its    *)
(* hash.  A body that is refused, a foreign origin and a missing session   *)
(* all end a request before it has done anything but be counted.           *)
(***************************************************************************)
EXTENDS Naturals, Sequences, FiniteSets

CONSTANTS
    Requests,           \* those that are served at the same time
    Items,              \* what the user may save
    Emails, Passwords,
    MaxUserResources,   \* MAX_USER_RESOURCES
    RateLimit,          \* limit, by scope
    Window,             \* windowMs
    MaxRateLimitKeys,   \* MAX_RATE_LIMIT_KEYS
    MaxBegun,           \* bound on the requests
    Horizon,            \* bound on the time
    MaxMishaps,         \* bound on what goes wrong
    None

\* The scopes, each with its one identifier.
Scopes == {"user-resource-mutation", "signup-ip", "credential-login-ip",
           "credential-login-account"}

\* What an account has in place of a password when the Google provider made it.
Google == "google"

AccountsAssumption ==
    /\ {MaxUserResources, Window, MaxRateLimitKeys} \subseteq Nat \ {0}
    /\ RateLimit \in [Scopes -> Nat \ {0}]
    /\ IsFiniteSet(Items) /\ None \notin Passwords /\ Google \notin Passwords \cup {None}

VARIABLES
    saved,      \* the rows of the user
    passwordOf, \* of each account, or Google, or None where there is no account
    rateLimits, \* the Map: of each scope in it the entry, and its place in the order
    request,
    now, begun, mishaps,
    uses,       \* history: the times at which each scope was counted
    told        \* history: what the answers have said, and what was cut off

accountsVars == <<saved, passwordOf, rateLimits, request, now, begun, mishaps, uses, told>>

Kinds == {"save", "remove", "signup", "login"}

ScopesOf(kind) ==
    CASE kind = "signup" -> <<"signup-ip">>
      [] kind = "login" -> <<"credential-login-ip", "credential-login-account">>
      [] OTHER -> <<"user-resource-mutation">>

Idle == [kind |-> "none", at |-> "idle", key |-> None, password |-> None]

NoEntries == [scope \in {} |-> None]

InitWith(rows) ==
    /\ saved = rows
    /\ passwordOf = [e \in Emails |-> None]
    /\ rateLimits = NoEntries
    /\ request = [r \in Requests |-> Idle]
    /\ now = 0 /\ begun = 0 /\ mishaps = 0
    /\ uses = [s \in Scopes |-> <<>>]
    /\ told = [kept |-> {}, removed |-> {}, cut |-> {}, welcomed |-> {}, entered |-> {}]

\* The user has saved no more than may be kept.
Init == \E rows \in SUBSET Items : Cardinality(rows) <= MaxUserResources /\ InitWith(rows)

-----------------------------------------------------------------------------
(* consumeRateLimit.                                                       *)

IsOpen(entry) == entry.resetAt > now

\* The count of a scope whose window is open.
OpenCount(limits, scope) ==
    IF scope \in DOMAIN limits /\ IsOpen(limits[scope]) THEN limits[scope].count ELSE 0

\* The entry that counts, a new one when there is none whose window is open.
EntryOf(limits, scope) ==
    IF OpenCount(limits, scope) > 0 THEN limits[scope]
    ELSE [count |-> 0, resetAt |-> now + Window, place |-> 0]

Allowed(limits, scope) == EntryOf(limits, scope).count < RateLimit[scope]

\* The entry used is the last of the Map.
Used(limits, scope) ==
    [s \in DOMAIN limits \cup {scope} |->
        IF s = scope
        THEN [EntryOf(limits, scope) EXCEPT !.count = @ + 1, !.place = Cardinality(Scopes) + 1]
        ELSE limits[s]]

\* Beyond the capacity the entries whose window is over go first, then the oldest.
Kept(limits) ==
    LET open == {s \in DOMAIN limits : IsOpen(limits[s])}
        newer(s) == {t \in open : limits[t].place > limits[s].place}
    IN IF Cardinality(DOMAIN limits) <= MaxRateLimitKeys THEN DOMAIN limits
       ELSE {s \in open : Cardinality(newer(s)) < MaxRateLimitKeys}

\* The Map of these entries, whose places are counted anew.
Bounded(limits, scopes) ==
    LET upTo(s) == {t \in scopes : limits[t].place <= limits[s].place}
    IN [s \in scopes |-> [limits[s] EXCEPT !.place = Cardinality(upTo(s))]]

Consumed(limits, scope) ==
    IF Allowed(limits, scope)
    THEN Bounded(Used(limits, scope), Kept(Used(limits, scope)))
    ELSE limits

\* The decisions of a request: what the Map is after it, and the scopes that allow
\* it, one or two of them (authorize consumes both whatever the first one says).
After(scopes) ==
    IF Len(scopes) = 1 THEN Consumed(rateLimits, scopes[1])
    ELSE Consumed(Consumed(rateLimits, scopes[1]), scopes[2])

Allowing(scopes) ==
    {scopes[i] : i \in {j \in 1..Len(scopes) :
        Allowed(IF j = 1 THEN rateLimits ELSE Consumed(rateLimits, scopes[1]), scopes[j])}}

\* A scope whose window is open and whose count is lost starts its history anew.
UsesAfter(after, allowing) ==
    [s \in Scopes |->
        LET used == IF s \in allowing THEN <<now>> ELSE <<>>
            count == OpenCount(after, s)
        IN IF count >= OpenCount(rateLimits, s) + Len(used) THEN uses[s] \o used
           ELSE IF count = 0 THEN <<>> ELSE used]

-----------------------------------------------------------------------------
(* The handlers.                                                           *)

Goes(r, at) == request' = [request EXCEPT ![r].at = at]

Ends(r) == request' = [request EXCEPT ![r] = Idle]

\* The first steps of every handler, up to the first await after the count.
First(kind) ==
    CASE kind = "save" -> "create" [] kind = "remove" -> "delete"
      [] kind = "signup" -> "find" [] OTHER -> "read"

Begin(r, kind, key, password) ==
    /\ request[r] = Idle /\ r = (CHOOSE q \in Requests : request[q] = Idle)
    /\ begun < MaxBegun
    /\ begun' = begun + 1
    /\ LET scopes == ScopesOf(kind)
           allowing == Allowing(scopes)
       IN /\ rateLimits' = After(scopes)
          /\ uses' = UsesAfter(rateLimits', allowing)
          /\ request' =
                IF Len(scopes) > Cardinality(allowing) THEN request
                ELSE [request EXCEPT ![r] = [kind |-> kind, at |-> First(kind), key |-> key,
                                             password |-> password]]
    /\ UNCHANGED <<saved, passwordOf, now, mishaps, told>>

\* The body is refused, or what is to be saved is not public.
Refuse(r) ==
    /\ request[r].at \in {"create", "delete", "find"}
    /\ Ends(r)
    /\ UNCHANGED <<saved, passwordOf, rateLimits, now, begun, mishaps, uses, told>>

\* POST: a row that is there already is only read again.
Create(r) ==
    /\ request[r].at = "create"
    /\ saved' = saved \cup {request[r].key}
    /\ IF request[r].key \in saved THEN Ends(r) ELSE Goes(r, "count")
    /\ UNCHANGED <<passwordOf, rateLimits, now, begun, mishaps, uses, told>>

\* A mutation: the row of the request itself is not counted.
CountOthers(r) ==
    /\ request[r].at = "count"
    /\ IF Cardinality(saved \ {request[r].key}) > MaxUserResources
       THEN Goes(r, "undo") /\ told' = told
       ELSE Ends(r) /\ told' = [told EXCEPT !.kept = @ \cup {request[r].key}]
    /\ UNCHANGED <<saved, passwordOf, rateLimits, now, begun, mishaps, uses>>

Count(r) ==
    /\ request[r].at = "count"
    /\ IF Cardinality(saved) > MaxUserResources
       THEN Goes(r, "undo") /\ told' = told
       ELSE Ends(r) /\ told' = [told EXCEPT !.kept = @ \cup {request[r].key}]
    /\ UNCHANGED <<saved, passwordOf, rateLimits, now, begun, mishaps, uses>>

\* The row of this user and this item, which is no longer this request's when a
\* DELETE and another POST came between.
Undo(r) ==
    /\ request[r].at = "undo"
    /\ saved' = saved \ {request[r].key}
    /\ Ends(r)
    /\ UNCHANGED <<passwordOf, rateLimits, now, begun, mishaps, uses, told>>

Delete(r) ==
    /\ request[r].at = "delete"
    /\ saved' = saved \ {request[r].key}
    /\ told' = [told EXCEPT !.removed = @ \cup {request[r].key}, !.cut = @ \ {request[r].key}]
    /\ Ends(r)
    /\ UNCHANGED <<passwordOf, rateLimits, now, begun, mishaps, uses>>

\* Sign-up: the password has been hashed; an account that exists is left alone,
\* and the answer is the same.
Find(r) ==
    /\ request[r].at = "find"
    /\ IF passwordOf[request[r].key] = None
       THEN Goes(r, "register") /\ told' = told
       ELSE Ends(r) /\ told' = [told EXCEPT !.welcomed = @ \cup {request[r].key}]
    /\ UNCHANGED <<saved, passwordOf, rateLimits, now, begun, mishaps, uses>>

Registered(email, password) ==
    IF passwordOf[email] = None THEN [passwordOf EXCEPT ![email] = password] ELSE passwordOf

Register(r) ==
    /\ request[r].at = "register"
    /\ passwordOf' = Registered(request[r].key, request[r].password)
    /\ told' = [told EXCEPT !.welcomed = @ \cup {request[r].key}]
    /\ Ends(r)
    /\ UNCHANGED <<saved, rateLimits, now, begun, mishaps, uses>>

\* An account made when somebody enters through Google, by the adapter; an address
\* that has one already is refused there (an account is not linked by its address).
EnterWithGoogle(e) ==
    /\ passwordOf[e] = None
    /\ passwordOf' = [passwordOf EXCEPT ![e] = Google]
    /\ UNCHANGED <<saved, rateLimits, request, now, begun, mishaps, uses, told>>

\* authorize: the hash that was read is compared after another await; where there is
\* no account, or one without a hash, the answer is that of a wrong password.
Read(r) ==
    /\ request[r].at = "read"
    /\ Goes(r, IF passwordOf[request[r].key] = request[r].password THEN "right" ELSE "wrong")
    /\ UNCHANGED <<saved, passwordOf, rateLimits, now, begun, mishaps, uses, told>>

Compare(r) ==
    /\ request[r].at \in {"right", "wrong"}
    /\ told' = [told EXCEPT !.entered =
                    @ \cup (IF request[r].at = "right"
                            THEN {<<request[r].key, request[r].password>>} ELSE {})]
    /\ Ends(r)
    /\ UNCHANGED <<saved, passwordOf, rateLimits, now, begun, mishaps, uses>>

\* The rows whose request will not count them any more, or not remove them.
CutOff(requests) ==
    {request[r].key : r \in {q \in requests : request[q].at \in {"count", "undo"}}} \cap saved

\* The database does not answer: status 500.
Fail(r) ==
    /\ request[r].at \in {"create", "count", "undo", "find", "register", "read"} /\ mishaps < MaxMishaps
    /\ mishaps' = mishaps + 1
    /\ told' = [told EXCEPT !.cut = @ \cup CutOff({r})]
    /\ Ends(r)
    /\ UNCHANGED <<saved, passwordOf, rateLimits, now, begun, uses>>

\* The process ends, and with it the Map.
Restart ==
    /\ mishaps < MaxMishaps
    /\ mishaps' = mishaps + 1
    /\ request' = [r \in Requests |-> Idle]
    /\ rateLimits' = NoEntries
    /\ uses' = [s \in Scopes |-> <<>>]
    /\ told' = [told EXCEPT !.cut = @ \cup CutOff(Requests)]
    /\ UNCHANGED <<saved, passwordOf, now, begun>>

\* No handler looks at the time after its first step: that it passes only while none
\* is at work loses no order of their other steps.
Tick ==
    /\ now < Horizon
    /\ \A r \in Requests : request[r] = Idle
    /\ now' = now + 1
    /\ UNCHANGED <<saved, passwordOf, rateLimits, request, begun, mishaps, uses, told>>

Next ==
    \/ \E r \in Requests :
        \/ \E kind \in {"save", "remove"}, item \in Items : Begin(r, kind, item, None)
        \/ \E kind \in {"signup", "login"}, e \in Emails, p \in Passwords : Begin(r, kind, e, p)
        \/ Refuse(r) \/ Create(r) \/ Count(r) \/ Undo(r) \/ Delete(r)
        \/ Find(r) \/ Register(r) \/ Read(r) \/ Compare(r) \/ Fail(r)
    \/ \E e \in Emails : EnterWithGoogle(e)
    \/ Restart \/ Tick

Spec == Init /\ [][Next]_accountsVars

-----------------------------------------------------------------------------
(* What must hold.                                                         *)

\* However many requests count at the same time, once all are answered the user has
\* no more than the limit, the rows apart whose request was cut off between its
\* insertion and its count (POST of user-resource-route.ts).
LimitHolds ==
    (\A r \in Requests : request[r] = Idle) =>
        Cardinality(saved \ told.cut) <= MaxUserResources

\* What was answered with 201 is there, unless somebody asked for its removal: the
\* row that a refused request takes back is its own.
SavedIsKept == told.kept \subseteq saved \cup told.removed

\* One account for an address, whose password is that of the first who made it: no
\* later sign-up gives one to an account that Google made or changes one, and the
\* answer 201 comes only when there is an account (signup/route.ts, lib/auth.ts).
AccountsAreTheirs ==
    /\ \A e \in told.welcomed : passwordOf[e] # None
    /\ \A entry \in told.entered : passwordOf[entry[1]] = entry[2]

\* In no span as long as the window are there twice as many uses as the limit: the
\* second half of one window and the first of the next (consumeRateLimit).
RatesAreKept ==
    \A s \in Scopes :
        LET few == 2 * RateLimit[s] - 1
        IN \A i \in 1..(Len(uses[s]) - few) : uses[s][i + few] >= uses[s][i] + Window

AccountsAreSound == LimitHolds /\ SavedIsKept /\ AccountsAreTheirs /\ RatesAreKept

=============================================================================
