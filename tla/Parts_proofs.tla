---------------------------- MODULE Parts_proofs ----------------------------
(***************************************************************************)
(* Theorems about the services of ServiceParts, one section for each: the  *)
(* questions of Ask CentrePass, the official feed, the verified database   *)
(* roles, the pages of an edition, the smoke of a release, the accounts,   *)
(* the Glasgow commands, the boxes and buttons of a reader, the memory     *)
(* stress, and the rehearsal on a preview.  Each states a property of the  *)
(* composition, for all values of the constants, from an invariant of its part that the part's own steps  *)
(* keep; those of the others do not touch its variables.                   *)
(***************************************************************************)
EXTENDS ServiceParts, Integers, FiniteSets, Sequences, FiniteSetTheorems, TLAPS

-----------------------------------------------------------------------------
(* The composition                                                         *)

\* A step after which a part is at work is one of that part.
LEMMA PartAtWork ==
  ASSUME [PartsNext]_partsVars
  PROVE  /\ part' = part
         /\ part = "pages" => [Shown!Next]_(Shown!pagesVars)
         /\ part = "scoped" => [Scoped!Next]_(Scoped!scopedVars)
         /\ part = "smoke" => [Smoke!Next]_(Smoke!smokeVars)
         /\ part = "stats" => [Asked!Next]_(Asked!statVars)
         /\ part = "user" => [User!Next]_(User!accountsVars)
         /\ part = "official" => [Client!Next]_(Client!feedVars)
         /\ part = "guard" => [Guarded!Next]_(Guarded!vars)
         /\ part = "search" => [Reader!SearchNext]_(Reader!searchVars)
         /\ part = "ask" => [Reader!AskNext]_(Reader!askVars)
         /\ part = "saved" => [Reader!SavedNext]_(Reader!savedVars)
         /\ part = "stress" => [Stress!Next]_(Stress!stressVars)
         /\ part = "preview" => [Preview!Next]_(Preview!previewVars)
<1>1. CASE PartsNext
  BY <1>1 DEF PartsNext
<1>2. CASE UNCHANGED partsVars
  BY <1>2 DEF partsVars, pagesVars, scopedVars, smokeVars, statVars, accountsVars, feedVars,
     guardVars, searchVars, askVars, savedVars, stressVars, previewVars, Shown!pagesVars, Scoped!scopedVars,
     Smoke!smokeVars, Asked!statVars, User!accountsVars, Client!feedVars, Guarded!vars,
     Reader!searchVars, Reader!askVars, Reader!savedVars, Stress!stressVars,
     Preview!previewVars
<1> QED BY <1>1, <1>2

-----------------------------------------------------------------------------
(* Ask CentrePass                                                          *)

\* Where a request is, and where it is once its question has been parsed.
Stages == {"idle", "asked", "verified", "reserved", "parsed", "keyed", "executing", "read",
           "done"}
Statuses == {None, "REFUSED", "RATE_LIMITED", "NEEDS_CLARIFICATION", "UNSUPPORTED", "READY",
             "QUERY_TIMEOUT", "QUERY_UNAVAILABLE"}

\* What the parser may pass on.
SoundSpec(spec) == spec.scopes \subseteq Asked!Applied(spec)

Specs == {None} \cup {Asked!SpecOf(q) : q \in Questions}
CacheKeys == [spec : Specs, revision : Nat]

AskedRequests ==
    [pc : Stages, client : Clients \cup {None}, question : Questions \cup {None},
     spec : Specs, key : CacheKeys \cup {None}, began : Nat, read : Nat \cup {None}, status : Statuses,
     answer : Nat \cup {None}]

AskedTyped ==
    /\ epoch \in Nat /\ minute \in 0..MaxMinutes
    /\ buckets \in [Clients -> Nat]
    /\ granted \in [Clients -> [0..MaxMinutes -> Nat]]
    /\ request \in [Requests -> AskedRequests]
    /\ DOMAIN telemetry = Requests

\* A count of this minute is the bucket, and there is none of a later one.
CountsStand ==
    \A c \in Clients :
        /\ buckets[c] <= Limit
        /\ granted[c][minute] = buckets[c]
        /\ \A m \in 0..MaxMinutes :
             granted[c][m] <= Limit /\ (m > minute => granted[c][m] = 0)

\* What is cached is of the data of its key or later.
CacheStands ==
    \A e \in cache : e.key \in CacheKeys /\ e.value \in Nat /\ e.value >= e.key.revision

\* A request knows whose and which question it is, and its revision is not older.
Stands(q, rows, at) ==
    /\ q.pc \in {"asked", "verified", "reserved"} => q.client \in Clients /\ q.question \in Questions
    /\ q.spec # None => SoundSpec(q.spec)
    /\ q.began <= at
    /\ q.pc \in {"keyed", "executing", "read"} =>
         q.key \in CacheKeys /\ q.key.revision \in q.began..at
    /\ q.pc = "read" => q.read \in Nat /\ q.read >= q.key.revision
    /\ q.answer = None \/ (q.answer \in Nat /\ q.answer >= q.began)
    /\ q.pc # "done" => rows = <<>> /\ q.status = None
    /\ rows \in {<<>>, <<q.status>>}

RequestStands(r) == Stands(request[r], telemetry[r], epoch)

AskedInv ==
    AskedTyped /\ CountsStand /\ CacheStands /\ \A r \in Requests : RequestStands(r)

\* The parser and the validation leave a specification only scopes that its executor
\* passes on.
LEMMA ParsedIsSound ==
  ASSUME Asked!StatQuestionsAssumption, NEW q \in Questions,
         Asked!Parse(q).status = "READY"
  PROVE  /\ Asked!Parse(q).spec = Asked!SpecOf(q)
         /\ SoundSpec(Asked!SpecOf(q))
<1>1. /\ Asked!Parse(q).spec = Asked!SpecOf(q)
      /\ Asked!IsValid(Asked!SpecOf(q))
  BY DEF Asked!Parse
<1>2. /\ q.intent \in {"LOOKUP", "LEADERBOARD", "COMPARISON", "RECORD"}
      /\ q.scopes \subseteq Asked!Scopes
      /\ q.entities \in Seq({"PLAYER", "TEAM"})
  BY DEF Asked!StatQuestionsAssumption, Asked!Intents, Asked!Kinds
<1>3. Asked!Subject(q) \in {"PLAYER", "TEAM"}
  <2>1. CASE q.entities # <<>>
    <3>1. Head(q.entities) \in {"PLAYER", "TEAM"}
      BY <1>2, <2>1
    <3> QED BY <1>2, <2>1, <3>1 DEF Asked!Subject
  <2>2. CASE q.entities = <<>>
    BY <1>2, <2>2 DEF Asked!Subject
  <2> QED BY <2>1, <2>2
<1>4. SoundSpec(Asked!SpecOf(q))
  BY <1>1, <1>2, <1>3
  DEF SoundSpec, Asked!SpecOf, Asked!IsValid, Asked!Applied, Asked!Kept, Asked!Scopes
<1> QED BY <1>1, <1>4

\* A step that writes one request leaves the others as they stand, whatever the epoch
\* does meanwhile.
LEMMA OthersStand ==
  ASSUME NEW r \in Requests, AskedInv, NEW record \in AskedRequests,
         request' = [request EXCEPT ![r] = record], epoch' = epoch,
         telemetry' = telemetry \/ \E s : telemetry' = [telemetry EXCEPT ![r] = s],
         RequestStands(r)'
  PROVE  /\ request' \in [Requests -> AskedRequests]
         /\ request'[r] = record
         /\ DOMAIN telemetry' = Requests
         /\ \A s \in Requests : RequestStands(s)'
<1> USE DEF AskedInv, AskedTyped
<1>1. request' \in [Requests -> AskedRequests] /\ DOMAIN telemetry' = Requests
      /\ request'[r] = record
  OBVIOUS
<1>2. ASSUME NEW s \in Requests PROVE RequestStands(s)'
  <2>1. CASE s = r
    BY <2>1
  <2>2. CASE s # r
    <3>1. request'[s] = request[s] /\ telemetry'[s] = telemetry[s]
      BY <2>2
    <3>2. RequestStands(s)
      OBVIOUS
    <3> QED BY <3>1, <3>2 DEF RequestStands, Stands
  <2> QED BY <2>1, <2>2
<1> QED BY <1>1, <1>2

LEMMA AskedInitial ==
  ASSUME Asked!StatQuestionsAssumption, Asked!Init
  PROVE  AskedInv
<1> USE DEF Asked!Init, Asked!NoRequest, Asked!StatQuestionsAssumption
<1>1. Asked!NoRequest \in AskedRequests
  BY DEF AskedRequests, Stages, Statuses, Specs
<1>2. AskedTyped
  BY <1>1 DEF AskedTyped
<1>3. CountsStand
  BY DEF CountsStand
<1>4. CacheStands
  BY DEF CacheStands
<1>5. \A r \in Requests : RequestStands(r)
  BY DEF RequestStands, Stands
<1> QED BY <1>2, <1>3, <1>4, <1>5 DEF AskedInv

\* A step of one request that leaves the data, the counts and the cache alone.
LEMMA OneRequest ==
  ASSUME AskedInv, NEW r \in Requests, NEW record \in AskedRequests,
         request' = [request EXCEPT ![r] = record],
         telemetry' = telemetry \/ \E s : telemetry' = [telemetry EXCEPT ![r] = s],
         UNCHANGED <<epoch, minute, buckets, granted>>, CacheStands', RequestStands(r)'
  PROVE  AskedInv'
<1>1. /\ request' \in [Requests -> AskedRequests]
      /\ DOMAIN telemetry' = Requests
      /\ \A s \in Requests : RequestStands(s)'
  BY OthersStand
<1>2. AskedTyped'
  BY <1>1 DEF AskedInv, AskedTyped
<1>3. CountsStand'
  BY DEF AskedInv, CountsStand
<1> QED BY <1>1, <1>2, <1>3 DEF AskedInv

\* What a request has after one more step, as the route writes it.
LEMMA Written ==
  ASSUME AskedInv, NEW r \in Requests
  PROVE  /\ request[r] \in AskedRequests /\ RequestStands(r)
         /\ epoch \in Nat
  BY DEF AskedInv, AskedTyped

LEMMA DataKept ==
  ASSUME AskedInv, Asked!StatQuestionsAssumption,
         Asked!Commit \/ Asked!PassMinute \/ Asked!Expire
  PROVE  AskedInv'
<1>1. CASE Asked!Commit
  <2> USE <1>1 DEF Asked!Commit
  <2>1. AskedTyped'
    BY DEF AskedInv, AskedTyped
  <2>2. CountsStand' /\ CacheStands'
    BY DEF AskedInv, CountsStand, CacheStands
  <2>3. ASSUME NEW r \in Requests PROVE RequestStands(r)'
    <3>1. RequestStands(r) /\ epoch \in Nat /\ request[r] \in AskedRequests
      BY Written
    <3>2. request[r].began \in Nat
      BY <3>1 DEF AskedRequests
    <3> QED BY <3>1, <3>2 DEF RequestStands, Stands
  <2> QED BY <2>1, <2>2, <2>3 DEF AskedInv
<1>2. CASE Asked!PassMinute
  <2> USE <1>2 DEF Asked!PassMinute
  <2>1. AskedTyped'
    BY DEF AskedInv, AskedTyped, Asked!StatQuestionsAssumption
  <2>2. CountsStand'
    BY DEF AskedInv, AskedTyped, CountsStand, Asked!StatQuestionsAssumption
  <2>3. CacheStands' /\ \A r \in Requests : RequestStands(r)'
    BY DEF AskedInv, CacheStands, RequestStands, Stands
  <2> QED BY <2>1, <2>2, <2>3 DEF AskedInv
<1>3. CASE Asked!Expire
  <2> USE <1>3 DEF Asked!Expire
  <2>1. AskedTyped' /\ CountsStand' /\ CacheStands'
    BY DEF AskedInv, AskedTyped, CountsStand, CacheStands
  <2>2. \A r \in Requests : RequestStands(r)'
    BY DEF AskedInv, RequestStands
  <2> QED BY <2>1, <2>2 DEF AskedInv
<1> QED BY <1>1, <1>2, <1>3

\* The end of a request, whatever status and answer it has.
LEMMA EndKept ==
  ASSUME AskedInv, NEW r \in Requests, NEW record \in AskedRequests, NEW reason \in Statuses,
         Asked!Ends(r, record, reason), CacheStands', telemetry[r] = <<>>,
         record.spec = request[r].spec, record.began = request[r].began,
         record.answer = None \/ (record.answer \in Nat /\ record.answer >= record.began)
  PROVE  AskedInv'
<1> DEFINE ended == [record EXCEPT !.pc = "done", !.status = reason]
<1>1. ended \in AskedRequests
  BY DEF AskedRequests, Stages
<1>2. /\ ended.pc = "done" /\ ended.status = reason /\ ended.spec = record.spec
      /\ ended.began = record.began /\ ended.answer = record.answer
  BY DEF AskedRequests
<1>3. request' = [request EXCEPT ![r] = ended] /\ UNCHANGED <<epoch, minute, buckets, granted>>
  BY DEF Asked!Ends, Asked!Update
<1>4. telemetry' = telemetry \/ telemetry' = [telemetry EXCEPT ![r] = <<reason>>]
  BY DEF Asked!Ends
<1>5. RequestStands(r)'
  <2>1. request'[r] = ended
    BY <1>3 DEF AskedInv, AskedTyped
  <2>2. telemetry'[r] \in {<<>>, <<reason>>}
    BY <1>4 DEF AskedInv, AskedTyped
  <2>3. RequestStands(r)
    BY Written
  <2> HIDE DEF ended
  <2> QED BY <1>2, <1>3, <2>1, <2>2, <2>3 DEF RequestStands, Stands
<1> HIDE DEF ended
<1> QED BY <1>1, <1>3, <1>4, <1>5, OneRequest

LEMMA CountOneMore ==
  ASSUME NEW S, NEW f \in [S -> Nat], NEW m \in S
  PROVE  [f EXCEPT ![m] = @ + 1] \in [S -> Nat]
  OBVIOUS

\* The steps of one request.
LEMMA RequestKept ==
  ASSUME AskedInv, Asked!StatQuestionsAssumption, NEW r \in Requests,
         \/ \E c \in Clients, q \in Questions : Asked!Ask(r, c, q)
         \/ Asked!Verify(r) \/ Asked!Reserve(r) \/ Asked!ParseQuestion(r)
         \/ Asked!ReadRevision(r) \/ Asked!Hit(r) \/ Asked!Miss(r) \/ Asked!Query(r)
         \/ Asked!Complete(r) \/ Asked!TimeOut(r) \/ Asked!Unavailable(r)
  PROVE  AskedInv'
<1>1. request[r] \in AskedRequests /\ RequestStands(r) /\ epoch \in Nat
  BY Written
<1>2. CacheStands
  BY DEF AskedInv
<1>a. /\ request[r].answer = None \/ (request[r].answer \in Nat /\ request[r].answer >= request[r].began)
      /\ request[r].pc # "done" => telemetry[r] = <<>>
  BY <1>1 DEF RequestStands, Stands
<1> DEFINE Goes(record) ==
      /\ request' = [request EXCEPT ![r] = record] /\ UNCHANGED telemetry
      /\ UNCHANGED <<epoch, minute, buckets, granted>> /\ CacheStands'
<1>3. ASSUME NEW record, Asked!Only(r, record) PROVE Goes(record)
  BY <1>2, <1>3 DEF Asked!Only, Asked!Update, CacheStands
<1>4. ASSUME NEW record \in AskedRequests, Goes(record), Stands(record, telemetry[r], epoch)
      PROVE  AskedInv'
  <2>1. request'[r] = record
    BY <1>4 DEF AskedInv, AskedTyped
  <2>2. RequestStands(r)'
    BY <1>4, <2>1 DEF RequestStands
  <2> QED BY <1>4, <2>2, OneRequest
<1> HIDE DEF Goes
<1>6. ASSUME NEW c \in Clients, NEW q \in Questions, Asked!Ask(r, c, q) PROVE AskedInv'
  <2> DEFINE asked == [Asked!NoRequest EXCEPT
                         !.pc = IF q.allowed THEN "asked" ELSE "done", !.client = c,
                         !.question = q, !.began = epoch,
                         !.status = IF q.allowed THEN None ELSE "REFUSED"]
  <2>1. Goes(asked) /\ request[r].pc = "idle"
    BY <1>3, <1>6 DEF Asked!Ask
  <2>2. asked \in AskedRequests
    <3>1. Asked!NoRequest \in AskedRequests
      BY DEF AskedRequests, Stages, Statuses, Asked!NoRequest, Specs
    <3> DEFINE opening == [Asked!NoRequest EXCEPT !.client = c, !.question = q, !.began = epoch]
    <3>2. opening \in AskedRequests
      BY <1>1, <3>1 DEF AskedRequests
    <3>3. CASE q.allowed
      <4>1. asked = [opening EXCEPT !.pc = "asked", !.status = None]
        BY <3>3 DEF Asked!NoRequest
      <4> HIDE DEF opening, asked
      <4> QED BY <3>2, <4>1 DEF AskedRequests, Stages, Statuses
    <3>4. CASE ~q.allowed
      <4>1. asked = [opening EXCEPT !.pc = "done", !.status = "REFUSED"]
        BY <3>4 DEF Asked!NoRequest
      <4> HIDE DEF opening, asked
      <4> QED BY <3>2, <4>1 DEF AskedRequests, Stages, Statuses
    <3> QED BY <3>3, <3>4
  <2>3. Stands(asked, telemetry[r], epoch)
    BY <1>1, <2>1 DEF RequestStands, Stands, Asked!NoRequest
  <2> HIDE DEF asked
  <2> QED BY <1>4, <2>1, <2>2, <2>3
<1>7. CASE Asked!Verify(r)
  <2> DEFINE verified == [request[r] EXCEPT !.pc = "verified"]
  <2>1. Goes(verified) /\ request[r].pc = "asked"
    BY <1>3, <1>7 DEF Asked!Verify
  <2>2. verified \in AskedRequests
    BY <1>1 DEF AskedRequests, Stages
  <2>3. Stands(verified, telemetry[r], epoch)
    BY <1>1, <2>1 DEF RequestStands, Stands, AskedRequests
  <2> HIDE DEF verified
  <2> QED BY <1>4, <2>1, <2>2, <2>3
<1>9. CASE Asked!ParseQuestion(r)
  <2> DEFINE parsed == Asked!Parse(request[r].question)
  <2>1. request[r].pc = "reserved" /\ request[r].question \in Questions
    BY <1>1, <1>9 DEF Asked!ParseQuestion, RequestStands, Stands
  <2>2. CASE parsed.status = "READY"
    <3> DEFINE ready == [request[r] EXCEPT !.pc = "parsed", !.spec = parsed.spec]
    <3>1. Goes(ready)
      BY <1>3, <1>9, <2>2 DEF Asked!ParseQuestion
    <3>2. parsed.spec \in Specs /\ SoundSpec(parsed.spec)
      BY <2>1, <2>2, ParsedIsSound DEF Specs
    <3> HIDE DEF parsed
    <3>3. ready \in AskedRequests
      BY <1>1, <3>2 DEF AskedRequests, Stages
    <3>4. Stands(ready, telemetry[r], epoch)
      BY <1>1, <2>1, <3>1, <3>2 DEF RequestStands, Stands, AskedRequests
    <3> HIDE DEF ready
    <3> QED BY <1>4, <3>1, <3>3, <3>4
  <2>3. CASE parsed.status # "READY"
    <3>1. Asked!Ends(r, request[r], parsed.status) /\ UNCHANGED cache
      BY <1>9, <2>3 DEF Asked!ParseQuestion
    <3>2. parsed.status \in Statuses
      BY <2>3 DEF Asked!Parse, Statuses
    <3>3. CacheStands'
      BY <1>2, <3>1 DEF CacheStands
    <3> HIDE DEF parsed
    <3> QED BY <1>1, <1>a, <2>1, <3>1, <3>2, <3>3, EndKept
  <2> QED BY <2>2, <2>3
<1>10. CASE Asked!ReadRevision(r)
  <2> DEFINE keyed == [request[r] EXCEPT !.pc = "keyed",
                         !.key = Asked!CacheKey(request[r].spec, epoch)]
  <2>1. Goes(keyed) /\ request[r].pc = "parsed"
    BY <1>3, <1>10 DEF Asked!ReadRevision
  <2>2. /\ Asked!CacheKey(request[r].spec, epoch) \in CacheKeys
        /\ Asked!CacheKey(request[r].spec, epoch).revision = epoch
    BY <1>1 DEF AskedRequests, CacheKeys, Asked!CacheKey
  <2>3. keyed \in AskedRequests
    BY <1>1, <2>2 DEF AskedRequests, Stages
  <2>4. Stands(keyed, telemetry[r], epoch)
    BY <1>1, <2>1, <2>2 DEF RequestStands, Stands, AskedRequests
  <2> HIDE DEF keyed
  <2> QED BY <1>4, <2>1, <2>3, <2>4
<1>11. CASE Asked!Hit(r)
  <2>1. request[r].pc = "keyed" /\ UNCHANGED cache
    BY <1>11 DEF Asked!Hit
  <2>2. PICK e \in Asked!Cached(request[r].key) :
          Asked!Ends(r, [request[r] EXCEPT !.answer = e.value], "READY")
    BY <1>11 DEF Asked!Hit
  <2> DEFINE hit == [request[r] EXCEPT !.answer = e.value]
  <2>3. e.value \in Nat /\ e.value >= request[r].began
    BY <1>1, <1>2, <2>1 DEF Asked!Cached, CacheStands, RequestStands, Stands, CacheKeys, AskedRequests
  <2>4. /\ hit \in AskedRequests /\ hit.answer = e.value /\ hit.spec = request[r].spec
        /\ hit.began = request[r].began
    BY <1>1, <2>3 DEF AskedRequests
  <2>5. CacheStands' /\ telemetry[r] = <<>> /\ "READY" \in Statuses
    BY <1>2, <1>a, <2>1 DEF CacheStands, Statuses
  <2> HIDE DEF hit
  <2> QED BY <2>2, <2>3, <2>4, <2>5, EndKept DEF hit
<1>12. CASE Asked!Miss(r)
  <2> DEFINE fresh == [request[r] EXCEPT !.pc = "executing"]
  <2>1. Goes(fresh) /\ request[r].pc = "keyed"
    BY <1>3, <1>12 DEF Asked!Miss
  <2>2. fresh \in AskedRequests
    BY <1>1 DEF AskedRequests, Stages
  <2>3. Stands(fresh, telemetry[r], epoch)
    BY <1>1, <2>1 DEF RequestStands, Stands, AskedRequests
  <2> HIDE DEF fresh
  <2> QED BY <1>4, <2>1, <2>2, <2>3
<1>13. CASE Asked!Query(r)
  <2> DEFINE queried == [request[r] EXCEPT !.pc = "read", !.read = epoch]
  <2>1. Goes(queried) /\ request[r].pc = "executing"
    BY <1>3, <1>13 DEF Asked!Query
  <2>2. queried \in AskedRequests
    BY <1>1 DEF AskedRequests, Stages
  <2>3. Stands(queried, telemetry[r], epoch)
    BY <1>1, <2>1 DEF RequestStands, Stands, AskedRequests, CacheKeys
  <2> HIDE DEF queried
  <2> QED BY <1>4, <2>1, <2>2, <2>3
<1>14. CASE Asked!Complete(r)
  <2>1. request[r].pc = "read"
    BY <1>14 DEF Asked!Complete
  <2> DEFINE completed == [request[r] EXCEPT !.answer = request[r].read]
  <2>2. /\ Asked!Ends(r, completed, "READY")
        /\ cache' = (cache \ Asked!Cached(request[r].key)) \cup
                      {[key |-> request[r].key, value |-> request[r].read]}
    BY <1>14 DEF Asked!Complete
  <2>3. /\ request[r].key \in CacheKeys /\ request[r].key.revision \in request[r].began..epoch
        /\ request[r].read \in Nat /\ request[r].read >= request[r].key.revision
        /\ request[r].began \in Nat
    BY <1>1, <2>1 DEF RequestStands, Stands, AskedRequests
  <2>4. CacheStands'
    BY <1>2, <2>2, <2>3 DEF CacheStands
  <2>5. /\ completed \in AskedRequests /\ completed.answer = request[r].read
        /\ completed.spec = request[r].spec /\ completed.began = request[r].began
    BY <1>1, <2>3 DEF AskedRequests
  <2>6. request[r].read >= request[r].began /\ telemetry[r] = <<>> /\ "READY" \in Statuses
    BY <1>1, <1>a, <2>1, <2>3 DEF Statuses
  <2> HIDE DEF completed
  <2> QED BY <2>2, <2>3, <2>4, <2>5, <2>6, EndKept
<1>15. CASE Asked!TimeOut(r)
  <2>1. /\ Asked!Ends(r, request[r], "QUERY_TIMEOUT") /\ UNCHANGED cache
        /\ request[r].pc # "done" /\ "QUERY_TIMEOUT" \in Statuses
    BY <1>15 DEF Asked!TimeOut, Statuses
  <2>2. CacheStands'
    BY <1>2, <2>1 DEF CacheStands
  <2> QED BY <1>1, <1>a, <2>1, <2>2, EndKept
<1>16. CASE Asked!Unavailable(r)
  <2> DEFINE failed == [request[r] EXCEPT !.pc = "done", !.status = "QUERY_UNAVAILABLE"]
  <2>1. CASE Asked!Only(r, failed) /\ request[r].pc \in {"asked", "verified", "reserved"}
    <3>1. Goes(failed)
      BY <1>3, <2>1
    <3>2. failed \in AskedRequests
      BY <1>1 DEF AskedRequests, Stages, Statuses
    <3>3. Stands(failed, telemetry[r], epoch)
      BY <1>1, <2>1, <3>1 DEF RequestStands, Stands, AskedRequests
    <3> HIDE DEF failed
    <3> QED BY <1>4, <3>1, <3>2, <3>3
  <2>2. CASE /\ Asked!Ends(r, request[r], "QUERY_UNAVAILABLE") /\ UNCHANGED cache
             /\ request[r].pc \in {"parsed", "keyed", "executing", "read"}
    <3>1. CacheStands' /\ request[r].pc # "done" /\ "QUERY_UNAVAILABLE" \in Statuses
      BY <1>2, <2>2 DEF CacheStands, Statuses
    <3> QED BY <1>1, <1>a, <2>2, <3>1, EndKept
  <2> QED BY <1>16, <2>1, <2>2 DEF Asked!Unavailable
<1>8. CASE Asked!Reserve(r)
  <2> DEFINE c == request[r].client
  <2>1. request[r].pc = "verified" /\ c \in Clients /\ UNCHANGED <<epoch, minute, cache, telemetry>>
    BY <1>1, <1>8 DEF Asked!Reserve, RequestStands, Stands
  <2>2. CASE buckets[c] < Limit
    <3> DEFINE reserved == [request[r] EXCEPT !.pc = "reserved"]
    <3>1. /\ buckets' = [buckets EXCEPT ![c] = @ + 1]
          /\ granted' = [granted EXCEPT ![c][minute] = @ + 1]
          /\ request' = [request EXCEPT ![r] = reserved]
      BY <1>8, <2>2 DEF Asked!Reserve, Asked!Update
    <3>2. reserved \in AskedRequests
      BY <1>1 DEF AskedRequests, Stages
    <3>3. RequestStands(r)'
      <4>1. request'[r] = reserved
        BY <3>1 DEF AskedInv, AskedTyped
      <4>2. Stands(reserved, telemetry[r], epoch)
        BY <1>1, <2>1 DEF RequestStands, Stands, AskedRequests
      <4> HIDE DEF reserved
      <4> QED BY <2>1, <4>1, <4>2 DEF RequestStands
    <3> HIDE DEF reserved
    <3>4. /\ request' \in [Requests -> AskedRequests] /\ DOMAIN telemetry' = Requests
          /\ \A s \in Requests : RequestStands(s)'
      BY <2>1, <3>1, <3>2, <3>3, OthersStand
    <3> HIDE DEF c
    <3>5. AskedTyped'
      <4>1. buckets' \in [Clients -> Nat]
        BY <2>1, <3>1 DEF AskedInv, AskedTyped
      <4>0. granted[c] \in [0..MaxMinutes -> Nat] /\ minute \in 0..MaxMinutes
        BY <2>1 DEF AskedInv, AskedTyped, c
      <4>2. [granted[c] EXCEPT ![minute] = @ + 1] \in [0..MaxMinutes -> Nat]
        BY <4>0, CountOneMore
      <4>3. granted' \in [Clients -> [0..MaxMinutes -> Nat]]
        BY <2>1, <3>1, <4>2 DEF AskedInv, AskedTyped
      <4> QED BY <2>1, <3>4, <4>1, <4>3 DEF AskedInv, AskedTyped
    <3>6. CountsStand'
      <4> SUFFICES ASSUME NEW d \in Clients
                   PROVE  /\ buckets'[d] <= Limit /\ granted'[d][minute] = buckets'[d]
                          /\ \A m \in 0..MaxMinutes :
                               granted'[d][m] <= Limit /\ (m > minute => granted'[d][m] = 0)
        BY <2>1 DEF CountsStand
      <4>1. CASE d = c
        BY <2>1, <2>2, <3>1, <4>1 DEF AskedInv, AskedTyped, CountsStand, Asked!StatQuestionsAssumption
      <4>2. CASE d # c
        <5>1. buckets'[d] = buckets[d] /\ granted'[d] = granted[d]
          BY <2>1, <3>1, <4>2 DEF AskedInv, AskedTyped
        <5> QED BY <5>1 DEF AskedInv, CountsStand
      <4> QED BY <4>1, <4>2
    <3> QED BY <1>2, <2>1, <3>4, <3>5, <3>6 DEF AskedInv, CacheStands
  <2>3. CASE ~(buckets[c] < Limit)
    <3> DEFINE limited == [request[r] EXCEPT !.pc = "done", !.status = "RATE_LIMITED"]
    <3>1. Goes(limited)
      BY <1>2, <1>8, <2>1, <2>3 DEF Asked!Reserve, Asked!Update, Goes, CacheStands
    <3>2. limited \in AskedRequests
      BY <1>1 DEF AskedRequests, Stages, Statuses
    <3>3. Stands(limited, telemetry[r], epoch)
      BY <1>1, <2>1, <3>1 DEF RequestStands, Stands, AskedRequests
    <3> HIDE DEF limited
    <3> QED BY <1>4, <3>1, <3>2, <3>3
  <2> QED BY <2>2, <2>3
<1> QED BY <1>6, <1>7, <1>8, <1>9, <1>10, <1>11, <1>12, <1>13, <1>14, <1>15, <1>16

\* What is so in every behaviour of the part alone.
LEMMA AskedIsSafe ==
  ASSUME Asked!StatQuestionsAssumption
  PROVE  Asked!Spec => []Asked!AnswersAreEarned
<1>1. Asked!Init => AskedInv
  BY AskedInitial
<1>2. AskedInv /\ [Asked!Next]_Asked!statVars => AskedInv'
  <2>1. CASE Asked!Next
    BY <2>1, DataKept, RequestKept DEF Asked!Next
  <2>2. CASE UNCHANGED Asked!statVars
    BY <2>2 DEF Asked!statVars, AskedInv, AskedTyped, CountsStand, CacheStands, RequestStands
  <2> QED BY <2>1, <2>2
<1>3. AskedInv => Asked!AnswersAreEarned
  BY DEF AskedInv, AskedTyped, CountsStand, RequestStands, Stands, Asked!AnswersAreEarned,
         SoundSpec, Asked!AnswersAreCurrent, Asked!ScopesAreApplied, Asked!QuestionsAreCounted
<1> QED BY <1>1, <1>2, <1>3, PTL DEF Asked!Spec

\* A behaviour of the composition is one of the part, or the part is at rest.
LEMMA AskedAlone == PartsSpec => (part = "stats" /\ Asked!Spec) \/ []~(part = "stats")
<1>1. PartsInit => (part = "stats" => Asked!Init)
  BY DEF PartsInit
<1>2. [PartsNext]_partsVars => (part = "stats" => [Asked!Next]_(Asked!statVars))
  BY PartAtWork
<1>3. [PartsNext]_partsVars => ((part = "stats") <=> (part = "stats")')
  BY PartAtWork
<1> QED BY <1>1, <1>2, <1>3, PTL DEF PartsSpec, Asked!Spec

-----------------------------------------------------------------------------
(* The official feed                                                       *)

\* The sequence of a finite set has the places that the set has members.
LEMMA PlacesOfSet ==
  ASSUME NEW S, IsFiniteSet(S)
  PROVE  \E n \in Nat : DOMAIN Client!SetToSeq(S) = 1..n
<1> DEFINE n == Cardinality(S)
<1>1. n \in Nat /\ ExistsBijection(1..n, S)
  BY FS_CardinalityType, FS_NatBijection
<1>2. PICK f \in [1..n -> S] : \A i, j \in 1..n : f[i] = f[j] => i = j
  BY <1>1 DEF ExistsBijection, Bijection, Injection, IsInjective
<1>3. Client!Cardinality(S) = n
  BY Zenon DEF Client!Cardinality, Cardinality
<1>4. Client!IsInjective(f)
  BY <1>2 DEF Client!IsInjective
<1>5. Client!SetToSeq(S) \in [1..n -> S]
  BY <1>2, <1>3, <1>4, Zenon DEF Client!SetToSeq
<1> QED BY <1>1, <1>5

\* An answer has been heard of the phase at this place, and is what its result is.
Heard(i) ==
    /\ Client!Parses(heard[i], requests[i].status)
    /\ results[i] = Client!Observed(heard[i], requests[i].status)

AtRest ==
    requests = <<>> /\ nextIndex = 1 /\ inFlight = {} /\ failure = FALSE

\* Every place before the next is asked for, heard, or given up with the fetch.
UnderWay ==
    /\ \E n \in Nat :
         /\ DOMAIN requests = 1..n /\ DOMAIN results = 1..n /\ DOMAIN heard = 1..n
         /\ nextIndex \in 1..n+1
    /\ inFlight \subseteq 1..nextIndex-1
    /\ \A i \in 1..nextIndex-1 : i \in inFlight \/ failure \/ Heard(i)

FeedInv ==
    /\ fetch \in {"idle", "sessions", "phases", "done"}
    /\ failure \in BOOLEAN
    /\ fetch \in {"idle", "sessions"} => AtRest
    /\ fetch \in {"phases", "done"} => UnderWay
    /\ fetch = "done" =>
         /\ ~failure /\ inFlight = {} /\ nextIndex \notin DOMAIN requests
         /\ Client!Disjoint /\ fetched = Client!All

LEMMA IdleKept ==
  ASSUME Client!Idle
  PROVE  FeedInv'
  BY DEF Client!Idle, FeedInv, AtRest

LEMMA FeedKept ==
  ASSUME Client!OfficialFeedAssumption, FeedInv, Client!Next
  PROVE  FeedInv'
<1> USE DEF FeedInv
<1>1. CASE Client!Begin
  BY <1>1 DEF Client!Begin, AtRest
<1>2. CASE Client!Take
  <2>1. UnderWay'
    BY <1>2 DEF Client!Take, UnderWay, Heard
  <2> QED BY <1>2, <2>1 DEF Client!Take
<1>3. ASSUME NEW i \in inFlight, Client!RequestFails(i) PROVE FeedInv'
  <2>1. fetch = "phases" /\ fetch' = fetch /\ failure' = TRUE
    BY <1>3 DEF Client!RequestFails, AtRest
  <2>2. UnderWay'
    BY <1>3, <2>1 DEF Client!RequestFails, UnderWay, Heard
  <2> QED BY <2>1, <2>2
<1>4. ASSUME NEW i \in inFlight, NEW reports \in Responses, Client!Respond(i, reports)
      PROVE  FeedInv'
  <2>1. /\ fetch = "phases" /\ fetch' = fetch /\ failure' \in BOOLEAN
        /\ (failure => failure') /\ UNCHANGED <<requests, nextIndex>>
        /\ inFlight' = inFlight \ {i} /\ heard' = [heard EXCEPT ![i] = reports]
    BY <1>4 DEF Client!Respond, AtRest
  <2>2. PICK n \in Nat : /\ DOMAIN requests = 1..n /\ DOMAIN results = 1..n
                         /\ DOMAIN heard = 1..n /\ nextIndex \in 1..n+1
    BY <2>1 DEF UnderWay
  <2>3. /\ inFlight \subseteq 1..nextIndex-1
        /\ \A j \in 1..nextIndex-1 : j \in inFlight \/ failure \/ Heard(j)
    BY <2>1 DEF UnderWay
  <2>4. i \in 1..n
    BY <2>2, <2>3
  <2>5. /\ DOMAIN results' = 1..n /\ DOMAIN heard' = 1..n
        /\ \A j \in 1..n : j # i => results'[j] = results[j] /\ heard'[j] = heard[j]
    BY <1>4, <2>1, <2>2 DEF Client!Respond
  <2>6. failure' \/ Heard(i)'
    <3>1. CASE Client!Parses(reports, requests[i].status)
      BY <1>4, <2>1, <2>2, <2>4, <3>1 DEF Client!Respond, Heard
    <3>2. CASE ~Client!Parses(reports, requests[i].status)
      BY <1>4, <3>2 DEF Client!Respond, Client!Refused
    <3> QED BY <3>1, <3>2
  <2>7. ASSUME NEW j \in 1..nextIndex-1 PROVE (j \in inFlight \/ failure \/ Heard(j))'
    <3>1. CASE j = i
      BY <2>6, <3>1
    <3>2. CASE j # i
      <4>1. j \in 1..n
        BY <2>2
      <4> QED BY <2>1, <2>3, <2>5, <3>2, <4>1 DEF Heard
    <3> QED BY <3>1, <3>2
  <2>8. inFlight' \subseteq 1..nextIndex'-1
    BY <2>1, <2>3
  <2>9. UnderWay'
    BY <2>1, <2>2, <2>5, <2>7, <2>8 DEF UnderWay
  <2> QED BY <2>1, <2>9
<1>5. ASSUME NEW listed, NEW wellFormed, Client!Sessions(listed, wellFormed) PROVE FeedInv'
  <2>1. CASE Client!Idle
    BY <2>1, IdleKept
  <2>2. CASE ~Client!Idle
    <3>1. /\ fetch = "sessions" /\ fetch' = "phases" /\ requests' = Client!PhaseRequests(listed)
          /\ results' = [i \in DOMAIN requests' |-> {}] /\ heard' = [i \in DOMAIN requests' |-> {}]
          /\ UNCHANGED <<nextIndex, inFlight, failure>>
      BY <1>5, <2>2 DEF Client!Sessions
    <3>2. IsFiniteSet(Client!Wanted(listed))
      <4>1. Client!IsFiniteSet(Phases) = IsFiniteSet(Phases)
        BY DEF Client!IsFiniteSet, IsFiniteSet
      <4> QED BY <4>1, FS_Subset DEF Client!OfficialFeedAssumption, Client!Wanted
    <3>3. PICK n \in Nat : DOMAIN requests' = 1..n
      BY <3>1, <3>2, PlacesOfSet DEF Client!PhaseRequests
    <3>4. UnderWay'
      BY <3>1, <3>3 DEF UnderWay, AtRest
    <3> QED BY <3>1, <3>4
  <2> QED BY <2>1, <2>2
<1>6. CASE Client!Collect
  <2>1. CASE failure \/ ~Client!Disjoint
    BY <1>6, <2>1, IdleKept DEF Client!Collect
  <2>2. CASE ~failure /\ Client!Disjoint
    <3>1. /\ fetch = "phases" /\ fetch' = "done" /\ fetched' = Client!All /\ Client!WorkersDone
          /\ UNCHANGED <<requests, nextIndex, inFlight, failure, results, heard>>
      BY <1>6, <2>2 DEF Client!Collect
    <3>2. UnderWay' /\ Client!Disjoint' /\ fetched' = (Client!All)'
      BY <2>2, <3>1 DEF UnderWay, Heard, Client!Disjoint, Client!All
    <3> QED BY <2>2, <3>1, <3>2 DEF Client!WorkersDone
  <2> QED BY <2>1, <2>2
<1> QED BY <1>1, <1>2, <1>3, <1>4, <1>5, <1>6, IdleKept
  DEF Client!Next, Client!TimeLimit, Client!TimesOut, Client!Finish, Client!Provider,
      Client!SessionsFail

\* What is so in every behaviour of the part alone.
LEMMA ClientIsSafe ==
  ASSUME Client!OfficialFeedAssumption
  PROVE  Client!Spec => []Client!AnswerIsComplete
<1>1. Client!Init => FeedInv
  BY DEF Client!Init, FeedInv, AtRest
<1>2. FeedInv /\ [Client!Next]_Client!feedVars => FeedInv'
  <2>1. CASE UNCHANGED Client!feedVars
    BY <2>1 DEF Client!feedVars, FeedInv, AtRest, UnderWay, Heard, Client!Disjoint, Client!All
  <2> QED BY <2>1, FeedKept
<1>3. FeedInv => Client!AnswerIsComplete
  <2> SUFFICES ASSUME FeedInv, fetch = "done" PROVE Client!AnswerIsComplete
    BY DEF Client!AnswerIsComplete
  <2>1. \A i \in DOMAIN requests : Heard(i) /\ i \in DOMAIN results
    BY DEF FeedInv, UnderWay
  <2>2. \A i \in DOMAIN requests : \E r \in heard[i] : TRUE
    BY <2>1 DEF Heard, Client!Parses
  <2>3. ASSUME NEW i \in DOMAIN requests, NEW r \in heard[i],
               ~Client!Either(r, "GETTING_READY"), r.unit # "UPCOMING"
        PROVE  {o \in fetched : o.code = r.code} =
                 {[code |-> r.code, status |-> IF r.unit = "COMPLETE" /\ Client!Both(r, "OFFICIAL")
                                               THEN "COMPLETED" ELSE "LIVE"]}
    <3> DEFINE said(q) == [code |-> q.code,
                           status |-> IF Client!IsOfficial(q) THEN "COMPLETED" ELSE "LIVE"]
    <3>1. ~Client!Skipped(r, requests[i].status)
      BY <2>3 DEF Client!Skipped, Client!GettingReady, Client!Both, Client!Either
    <3>2. said(r) \in results[i] /\ said(r).code = r.code
      BY <2>1, <3>1 DEF Heard, Client!Observed
    <3>3. said(r) \in fetched
      BY <2>1, <3>2 DEF FeedInv, Client!All
    <3>4. ASSUME NEW o \in fetched, o.code = r.code PROVE o = said(r)
      <4>1. PICK j \in DOMAIN results : o \in results[j]
        BY DEF FeedInv, Client!All
      <4>2. j = i
        BY <2>1, <3>2, <3>4, <4>1 DEF FeedInv, Client!Disjoint
      <4>3. PICK q \in heard[i] : ~Client!Skipped(q, requests[i].status) /\ o = said(q)
        BY <2>1, <4>1, <4>2 DEF Heard, Client!Observed
      <4>4. q.code = r.code
        BY <3>4, <4>3
      <4>5. q = r
        BY <2>1, <3>1, <4>3, <4>4 DEF Heard, Client!Parses
      <4> QED BY <4>3, <4>5
    <3>5. {o \in fetched : o.code = r.code} = {said(r)}
      <4> HIDE DEF said
      <4> QED BY <3>2, <3>3, <3>4
    <3> QED BY <3>5 DEF Client!IsOfficial
  <2> QED BY <2>2, <2>3 DEF Client!AnswerIsComplete
<1> QED BY <1>1, <1>2, <1>3, PTL DEF Client!Spec

\* A behaviour of the composition is one of the part, or the part is at rest.
LEMMA ClientAlone == PartsSpec => (part = "official" /\ Client!Spec) \/ []~(part = "official")
<1>1. PartsInit => (part = "official" => Client!Init)
  BY DEF PartsInit
<1>2. [PartsNext]_partsVars => (part = "official" => [Client!Next]_(Client!feedVars))
  BY PartAtWork
<1>3. [PartsNext]_partsVars => ((part = "official") <=> (part = "official")')
  BY PartAtWork
<1> QED BY <1>1, <1>2, <1>3, PTL DEF PartsSpec, Client!Spec

\* AnswerIsComplete, for any number of workers and any answers of the provider: a
\* fetch returns every match that has a score in an answer, once and with the
\* status it had, and nothing when a phase failed (fetchPhaseResultsWithConcurrencyTwo).
THEOREM AnswersAreComplete == PartsSpec => []AnswerIsComplete
<1>1. Client!Spec => [](Client!AnswerIsComplete)
  BY ClientIsSafe, PartsAssumption
<1> QED BY <1>1, ClientAlone, PTL DEF AnswerIsComplete

-----------------------------------------------------------------------------
(* The verified database roles                                             *)

Probes ==
    [pc : {"asking", "evaluated", "settled"}, started : Nat, ok : BOOLEAN,
     disturbed : BOOLEAN, expiresAt : Nat]

\* What a verdict says of the time since its probe began.
Says(ok, started, intact, usable, times) ==
    IF ok THEN intact \/ times.intact >= started ELSE ~usable \/ times.usable >= started

\* A probe is not overdue, and what it has found is so or was so since it began.
ProbeHolds(probe, at, intact, usable, times) ==
    /\ probe \in Probes /\ probe.started <= at
    /\ probe.pc # "settled" => at <= probe.started + Timeout
    /\ probe.pc = "settled" =>
         probe.expiresAt <= probe.started + Timeout + Scoped!Life(probe.ok)
    /\ probe.pc # "asking" => Says(probe.ok, probe.started, intact, usable, times)
    /\ probe.disturbed /\ probe.pc # "settled" =>
         Says(FALSE, probe.started, intact, usable, times)

\* VerdictsAreRecent, of one answer.
AnswerHolds(given, at, intact, usable, times) ==
    /\ given.at \in 0..at /\ given.ok \in BOOLEAN
    /\ given.at = at =>
         IF given.ok THEN intact \/ at - times.intact <= Timeout + HealthyLife
         ELSE ~usable \/ at - times.usable <= Timeout + UnhealthyLife

ScopedInv ==
    /\ now \in Nat /\ since \in [usable : 0..now, intact : 0..now]
    /\ reachable \in BOOLEAN
    /\ entry = None \/ ProbeHolds(entry, now, Scoped!Intact, Scoped!Usable, since)
    /\ answer = None \/ AnswerHolds(answer, now, Scoped!Intact, Scoped!Usable, since)

\* The role is as the drift and the target say.
LEMMA RoleKept ==
  ASSUME UNCHANGED <<target, drifted, reachable>>
  PROVE  Scoped!Intact' = Scoped!Intact /\ Scoped!Usable' = Scoped!Usable
  BY DEF Scoped!Intact, Scoped!Usable, Scoped!UsableWith, Scoped!IntactWith, Scoped!TargetOk,
         Scoped!Conditions, Scoped!AnalyticsConditions, Scoped!OperationsConditions

LEMMA RoleChanged ==
  ASSUME ScopedInv, NEW drift, NEW up \in BOOLEAN, Scoped!Change(drift, up)
  PROVE  /\ Scoped!Intact \in BOOLEAN /\ Scoped!Usable \in BOOLEAN
         /\ Scoped!Intact' \in BOOLEAN /\ Scoped!Usable' \in BOOLEAN
         /\ since' = [usable |-> IF Scoped!Usable' = Scoped!Usable THEN since.usable ELSE now,
                      intact |-> IF Scoped!Intact' = Scoped!Intact THEN since.intact ELSE now]
         /\ ~up => ~Scoped!Usable'
<1>1. /\ Scoped!Intact' = Scoped!IntactWith(drift)
      /\ Scoped!Usable' = Scoped!UsableWith(drift, up)
      /\ Scoped!Intact \in BOOLEAN /\ Scoped!Usable \in BOOLEAN
      /\ Scoped!Intact' \in BOOLEAN /\ Scoped!Usable' \in BOOLEAN
  BY DEF Scoped!Change, Scoped!Intact, Scoped!Usable, Scoped!UsableWith, Scoped!IntactWith,
         Scoped!TargetOk, Scoped!Conditions, Scoped!AnalyticsConditions,
         Scoped!OperationsConditions
<1>2. ~up => ~Scoped!Usable'
  BY <1>1 DEF Scoped!UsableWith
<1> QED BY <1>1, <1>2 DEF Scoped!Change

\* A change leaves what was said true, because it is of this instant.
LEMMA ChangeIsRecent ==
  ASSUME NEW at \in Nat, NEW times \in [usable : 0..at, intact : 0..at],
         NEW intact \in BOOLEAN, NEW usable \in BOOLEAN,
         NEW intactNow \in BOOLEAN, NEW usableNow \in BOOLEAN, NEW changed,
         changed = [usable |-> IF usableNow = usable THEN times.usable ELSE at,
                    intact |-> IF intactNow = intact THEN times.intact ELSE at]
  PROVE  /\ changed \in [usable : 0..at, intact : 0..at]
         /\ \A ok \in BOOLEAN, started \in 0..at :
              Says(ok, started, intact, usable, times) =>
                Says(ok, started, intactNow, usableNow, changed)
         /\ \A given : Timeout \in Nat /\ HealthyLife \in Nat /\ UnhealthyLife \in Nat
                       /\ AnswerHolds(given, at, intact, usable, times) =>
                         AnswerHolds(given, at, intactNow, usableNow, changed)
  BY DEF Says, AnswerHolds

\* An answer that is given while what it says was found a short time ago.
LEMMA AnswerIsRecent ==
  ASSUME Scoped!ScopedDatabasesAssumption, NEW at \in Nat, NEW ok \in BOOLEAN,
         NEW started \in 0..at, NEW times \in [usable : 0..at, intact : 0..at],
         NEW intact \in BOOLEAN, NEW usable \in BOOLEAN,
         Says(ok, started, intact, usable, times), at <= started + Timeout + Scoped!Life(ok)
  PROVE  AnswerHolds([ok |-> ok, at |-> at], at, intact, usable, times)
  BY DEF Says, AnswerHolds, Scoped!Life, Scoped!ScopedDatabasesAssumption

LEMMA ScopedKept ==
  ASSUME Scoped!ScopedDatabasesAssumption, ScopedInv, Scoped!Next
  PROVE  ScopedInv'
<1> DEFINE intact == Scoped!Intact
           usable == Scoped!Usable
<1>0. /\ now \in Nat /\ since \in [usable : 0..now, intact : 0..now] /\ reachable \in BOOLEAN
      /\ Timeout \in Nat /\ HealthyLife \in Nat /\ UnhealthyLife \in Nat
      /\ intact \in BOOLEAN /\ usable \in BOOLEAN
      /\ \A ok \in BOOLEAN : Scoped!Life(ok) \in Nat
  BY DEF ScopedInv, Scoped!Life, Scoped!ScopedDatabasesAssumption, Scoped!Intact, Scoped!Usable,
         Scoped!UsableWith, Scoped!IntactWith
<1>1. entry # None =>
        /\ ProbeHolds(entry, now, intact, usable, since)
        /\ entry \in Probes /\ entry.started \in 0..now /\ entry.ok \in BOOLEAN
        /\ entry.expiresAt \in Nat
  <2>1. entry # None => ProbeHolds(entry, now, intact, usable, since)
    BY DEF ScopedInv
  <2>2. entry # None => entry \in Probes /\ entry.started <= now
    BY <2>1 DEF ProbeHolds
  <2>3. entry # None => entry.started \in Nat /\ entry.ok \in BOOLEAN /\ entry.expiresAt \in Nat
    BY <2>2 DEF Probes
  <2> QED BY <1>0, <2>1, <2>2, <2>3
<1>2. answer # None => AnswerHolds(answer, now, intact, usable, since)
  BY DEF ScopedInv
\* The steps of the probe leave the role and the time alone.
<1>3. ASSUME UNCHANGED <<now, target, drifted, reachable, since>>,
             entry' = None \/ ProbeHolds(entry', now, intact, usable, since),
             answer' = None \/ AnswerHolds(answer', now, intact, usable, since)
      PROVE  ScopedInv'
  BY <1>0, <1>3, RoleKept DEF ScopedInv
<1>4. ASSUME NEW drift, NEW up \in BOOLEAN, Scoped!Change(drift, up) PROVE ScopedInv'
  <2> DEFINE intactNow == Scoped!Intact'
             usableNow == Scoped!Usable'
  <2>1. /\ intactNow \in BOOLEAN /\ usableNow \in BOOLEAN /\ (~up => ~usableNow)
        /\ since' = [usable |-> IF usableNow = usable THEN since.usable ELSE now,
                     intact |-> IF intactNow = intact THEN since.intact ELSE now]
    BY <1>4, RoleChanged
  <2>2. UNCHANGED <<now, target, answer>> /\ reachable' \in BOOLEAN
    BY <1>4 DEF Scoped!Change
  <2> HIDE DEF intactNow, usableNow, intact, usable
  <2>3. /\ since' \in [usable : 0..now, intact : 0..now]
        /\ \A ok \in BOOLEAN, started \in 0..now :
             Says(ok, started, intact, usable, since) =>
               Says(ok, started, intactNow, usableNow, since')
        /\ answer # None => AnswerHolds(answer, now, intactNow, usableNow, since')
    BY <1>0, <1>2, <2>1, ChangeIsRecent
  <2>4. entry' = None \/ ProbeHolds(entry', now, intactNow, usableNow, since')
    <3>1. CASE entry # None /\ entry.pc # "settled" /\ ~up
      <4>1. entry' = [entry EXCEPT !.disturbed = TRUE]
        BY <1>4, <3>1 DEF Scoped!Change
      <4>2. /\ entry' \in Probes /\ entry'.pc = entry.pc /\ entry'.started = entry.started
            /\ entry'.ok = entry.ok /\ entry'.expiresAt = entry.expiresAt
        BY <1>1, <3>1, <4>1 DEF Probes
      <4>3. Says(FALSE, entry.started, intactNow, usableNow, since')
        BY <2>1, <3>1 DEF Says
      <4> QED BY <1>1, <2>3, <3>1, <4>2, <4>3 DEF ProbeHolds
    <3>2. CASE entry # None /\ ~(entry.pc # "settled" /\ ~up)
      <4>1. entry' = entry
        BY <1>4, <3>2 DEF Scoped!Change
      <4> QED BY <1>1, <2>3, <3>2, <4>1 DEF ProbeHolds
    <3>3. CASE entry = None
      BY <1>4, <3>3 DEF Scoped!Change
    <3> QED BY <3>1, <3>2, <3>3
  <2> QED BY <1>0, <2>2, <2>3, <2>4 DEF ScopedInv, intactNow, usableNow
\* The end of a probe, whose verdict says what it found.
<1>5. ASSUME NEW ok \in BOOLEAN, Scoped!Settle(ok), entry # None, entry.pc # "settled",
             Says(ok, entry.started, intact, usable, since),
             UNCHANGED <<now, target, drifted, reachable, since>>
      PROVE  ScopedInv'
  <2>1. now <= entry.started + Timeout
    BY <1>1, <1>5 DEF ProbeHolds
  <2>2. /\ entry' = [entry EXCEPT !.pc = "settled", !.ok = ok,
                                  !.expiresAt = now + Scoped!Life(ok)]
        /\ answer' = [ok |-> ok, at |-> now]
    BY <1>5 DEF Scoped!Settle, Scoped!Answers
  <2>3. Scoped!Life(ok) \in Nat
    BY <1>0
  <2>4. /\ entry' \in Probes /\ entry'.pc = "settled" /\ entry'.started = entry.started
        /\ entry'.ok = ok /\ entry'.expiresAt = now + Scoped!Life(ok)
    <3> DEFINE life == Scoped!Life(ok)
    <3>1. now + life \in Nat
      BY <1>0, <2>3
    <3>2. entry \in Probes
      BY <1>1, <1>5
    <3>3. entry' = [entry EXCEPT !.pc = "settled", !.ok = ok, !.expiresAt = now + life]
      BY <2>2
    <3> HIDE DEF life
    <3>4. /\ entry' \in Probes /\ entry'.pc = "settled" /\ entry'.started = entry.started
          /\ entry'.ok = ok /\ entry'.expiresAt = now + life
      BY <3>1, <3>2, <3>3 DEF Probes
    <3> QED BY <3>4 DEF life
  <2> HIDE DEF intact, usable
  <2>5. ProbeHolds(entry', now, intact, usable, since)
    BY <1>0, <1>1, <1>5, <2>1, <2>3, <2>4 DEF ProbeHolds
  <2>6. AnswerHolds([ok |-> ok, at |-> now], now, intact, usable, since)
    <3>1. now <= entry.started + Timeout + Scoped!Life(ok)
      BY <1>0, <1>1, <1>5, <2>1, <2>3
    <3> QED BY <1>0, <1>1, <1>5, <3>1, AnswerIsRecent
  <2> QED BY <1>3, <1>5, <2>2, <2>5, <2>6
<1>6. CASE Scoped!Ask
  <2>1. UNCHANGED <<now, target, drifted, reachable, since>>
    BY <1>6 DEF Scoped!Ask
  <2>2. CASE Scoped!Join
    <3>1. entry # None /\ entry.expiresAt > now /\ entry' = entry
      BY <2>2 DEF Scoped!Join, Scoped!IsValid
    <3>2. CASE entry.pc = "settled"
      <4>1. answer' = [ok |-> entry.ok, at |-> now]
        BY <2>2, <3>2 DEF Scoped!Join, Scoped!Answers
      <4> HIDE DEF intact, usable
      <4>2. /\ Says(entry.ok, entry.started, intact, usable, since)
            /\ entry.expiresAt <= entry.started + Timeout + Scoped!Life(entry.ok)
        BY <1>1, <3>1, <3>2 DEF ProbeHolds
      <4>3. now <= entry.started + Timeout + Scoped!Life(entry.ok)
        BY <1>0, <1>1, <3>1, <4>2
      <4>4. AnswerHolds([ok |-> entry.ok, at |-> now], now, intact, usable, since)
        BY <1>0, <1>1, <3>1, <4>2, <4>3, AnswerIsRecent
      <4> QED BY <1>1, <1>3, <2>1, <3>1, <4>1, <4>4
    <3>3. CASE entry.pc # "settled"
      <4>1. answer' = answer
        BY <2>2, <3>3 DEF Scoped!Join
      <4> QED BY <1>1, <1>2, <1>3, <2>1, <3>1, <4>1
    <3> QED BY <3>2, <3>3
  <2>3. CASE Scoped!Start /\ Scoped!TargetOk
    <3>1. entry' = Scoped!Probe("asking") /\ answer' = answer
      BY <2>3 DEF Scoped!Start
    <3>2. ~reachable => ~usable
      BY DEF Scoped!Usable, Scoped!UsableWith
    <3> HIDE DEF intact, usable
    <3>3. /\ entry' \in Probes /\ entry'.pc = "asking" /\ entry'.started = now
          /\ entry'.disturbed = ~reachable
      BY <1>0, <3>1 DEF Scoped!Probe, Probes
    <3>4. ProbeHolds(entry', now, intact, usable, since)
      <4>1. now <= entry'.started /\ now <= entry'.started + Timeout /\ entry'.started <= now
        BY <1>0, <3>3
      <4>2. entry'.disturbed => Says(FALSE, entry'.started, intact, usable, since)
        BY <3>2, <3>3 DEF Says
      <4> QED BY <3>3, <4>1, <4>2 DEF ProbeHolds
    <3> QED BY <1>2, <1>3, <2>1, <3>1, <3>4
  <2>4. CASE Scoped!Start /\ ~Scoped!TargetOk
    <3>1. entry' = Scoped!Probe("settled") /\ answer' = [ok |-> FALSE, at |-> now]
      BY <2>4 DEF Scoped!Start, Scoped!Answers
    <3>2. ~usable
      BY <2>4 DEF Scoped!Usable, Scoped!UsableWith
    <3> HIDE DEF intact, usable
    <3>3. /\ entry' \in Probes /\ entry'.pc = "settled" /\ entry'.started = now
          /\ entry'.ok = FALSE /\ entry'.expiresAt = now + UnhealthyLife
      BY <1>0, <3>1 DEF Scoped!Probe, Probes
    <3>4. ProbeHolds(entry', now, intact, usable, since)
      BY <1>0, <3>2, <3>3 DEF ProbeHolds, Says, Scoped!Life
    <3>5. AnswerHolds(answer', now, intact, usable, since)
      BY <1>0, <3>1, <3>2 DEF AnswerHolds
    <3> QED BY <1>3, <2>1, <3>4, <3>5
  <2> QED BY <1>6, <2>2, <2>3, <2>4 DEF Scoped!Ask
<1>7. CASE Scoped!Evaluate
  <2>1. /\ entry # None /\ entry.pc = "asking"
        /\ UNCHANGED <<now, target, drifted, reachable, answer, since>>
        /\ entry' = [entry EXCEPT !.pc = "evaluated", !.ok = intact]
    BY <1>7 DEF Scoped!Evaluate
  <2>2. ~intact => ~usable
    BY DEF Scoped!Usable, Scoped!UsableWith, Scoped!Intact
  <2> HIDE DEF intact, usable
  <2>3. /\ entry' \in Probes /\ entry'.pc = "evaluated" /\ entry'.started = entry.started
        /\ entry'.ok = intact /\ entry'.disturbed = entry.disturbed
    BY <1>0, <1>1, <2>1 DEF Probes
  <2>4. ProbeHolds(entry', now, intact, usable, since)
    BY <1>0, <1>1, <2>1, <2>2, <2>3 DEF ProbeHolds, Says
  <2> QED BY <1>2, <1>3, <2>1, <2>4
<1>8. CASE Scoped!Reply
  <2>1. /\ Scoped!Settle(entry.ok) /\ entry # None /\ entry.pc = "evaluated"
        /\ UNCHANGED <<now, target, drifted, reachable, since>>
    BY <1>8 DEF Scoped!Reply
  <2>2. Says(entry.ok, entry.started, intact, usable, since)
    BY <1>1, <2>1 DEF ProbeHolds
  <2> QED BY <1>1, <1>5, <2>1, <2>2
<1>9. CASE Scoped!Fail
  <2>1. /\ Scoped!Settle(FALSE) /\ entry # None /\ entry.pc \in {"asking", "evaluated"}
        /\ entry.disturbed /\ UNCHANGED <<now, target, drifted, reachable, since>>
    BY <1>9 DEF Scoped!Fail
  <2>2. Says(FALSE, entry.started, intact, usable, since)
    BY <1>1, <2>1 DEF ProbeHolds
  <2> QED BY <1>5, <2>1, <2>2
<1>10. CASE Scoped!Tick
  <2>1. /\ now' = now + 1 /\ ~Scoped!Overdue
        /\ UNCHANGED <<target, drifted, reachable, entry, answer, since>>
    BY <1>10 DEF Scoped!Tick
  <2>2. Scoped!Intact' = intact /\ Scoped!Usable' = usable
    BY <2>1, RoleKept
  <2>3. entry # None => ~(entry.pc # "settled" /\ now = entry.started + Timeout)
    BY <2>1 DEF Scoped!Overdue
  <2> HIDE DEF intact, usable
  <2>4. since' \in [usable : 0..now', intact : 0..now']
    BY <1>0, <2>1
  <2>5. ASSUME entry # None PROVE ProbeHolds(entry, now + 1, intact, usable, since)
    <3>1. /\ ProbeHolds(entry, now, intact, usable, since) /\ entry.started \in 0..now
          /\ ~(entry.pc # "settled" /\ now = entry.started + Timeout)
      BY <1>1, <2>3, <2>5
    <3>2. entry.started <= now + 1 /\ (entry.pc # "settled" => now + 1 <= entry.started + Timeout)
      <4>1. entry.pc # "settled" => now <= entry.started + Timeout
        BY <3>1 DEF ProbeHolds
      <4> QED BY <1>0, <3>1, <4>1
    <3> QED BY <3>1, <3>2 DEF ProbeHolds
  <2>6. ASSUME answer # None PROVE AnswerHolds(answer, now + 1, intact, usable, since)
    BY <1>0, <1>2, <2>6 DEF AnswerHolds
  <2> QED BY <1>0, <2>1, <2>2, <2>4, <2>5, <2>6 DEF ScopedInv
<1> QED BY <1>0, <1>4, <1>6, <1>7, <1>8, <1>9, <1>10
  DEF Scoped!Next, Scoped!Interrupt, Scoped!Drift

\* VerdictsAreRecent, for any timeout shorter than the lives of the verdicts: when
\* an answer says that the role can be used, it could be no longer ago than a
\* probe and the life of a good verdict, and when it says not, no longer ago than
\* a probe and the life of a bad one (scoped-database-boundary.ts).
LEMMA ScopedIsSafe ==
  ASSUME Scoped!ScopedDatabasesAssumption
  PROVE  Scoped!Spec => []Scoped!VerdictsAreRecent
<1>1. Scoped!Init => ScopedInv
  <2> SUFFICES ASSUME Scoped!Init PROVE ScopedInv
    OBVIOUS
  <2>1. now = 0 /\ since = [usable |-> 0, intact |-> 0] /\ reachable \in BOOLEAN
        /\ entry = None /\ answer = None
    BY DEF Scoped!Init
  <2>2. now \in Nat /\ since \in [usable : 0..now, intact : 0..now]
    BY <2>1
  <2> QED BY <2>1, <2>2 DEF ScopedInv
<1>2. ScopedInv /\ [Scoped!Next]_Scoped!scopedVars => ScopedInv'
  <2>1. ScopedInv /\ UNCHANGED Scoped!scopedVars => ScopedInv'
    BY RoleKept DEF Scoped!scopedVars, ScopedInv
  <2> QED BY <2>1, ScopedKept
<1>3. ScopedInv => Scoped!VerdictsAreRecent
  BY DEF ScopedInv, AnswerHolds, Scoped!VerdictsAreRecent
<1> QED BY <1>1, <1>2, <1>3, PTL DEF Scoped!Spec

\* A behaviour of the composition is one of the part, or the part is at rest.
LEMMA ScopedAlone == PartsSpec => (part = "scoped" /\ Scoped!Spec) \/ []~(part = "scoped")
<1>1. PartsInit => (part = "scoped" => Scoped!Init)
  BY DEF PartsInit
<1>2. [PartsNext]_partsVars => (part = "scoped" => [Scoped!Next]_(Scoped!scopedVars))
  BY PartAtWork
<1>3. [PartsNext]_partsVars => ((part = "scoped") <=> (part = "scoped")')
  BY PartAtWork
<1> QED BY <1>1, <1>2, <1>3, PTL DEF PartsSpec, Scoped!Spec

-----------------------------------------------------------------------------
(* The pages of an edition                                                 *)

\* A finite set has a member that comes before no other, of any order.
LEMMA LeastExists ==
  ASSUME NEW S, IsFiniteSet(S), S # {}, NEW R,
         \A x \in S : <<x, x>> \notin R,
         \A x, y, z \in S : <<x, y>> \in R /\ <<y, z>> \in R => <<x, z>> \in R
  PROVE  \E e \in S : \A d \in S : <<d, e>> \notin R
<1> DEFINE Below(e) == {d \in S : <<d, e>> \in R}
           family == {Below(e) : e \in S}
<1>1. family \subseteq FiniteSubsetsOf(S) /\ family # {}
  <2>1. \A T \in SUBSET S : IsFiniteSet(T)
    BY FS_Subset
  <2>2. \A e : Below(e) \subseteq S
    OBVIOUS
  <2>3. family \subseteq SUBSET S
    BY <2>2
  <2>4. PICK e \in S : TRUE
    OBVIOUS
  <2>5. Below(e) \in family
    BY <2>4
  <2>6. family # {}
    BY <2>5
  <2> HIDE DEF family
  <2> QED BY <2>1, <2>3, <2>6 DEF FiniteSubsetsOf
<1>2. IsWellFoundedOn(StrictSubsetOrdering(S), FiniteSubsetsOf(S))
  BY FS_StrictSubsetOrderingWellFounded
<1>3. PICK T \in family : \A U \in family : ~(<<U, T>> \in StrictSubsetOrdering(S))
  <2> HIDE DEF family
  <2> QED BY <1>1, <1>2, WFMin
<1>4. PICK e \in S : T = Below(e)
  OBVIOUS
<1>5. ASSUME NEW d \in S, <<d, e>> \in R PROVE FALSE
  <2>1. Below(d) \subseteq Below(e) /\ d \in Below(e) /\ d \notin Below(d)
    BY <1>5
  <2>2. <<Below(d), Below(e)>> \in StrictSubsetOrdering(S)
    BY <2>1 DEF StrictSubsetOrdering
  <2> QED BY <1>3, <1>4, <2>2
<1> QED BY <1>5

\* The greatest and the least of some numbers.
LEMMA MaxMinExist ==
  ASSUME NEW S, IsFiniteSet(S), S # {}, S \subseteq Nat
  PROVE  /\ Shown!Max(S) \in S /\ \A y \in S : y <= Shown!Max(S)
         /\ Shown!Min(S) \in S /\ \A y \in S : Shown!Min(S) <= y
<1>1. \E x \in S : \A y \in S : x >= y
  <2> DEFINE R == {w \in S \X S : w[1] > w[2]}
  <2>1. \A x \in S : <<x, x>> \notin R
    OBVIOUS
  <2>2. \A x, y, z \in S : <<x, y>> \in R /\ <<y, z>> \in R => <<x, z>> \in R
    OBVIOUS
  <2>3. PICK e \in S : \A d \in S : <<d, e>> \notin R
    <3> HIDE DEF R
    <3> QED BY <2>1, <2>2, LeastExists
  <2>4. ASSUME NEW d \in S PROVE e >= d
    <3>1. d \in Nat /\ e \in Nat /\ <<d, e>> \in S \X S
      OBVIOUS
    <3>2. ~(d > e)
      BY <2>3, <3>1
    <3> QED BY <3>1, <3>2
  <2> QED BY <2>4
<1>2. \E x \in S : \A y \in S : x <= y
  <2> DEFINE R == {w \in S \X S : w[1] < w[2]}
  <2>1. \A x \in S : <<x, x>> \notin R
    OBVIOUS
  <2>2. \A x, y, z \in S : <<x, y>> \in R /\ <<y, z>> \in R => <<x, z>> \in R
    OBVIOUS
  <2>3. PICK e \in S : \A d \in S : <<d, e>> \notin R
    <3> HIDE DEF R
    <3> QED BY <2>1, <2>2, LeastExists
  <2>4. ASSUME NEW d \in S PROVE e <= d
    <3>1. d \in Nat /\ e \in Nat /\ <<d, e>> \in S \X S
      OBVIOUS
    <3>2. ~(d < e)
      BY <2>3, <3>1
    <3> QED BY <3>1, <3>2
  <2> QED BY <2>4
<1>3. Shown!Max(S) \in S /\ \A y \in S : Shown!Max(S) >= y
  BY <1>1 DEF Shown!Max
<1>4. Shown!Min(S) \in S /\ \A y \in S : Shown!Min(S) <= y
  BY <1>2 DEF Shown!Min
<1> QED BY <1>3, <1>4

\* What is offered first is one of what is offered.
LEMMA OrderIsStrict ==
  ASSUME Shown!EditionPagesAssumption
  PROVE  /\ \A e \in Editions : ~Shown!OfferedBefore(e, e)
         /\ \A d, e, f \in Editions :
              Shown!OfferedBefore(d, e) /\ Shown!OfferedBefore(e, f) => Shown!OfferedBefore(d, f)
         /\ \A d, e \in Editions :
              d # e => Shown!OfferedBefore(d, e) \/ Shown!OfferedBefore(e, d)
<1>1. ASSUME NEW e \in Editions
      PROVE  Shown!ActivityGroup(e) \in Nat /\ Shown!Recency(e) \in Int /\ e \in Nat
  <2> DEFINE start == Season[e][1]
             end == Season[e][2]
  <2>1. start \in Nat \cup {None} /\ end \in Nat \cup {None} /\ e \in Nat
    BY DEF Shown!EditionPagesAssumption
  <2>2. Shown!ActivityGroup(e) \in 0..3
    BY <2>1 DEF Shown!ActivityGroup
  <2>3. Shown!ActivityGroup(e) \in {0, 1} => start \in Nat
    BY <2>1 DEF Shown!ActivityGroup
  <2>4. Shown!ActivityGroup(e) = 2 => end \in Nat
    BY <2>1 DEF Shown!ActivityGroup
  <2> HIDE DEF start, end
  <2>5. Shown!Recency(e) \in Int
    BY <2>2, <2>3, <2>4 DEF Shown!Recency, start, end
  <2> QED BY <2>1, <2>2, <2>5
<1> QED BY <1>1 DEF Shown!OfferedBefore

LEMMA FirstIsOffered ==
  ASSUME Shown!EditionPagesAssumption, NEW offered, offered \subseteq Editions
  PROVE  Shown!FirstOffered(offered) \in offered \cup {None}
<1> SUFFICES ASSUME offered # {} PROVE Shown!FirstOffered(offered) \in offered
  BY DEF Shown!FirstOffered
<1> DEFINE R == {w \in Editions \X Editions : Shown!OfferedBefore(w[1], w[2])}
<1>1. IsFiniteSet(offered)
  <2>1. Shown!IsFiniteSet(Editions) = IsFiniteSet(Editions)
    BY DEF Shown!IsFiniteSet, IsFiniteSet
  <2> QED BY <2>1, FS_Subset DEF Shown!EditionPagesAssumption
<1>2. \A x, y \in offered : <<x, y>> \in R <=> Shown!OfferedBefore(x, y)
  OBVIOUS
<1> HIDE DEF R
<1>3. PICK e \in offered : \A d \in offered : <<d, e>> \notin R
  <2>1. \A x \in offered : <<x, x>> \notin R
    BY <1>2, OrderIsStrict
  <2>2. \A x, y, z \in offered : <<x, y>> \in R /\ <<y, z>> \in R => <<x, z>> \in R
    BY <1>2, OrderIsStrict
  <2> QED BY <1>1, <2>1, <2>2, LeastExists
<1>4. \A d \in offered \ {e} : Shown!OfferedBefore(e, d)
  BY <1>2, <1>3, OrderIsStrict
<1> QED BY <1>4 DEF Shown!FirstOffered

EditionStates == [Editions -> Shown!Statuses]

PageStates ==
    [kind : Shown!Kinds \cup {"none"}, edition : Editions \cup {None},
     pc : {"idle", "resolve", "rows", "access", "snapshot", "walk", "directory", "strict", "done"},
     snapshot : EditionStates \cup {None}, cursor : Editions \cup {None},
     chosen : Editions \cup {None}, names : SUBSET Editions,
     row : Shown!MatchStates \cup {None},
     shown : SUBSET [edition : Editions, score : Shown!MatchStates \cup {None}]]

CachedRows == [Editions -> Shown!MatchStates \cup {None}]

PagesTyped(s, m, c, p, was) ==
    /\ s \in EditionStates
    /\ m \in [Editions -> Shown!MatchStates]
    /\ c \in [schedule : CachedRows, team : CachedRows, directory : (SUBSET Editions) \cup {None}]
    /\ p \in PageStates
    /\ was \subseteq Editions

\* A request has seen all that was ready since it began.
Seen(s, p, was) == p.pc # "idle" => Shown!Ready(s) \subseteq was

Newest(s) == IF Shown!Ready(s) = {} THEN None ELSE Shown!Max(Shown!Ready(s))

\* The walk over a snapshot has passed none that was ready in it.
WalkStands(p) ==
    /\ (p.pc \in {"snapshot", "walk"} =>
          p.kind = "live" /\ p.chosen = None)
    /\ (p.pc = "snapshot" => p.cursor = None)
    /\ (p.pc = "walk" =>
          /\ p.snapshot \in EditionStates
          /\ (p.cursor # None => \A e \in Shown!Ready(p.snapshot) : e < p.cursor))
    /\ (p.kind = "live" /\ p.pc \in {"rows", "done"} => p.chosen = Newest(p.snapshot))

\* What a request chose, keeps and shows was ready since it began.
PageStands(p, was) ==
    /\ (p.pc = "idle" => p.kind = "none")
    /\ (p.pc # "done" => p.shown = {} /\ (p.kind = "none" => p.pc = "idle"))
    /\ (p.pc = "resolve" => p.kind \notin {"live", "directory"})
    /\ (p.pc \in {"directory", "strict"} => p.kind = "directory")
    /\ (p.pc = "walk" => Shown!Ready(p.snapshot) \subseteq was)
    /\ (p.pc = "strict" => p.names \ Strict \subseteq was)
    /\ (p.pc \in {"rows", "access"} => p.chosen \in was)
    /\ (p.pc = "access" => p.row \in Shown!MatchStates /\ p.kind \in {"bracket", "team"})
    /\ (p.kind # "none" => {card.edition : card \in p.shown} \subseteq was)
    /\ (p.kind # "bracket" => \A card \in p.shown : card.score # "SCHEDULED")

PagesInv ==
    /\ PagesTyped(status, match, cached, page, wasReady)
    /\ Seen(status, page, wasReady)
    /\ WalkStands(page)
    /\ PageStands(page, wasReady)

LEMMA PagesInitial ==
  ASSUME Shown!EditionPagesAssumption, Shown!Init
  PROVE  PagesInv
<1>1. PICK s \in EditionStates : Shown!InitWith(s)
  BY DEF Shown!Init, EditionStates
<1>2. /\ status = s /\ match = [e \in Editions |-> "SCHEDULED"]
      /\ cached = [schedule |-> [e \in Editions |-> None],
                   team |-> [e \in Editions |-> None], directory |-> None]
      /\ page = Shown!NoPage /\ wasReady = {}
  BY <1>1 DEF Shown!InitWith
<1>3. PagesTyped(status, match, cached, page, wasReady)
  <2>1. page \in PageStates
    BY <1>2 DEF Shown!NoPage, PageStates
  <2>2. cached \in [schedule : CachedRows, team : CachedRows, directory : (SUBSET Editions) \cup {None}]
    BY <1>2 DEF CachedRows
  <2> QED BY <1>2, <2>1, <2>2 DEF PagesTyped, Shown!MatchStates
<1> QED BY <1>2, <1>3 DEF PagesInv, Seen, WalkStands, PageStands, Shown!NoPage

\* What was ready is only added to while a request is under way.
LEMMA WorldKeepsPages ==
  ASSUME Shown!EditionPagesAssumption, PagesInv, Shown!World
  PROVE  PagesInv'
<1>0. /\ PagesTyped(status, match, cached, page, wasReady) /\ Seen(status, page, wasReady)
      /\ WalkStands(page) /\ PageStands(page, wasReady)
  BY DEF PagesInv
<1>1. CASE Shown!Expire
  <2>1. UNCHANGED <<status, match, page, wasReady>>
    BY <1>1 DEF Shown!Expire
  <2>2. cached' \in [schedule : CachedRows, team : CachedRows, directory : (SUBSET Editions) \cup {None}]
    BY <1>0, <1>1 DEF Shown!Expire, PagesTyped, CachedRows
  <2> QED BY <1>0, <2>1, <2>2 DEF PagesInv, PagesTyped
<1>2. ASSUME Shown!Change, status' \in EditionStates, match' \in [Editions -> Shown!MatchStates]
      PROVE  PagesInv'
  <2>1. /\ wasReady' = wasReady \cup Shown!Ready(status') /\ cached' = cached /\ page' = page
    BY <1>2 DEF Shown!Change
  <2>2. Shown!Ready(status') \subseteq Editions
    BY DEF Shown!Ready
  <2>3. PagesTyped(status', match', cached', page', wasReady')
    BY <1>0, <1>2, <2>1, <2>2 DEF PagesTyped
  <2>4. PageStands(page', wasReady')
    BY <1>0, <2>1 DEF PageStands
  <2> QED BY <1>0, <2>1, <2>3, <2>4 DEF PagesInv, Seen
<1>3. ASSUME NEW e \in Editions, Shown!Advance(e) PROVE PagesInv'
  <2>1. match' \in [Editions -> Shown!MatchStates] /\ status' = status
    BY <1>0, <1>3 DEF Shown!Advance, PagesTyped, Shown!MatchStates
  <2> QED BY <1>0, <1>2, <1>3, <2>1 DEF Shown!Advance, PagesTyped
<1>4. ASSUME NEW e \in Editions, NEW s \in Shown!Statuses, Shown!Republish(e, s) PROVE PagesInv'
  <2>1. status' \in EditionStates /\ match' = match
    BY <1>0, <1>4 DEF Shown!Republish, PagesTyped, EditionStates
  <2> QED BY <1>0, <1>2, <1>4, <2>1 DEF Shown!Republish, PagesTyped
<1> QED BY <1>1, <1>3, <1>4 DEF Shown!World

LEMMA AskKeepsPages ==
  ASSUME Shown!EditionPagesAssumption, PagesInv,
         NEW kind \in Shown!Kinds, NEW e \in Editions \cup {None}, Shown!Ask(kind, e)
  PROVE  PagesInv'
<1>1. /\ PagesTyped(status, match, cached, page, wasReady)
  BY DEF PagesInv
<1>2. UNCHANGED <<status, match, cached>> /\ wasReady' = Shown!Ready(status)
  BY DEF Shown!Ask
<1>3. PICK pc \in {"snapshot", "directory", "resolve"} :
        /\ page' = [Shown!NoPage EXCEPT !.kind = kind, !.edition = e, !.pc = pc]
        /\ (pc = "snapshot" <=> kind = "live") /\ (pc = "directory" <=> kind = "directory")
  BY DEF Shown!Ask
<1>4. page' \in PageStates
  BY <1>3 DEF PageStates, Shown!NoPage
<1>5. Shown!Ready(status) \subseteq Editions
  BY DEF Shown!Ready
<1>6. kind # "none"
  BY DEF Shown!Kinds
<1>7. /\ page'.kind = kind /\ page'.pc = pc /\ page'.shown = {} /\ page'.chosen = None
      /\ page'.cursor = None
  BY <1>3 DEF Shown!NoPage
<1>8. PageStands(page', wasReady') /\ WalkStands(page')
  BY <1>3, <1>6, <1>7 DEF PageStands, WalkStands
<1> QED BY <1>1, <1>2, <1>4, <1>5, <1>8 DEF PagesInv, PagesTyped, Seen

\* A step of a request that leaves the editions as they are keeps the invariant
\* when it keeps the parts about the page.
LEMMA PageStepKept ==
  ASSUME PagesInv, Shown!Unread, page.pc # "idle", page' \in PageStates,
         cached' \in [schedule : CachedRows, team : CachedRows, directory : (SUBSET Editions) \cup {None}],
         WalkStands(page'), PageStands(page', wasReady)
  PROVE  PagesInv'
BY DEF PagesInv, PagesTyped, Seen, Shown!Unread

\* A request that ends shows what stood, of the edition it chose.
LEMMA ShowsKept ==
  ASSUME PagesInv, Shown!Unread, page.pc \notin {"idle", "done"},
         cached' \in [schedule : CachedRows, team : CachedRows, directory : (SUBSET Editions) \cup {None}],
         NEW cards, Shown!Shows(cards),
         cards \subseteq [edition : Editions, score : Shown!MatchStates \cup {None}],
         \A card \in cards : card.edition \in wasReady,
         page.kind # "bracket" => \A card \in cards : card.score # "SCHEDULED",
         page.kind = "live" => page.pc = "rows"
  PROVE  PagesInv'
<1>1. page \in PageStates /\ WalkStands(page) /\ PageStands(page, wasReady)
  BY DEF PagesInv, PagesTyped
<1>2. page' = [page EXCEPT !.pc = "done", !.shown = cards]
  BY DEF Shown!Shows
<1>3. page' \in PageStates
  BY <1>1, <1>2 DEF PageStates
<1>4. /\ page'.pc = "done" /\ page'.shown = cards /\ page'.kind = page.kind
      /\ page'.chosen = page.chosen /\ page'.snapshot = page.snapshot
  BY <1>1, <1>2 DEF PageStates
<1>5. WalkStands(page')
  BY <1>1, <1>4 DEF WalkStands
<1>6. PageStands(page', wasReady)
  BY <1>1, <1>4 DEF PageStands
<1> QED BY <1>3, <1>5, <1>6, PageStepKept

\* One that goes on has chosen what was ready.
LEMMA ContinueKept ==
  ASSUME PagesInv, Shown!Unread, page.pc \in {"resolve", "walk"}, cached' = cached,
         NEW e \in Editions \cup {None}, Shown!Continue(e),
         e # None => e \in wasReady,
         page.kind = "live" => e = Newest(page.snapshot)
  PROVE  PagesInv'
<1>1. page \in PageStates /\ WalkStands(page) /\ PageStands(page, wasReady)
  BY DEF PagesInv, PagesTyped
<1>2. /\ (e = None => page' = [page EXCEPT !.pc = "done", !.shown = {}])
      /\ (e # None => page' = [page EXCEPT !.chosen = e, !.pc = "rows"])
  BY DEF Shown!Continue, Shown!Shows
<1>3. page' \in PageStates
  BY <1>1, <1>2 DEF PageStates
<1>4. /\ page'.kind = page.kind /\ page'.snapshot = page.snapshot /\ page'.shown = {}
      /\ (e = None => page'.pc = "done" /\ page'.chosen = page.chosen)
      /\ (e # None => page'.pc = "rows" /\ page'.chosen = e)
  BY <1>1, <1>2 DEF PageStates, PageStands
<1>5. WalkStands(page')
  <2>1. page.kind = "live" => page.pc = "walk" /\ page.chosen = None
    BY <1>1 DEF WalkStands, PageStands
  <2>2. page'.kind = "live" => page'.chosen = Newest(page'.snapshot)
    BY <1>4, <2>1
  <2> QED BY <1>4, <2>2 DEF WalkStands
<1>6. PageStands(page', wasReady)
  <2>1. page.kind # "none"
    BY <1>1 DEF PageStands
  <2>2. CASE e = None
    BY <1>4, <2>1, <2>2 DEF PageStands
  <2>3. CASE e # None
    BY <1>4, <2>1, <2>3 DEF PageStands
  <2> QED BY <2>2, <2>3
<1>7. cached' \in [schedule : CachedRows, team : CachedRows, directory : (SUBSET Editions) \cup {None}]
  BY DEF PagesInv, PagesTyped
<1> QED BY <1>1, <1>3, <1>5, <1>6, <1>7, PageStepKept

LEMMA ResolveKept ==
  ASSUME Shown!EditionPagesAssumption, PagesInv, Shown!Resolve
  PROVE  PagesInv'
<1>1. page \in PageStates /\ PageStands(page, wasReady) /\ Seen(status, page, wasReady)
  BY DEF PagesInv, PagesTyped
<1>2. page.pc = "resolve" /\ Shown!Unread /\ cached' = cached
  BY DEF Shown!Resolve
<1> DEFINE e == Shown!Selected(Shown!PublicEditions)
<1>3. Shown!Continue(e)
  BY DEF Shown!Resolve
<1>4. Shown!PublicEditions \subseteq Editions /\ Shown!PublicEditions \subseteq wasReady
  BY <1>1, <1>2 DEF Shown!PublicEditions, Shown!Ready, Seen
<1>5. e \in Shown!PublicEditions \cup {None}
  <2>1. Shown!FirstOffered(Shown!PublicEditions) \in Shown!PublicEditions \cup {None}
    BY <1>4, FirstIsOffered
  <2>2. Shown!FirstOffered(Shown!PublicEditions \cap Leagues) \in Shown!PublicEditions \cup {None}
    BY <1>4, FirstIsOffered
  <2>3. "home" \notin Shown!Named
    BY DEF Shown!Named
  <2> QED BY <2>1, <2>2, <2>3 DEF Shown!Selected
<1> HIDE DEF e
<1>6. page.kind # "live"
  BY <1>1, <1>2 DEF PageStands
<1>7. e \in Editions \cup {None} /\ (e # None => e \in wasReady)
  BY <1>4, <1>5
<1> QED BY <1>2, <1>3, <1>6, <1>7, ContinueKept

\* A cached row is one of the match, and so is one that is read.
LEMMA RowIsTyped ==
  ASSUME Shown!EditionPagesAssumption, PagesInv, page.chosen \in Editions,
         NEW kind \in {"schedule", "team"}
  PROVE  /\ Shown!CachedRow(kind) \in Shown!MatchStates
         /\ Shown!Keep(kind) =>
              cached' \in [schedule : CachedRows, team : CachedRows, directory : (SUBSET Editions) \cup {None}]
<1>1. /\ match \in [Editions -> Shown!MatchStates]
      /\ cached \in [schedule : CachedRows, team : CachedRows, directory : (SUBSET Editions) \cup {None}]
  BY DEF PagesInv, PagesTyped
<1>2. cached[kind] \in CachedRows
  BY <1>1
<1>3. Shown!CachedRow(kind) \in Shown!MatchStates
  BY <1>1, <1>2 DEF Shown!CachedRow, CachedRows
<1>4. ASSUME Shown!Keep(kind)
      PROVE  cached' \in [schedule : CachedRows, team : CachedRows, directory : (SUBSET Editions) \cup {None}]
  <2>1. cached' = [cached EXCEPT ![kind][page.chosen] = Shown!CachedRow(kind)]
    BY <1>4 DEF Shown!Keep
  <2> DEFINE row == Shown!CachedRow(kind)
  <2>2. [cached[kind] EXCEPT ![page.chosen] = row] \in CachedRows
    BY <1>2, <1>3 DEF CachedRows
  <2> HIDE DEF row
  <2>3. cached' = [cached EXCEPT ![kind] = [cached[kind] EXCEPT ![page.chosen] = row]]
    BY <1>1, <1>2, <2>1 DEF row
  <2> QED BY <1>1, <2>2, <2>3
<1> QED BY <1>3, <1>4

\* What a page shows of a row: the edition, and a score that is one.
LEMMA CardStands ==
  ASSUME Shown!EditionPagesAssumption, NEW e \in Editions, NEW row \in Shown!MatchStates
  PROVE  /\ Shown!Card(e, Shown!ScoreIf(Shown!HasScore(row), row)) \in
              [edition : Editions, score : Shown!MatchStates \cup {None}]
         /\ Shown!Card(e, Shown!ScoreIf(Shown!HasScore(row), row)).edition = e
         /\ Shown!Card(e, Shown!ScoreIf(Shown!HasScore(row), row)).score # "SCHEDULED"
         /\ Shown!Card(e, None) \in [edition : Editions, score : Shown!MatchStates \cup {None}]
         /\ Shown!Card(e, None).edition = e /\ Shown!Card(e, None).score # "SCHEDULED"
<1>1. None # "SCHEDULED"
  BY DEF Shown!EditionPagesAssumption
<1>2. Shown!ScoreIf(Shown!HasScore(row), row) \in (Shown!MatchStates \ {"SCHEDULED"}) \cup {None}
  BY DEF Shown!ScoreIf, Shown!HasScore, Shown!MatchStates
<1> QED BY <1>1, <1>2 DEF Shown!Card

LEMMA RowsKept ==
  ASSUME Shown!EditionPagesAssumption, PagesInv,
         Shown!ShowSchedule \/ Shown!ShowHome \/ Shown!ShowHub \/ Shown!ShowTable
  PROVE  PagesInv'
<1>1. /\ page.pc = "rows" /\ Shown!Unread
      /\ Shown!ShowSchedule \/ cached' = cached
  BY DEF Shown!ShowSchedule, Shown!ShowHome, Shown!ShowHub, Shown!ShowTable
<1>2. /\ page \in PageStates /\ PageStands(page, wasReady) /\ wasReady \subseteq Editions
      /\ match \in [Editions -> Shown!MatchStates]
      /\ cached \in [schedule : CachedRows, team : CachedRows, directory : (SUBSET Editions) \cup {None}]
  BY DEF PagesInv, PagesTyped
<1> DEFINE e == page.chosen
<1>3. e \in wasReady /\ e \in Editions
  BY <1>1, <1>2 DEF PageStands
<1> DEFINE Of(row) == Shown!Card(e, Shown!ScoreIf(Shown!HasScore(row), row))
<1>4. PICK cards : /\ Shown!Shows(cards)
                   /\ cards \subseteq {Shown!Card(e, None)} \cup {Of(row) : row \in Shown!MatchStates}
  <2>1. CASE Shown!ShowSchedule
    <3>1. Shown!Shows({Of(Shown!CachedRow("schedule"))})
      BY <2>1 DEF Shown!ShowSchedule
    <3>2. Shown!CachedRow("schedule") \in Shown!MatchStates
      BY <1>3, RowIsTyped
    <3> QED BY <3>1, <3>2
  <2>2. CASE Shown!ShowHome
    <3>1. Shown!Shows({Of(match[e])})
      BY <2>2 DEF Shown!ShowHome
    <3>2. match[e] \in Shown!MatchStates
      BY <1>2, <1>3
    <3> HIDE DEF Of
    <3> QED BY <3>1, <3>2
  <2>3. CASE Shown!ShowHub
    <3>1. Shown!Shows({}) \/ Shown!Shows({Of(match[e])})
      BY <2>3 DEF Shown!ShowHub
    <3>2. match[e] \in Shown!MatchStates
      BY <1>2, <1>3
    <3> HIDE DEF Of
    <3> QED BY <3>1, <3>2
  <2>4. CASE Shown!ShowTable
    BY <2>4 DEF Shown!ShowTable
  <2> QED BY <2>1, <2>2, <2>3, <2>4
<1>5. \A card \in cards : /\ card \in [edition : Editions, score : Shown!MatchStates \cup {None}]
                          /\ card.edition = e /\ card.score # "SCHEDULED"
  <2> HIDE DEF e
  <2>1. ASSUME NEW card \in cards
        PROVE  \E row \in Shown!MatchStates : card = Shown!Card(e, None) \/ card = Of(row)
    <3>1. "LIVE" \in Shown!MatchStates
      BY DEF Shown!MatchStates
    <3> HIDE DEF Of
    <3> QED BY <1>4, <2>1, <3>1
  <2> QED BY <1>3, <2>1, CardStands
<1>6. cached' \in [schedule : CachedRows, team : CachedRows, directory : (SUBSET Editions) \cup {None}]
  <2>1. CASE Shown!ShowSchedule
    <3>1. Shown!Keep("schedule")
      BY <2>1 DEF Shown!ShowSchedule
    <3> QED BY <1>3, <3>1, RowIsTyped
  <2> QED BY <1>1, <1>2, <2>1
<1> QED BY <1>1, <1>3, <1>4, <1>5, <1>6, ShowsKept

LEMMA CandidatesKept ==
  ASSUME Shown!EditionPagesAssumption, PagesInv, Shown!ReadCandidates
  PROVE  PagesInv'
<1>1. page.pc = "rows" /\ page.kind \in {"bracket", "team"} /\ Shown!Unread
  BY DEF Shown!ReadCandidates
<1>2. /\ page \in PageStates /\ PageStands(page, wasReady) /\ wasReady \subseteq Editions
      /\ match \in [Editions -> Shown!MatchStates] /\ WalkStands(page)
      /\ cached \in [schedule : CachedRows, team : CachedRows, directory : (SUBSET Editions) \cup {None}]
  BY DEF PagesInv, PagesTyped
<1>3. page.chosen \in wasReady /\ page.chosen \in Editions /\ page.shown = {}
  BY <1>1, <1>2 DEF PageStands
<1>4. PICK row \in Shown!MatchStates : page' = [page EXCEPT !.row = row, !.pc = "access"]
  <2>1. Shown!CachedRow("team") \in Shown!MatchStates /\ match[page.chosen] \in Shown!MatchStates
    BY <1>2, <1>3, RowIsTyped
  <2> QED BY <2>1 DEF Shown!ReadCandidates
<1>5. cached' \in [schedule : CachedRows, team : CachedRows, directory : (SUBSET Editions) \cup {None}]
  <2>1. Shown!Keep("team") \/ cached' = cached
    BY DEF Shown!ReadCandidates
  <2> QED BY <1>2, <1>3, <2>1, RowIsTyped
<1>6. page' \in PageStates
  BY <1>2, <1>4 DEF PageStates
<1>7. /\ page'.pc = "access" /\ page'.row = row /\ page'.kind = page.kind
      /\ page'.shown = {} /\ page'.chosen = page.chosen
  BY <1>2, <1>3, <1>4 DEF PageStates
<1>8. WalkStands(page')
  BY <1>1, <1>7 DEF WalkStands
<1>9. PageStands(page', wasReady)
  BY <1>1, <1>3, <1>4, <1>7 DEF PageStands
<1> QED BY <1>1, <1>5, <1>6, <1>8, <1>9, PageStepKept

LEMMA AccessKept ==
  ASSUME Shown!EditionPagesAssumption, PagesInv, Shown!ShowCandidates
  PROVE  PagesInv'
<1>1. page.pc = "access" /\ Shown!Unread /\ cached' = cached
  BY DEF Shown!ShowCandidates
<1>2. /\ page \in PageStates /\ PageStands(page, wasReady) /\ wasReady \subseteq Editions
      /\ cached \in [schedule : CachedRows, team : CachedRows, directory : (SUBSET Editions) \cup {None}]
  BY DEF PagesInv, PagesTyped
<1> DEFINE e == page.chosen
           row == page.row
<1>3. e \in wasReady /\ e \in Editions /\ row \in Shown!MatchStates /\ page.kind \in {"bracket", "team"}
  BY <1>1, <1>2 DEF PageStands
<1>4. PICK cards :
        /\ Shown!Shows(cards)
        /\ \A card \in cards : card \in {Shown!Card(e, None), Shown!Card(e, row)}
        /\ (page.kind # "bracket" /\ Shown!Card(e, row) \in cards =>
              row = "COMPLETED" \/ Shown!Card(e, row) = Shown!Card(e, None))
  <2> DEFINE seen == match[page.chosen]
             cards ==
               CASE page.kind = "bracket" ->
                      {Shown!Card(e, Shown!ScoreIf(Shown!HasScore(seen), row))}
                 [] page.kind = "team" /\ row = "COMPLETED" ->
                      IF Shown!HasScore(seen) THEN {Shown!Card(e, row)} ELSE {}
                 [] page.kind = "team" /\ row = "SCHEDULED" -> {Shown!Card(e, None)}
                 [] OTHER -> {}
  <2>1. Shown!Shows(cards)
    BY DEF Shown!ShowCandidates
  <2>2. CASE page.kind = "bracket"
    <3>1. cards = {Shown!Card(e, Shown!ScoreIf(Shown!HasScore(seen), row))}
      BY <2>2
    <3>2. Shown!ScoreIf(Shown!HasScore(seen), row) \in {None, row}
      BY DEF Shown!ScoreIf
    <3> HIDE DEF cards
    <3> QED BY <2>1, <2>2, <3>1, <3>2
  <2>3. CASE page.kind = "team" /\ row = "COMPLETED"
    <3>1. cards \subseteq {Shown!Card(e, row)}
      BY <2>3
    <3> HIDE DEF cards
    <3> QED BY <2>1, <2>3, <3>1
  <2>4. CASE page.kind = "team" /\ row # "COMPLETED"
    <3>1. cards \subseteq {Shown!Card(e, None)}
      BY <2>4
    <3> HIDE DEF cards
    <3> QED BY <2>1, <2>4, <3>1
  <2> QED BY <1>3, <2>2, <2>3, <2>4
<1>5. None # "SCHEDULED"
  BY DEF Shown!EditionPagesAssumption
<1>6. \A card \in cards : card \in [edition : Editions, score : Shown!MatchStates \cup {None}]
  <2> HIDE DEF e, row
  <2> QED BY <1>3, <1>4 DEF Shown!Card
<1>7. \A card \in cards : card.edition \in wasReady
  <2> HIDE DEF e, row
  <2> QED BY <1>3, <1>4 DEF Shown!Card
<1>8. page.kind # "bracket" => \A card \in cards : card.score # "SCHEDULED"
  <2>1. Shown!Card(e, None).score = None /\ Shown!Card(e, row).score = row
    BY DEF Shown!Card
  <2> HIDE DEF e, row
  <2> QED BY <1>4, <1>5, <2>1
<1>9. page.kind # "live"
  BY <1>3
<1> HIDE DEF e, row
<1> QED BY <1>1, <1>2, <1>4, <1>6, <1>7, <1>8, <1>9, ShowsKept

LEMMA SnapshotKept ==
  ASSUME Shown!EditionPagesAssumption, PagesInv, Shown!TakeSnapshot
  PROVE  PagesInv'
<1>1. page.pc = "snapshot" /\ Shown!Unread /\ cached' = cached
      /\ page' = [page EXCEPT !.snapshot = status, !.pc = "walk"]
  BY DEF Shown!TakeSnapshot
<1>2. /\ page \in PageStates /\ PageStands(page, wasReady) /\ WalkStands(page)
      /\ Seen(status, page, wasReady) /\ status \in EditionStates
      /\ cached \in [schedule : CachedRows, team : CachedRows, directory : (SUBSET Editions) \cup {None}]
  BY DEF PagesInv, PagesTyped
<1>3. page' \in PageStates
  BY <1>1, <1>2 DEF PageStates
<1>4. /\ page'.pc = "walk" /\ page'.snapshot = status /\ page'.kind = page.kind
      /\ page'.shown = page.shown /\ page'.chosen = page.chosen /\ page'.cursor = page.cursor
  BY <1>1, <1>2 DEF PageStates
<1>5. WalkStands(page')
  BY <1>1, <1>2, <1>4 DEF WalkStands
<1>6. PageStands(page', wasReady)
  BY <1>1, <1>2, <1>4 DEF PageStands, Seen
<1> QED BY <1>1, <1>2, <1>3, <1>5, <1>6, PageStepKept

\* A page of the walk that is not full is its last: the walk stops at the newest
\* edition that was ready, or has passed none.
LEMMA CandidatesSuffice ==
  ASSUME Shown!EditionPagesAssumption, NEW s \in EditionStates,
         NEW left, left = {e \in Shown!Published(s) : page.cursor = None \/ e < page.cursor},
         page.snapshot = s, page.cursor \in Editions \cup {None}
  PROVE  LET candidates == Shown!CandidatesOn(s)
         IN /\ candidates \subseteq left /\ left \subseteq Editions
            /\ \A c \in candidates, e \in left : e > c => e \in candidates
            /\ (Shown!Cardinality(candidates) < PageSize => candidates = left)
            /\ (left # {} => candidates # {})
<1> DEFINE candidates == Shown!CandidatesOn(s)
           Above(e) == {d \in left : d > e}
<1>1. IsFiniteSet(left) /\ left \subseteq Editions /\ Editions \subseteq Nat
  <2>1. Shown!IsFiniteSet(Editions) = IsFiniteSet(Editions)
    BY DEF Shown!IsFiniteSet, IsFiniteSet
  <2>2. left \subseteq Editions
    BY DEF Shown!Published
  <2> QED BY <2>1, <2>2, FS_Subset DEF Shown!EditionPagesAssumption
<1>2. \A S : Shown!Cardinality(S) = Cardinality(S)
  BY Zenon DEF Shown!Cardinality, Cardinality
<1>3. candidates = {e \in left : Cardinality(Above(e)) < PageSize}
  BY <1>2 DEF Shown!CandidatesOn
<1>4. PageSize \in Nat \ {0}
  BY DEF Shown!EditionPagesAssumption
<1>5. \A e \in left : IsFiniteSet(Above(e)) /\ Cardinality(Above(e)) \in Nat
  BY <1>1, FS_Subset, FS_CardinalityType
<1>6. ASSUME NEW c \in candidates, NEW e \in left, e > c PROVE e \in candidates
  <2> HIDE DEF candidates
  <2>1. Above(e) \subseteq Above(c)
    <3>1. c \in Nat /\ e \in Nat /\ left \subseteq Nat
      BY <1>1, <1>3, <1>6
    <3> QED BY <1>6, <3>1
  <2>2. Cardinality(Above(e)) <= Cardinality(Above(c))
    BY <1>3, <1>5, <2>1, FS_Subset
  <2> HIDE DEF Above
  <2> QED BY <1>3, <1>4, <1>5, <1>6, <2>2
<1>7. ASSUME Cardinality(candidates) < PageSize, candidates # left PROVE FALSE
  <2>1. candidates \subseteq left /\ left \ candidates # {}
    BY <1>3, <1>7
  <2>2. IsFiniteSet(left \ candidates) /\ left \ candidates \subseteq Nat
    BY <1>1, FS_Subset
  <2> DEFINE m == Shown!Max(left \ candidates)
  <2>3. m \in left \ candidates /\ \A d \in left \ candidates : d <= m
    <3> HIDE DEF candidates
    <3> QED BY <2>1, <2>2, MaxMinExist
  <2> HIDE DEF m
  <2>4. Above(m) \subseteq candidates
    <3>1. ASSUME NEW d \in left, d > m, d \notin candidates PROVE FALSE
      <4>1. d <= m /\ d \in Nat /\ m \in Nat
        BY <1>1, <2>3, <3>1
      <4> QED BY <3>1, <4>1
    <3> HIDE DEF candidates
    <3> QED BY <3>1
  <2>5. IsFiniteSet(candidates)
    BY <1>1, <2>1, FS_Subset
  <2>6. Cardinality(Above(m)) <= Cardinality(candidates) /\ Cardinality(candidates) \in Nat
    BY <2>4, <2>5, FS_Subset, FS_CardinalityType
  <2> HIDE DEF Above, candidates
  <2>7. Cardinality(Above(m)) < PageSize
    BY <1>4, <1>5, <1>7, <2>3, <2>6
  <2> QED BY <1>3, <2>3, <2>7
<1>8. ASSUME left # {} PROVE candidates # {}
  <2> DEFINE m == Shown!Max(left)
  <2>1. m \in left /\ \A d \in left : d <= m
    BY <1>1, <1>8, MaxMinExist
  <2> HIDE DEF m
  <2>2. Above(m) = {}
    <3>1. ASSUME NEW d \in left PROVE ~(d > m)
      <4>1. d \in Nat /\ m \in Nat /\ d <= m
        BY <1>1, <2>1
      <4> QED BY <4>1
    <3> QED BY <3>1
  <2>3. Cardinality(Above(m)) = 0
    BY <2>2, FS_EmptySet
  <2> HIDE DEF Above, candidates
  <2> QED BY <1>3, <1>4, <2>1, <2>3
<1>9. candidates \subseteq left
  BY <1>3
<1> HIDE DEF candidates
<1> QED BY <1>1, <1>2, <1>6, <1>7, <1>8, <1>9 DEF candidates

LEMMA WalkKept ==
  ASSUME Shown!EditionPagesAssumption, PagesInv, Shown!Walk
  PROVE  PagesInv'
<1>1. page.pc = "walk" /\ Shown!Unread /\ cached' = cached
  BY DEF Shown!Walk
<1>2. /\ page \in PageStates /\ PageStands(page, wasReady) /\ WalkStands(page)
      /\ cached \in [schedule : CachedRows, team : CachedRows, directory : (SUBSET Editions) \cup {None}]
  BY DEF PagesInv, PagesTyped
<1> DEFINE s == page.snapshot
           left == {e \in Shown!Published(s) : page.cursor = None \/ e < page.cursor}
           candidates == Shown!CandidatesOn(s)
           ready == candidates \cap Shown!Ready(s)
<1>3. s \in EditionStates /\ page.cursor \in Editions \cup {None}
      /\ page.kind = "live" /\ Shown!Ready(s) \subseteq wasReady
  BY <1>1, <1>2 DEF WalkStands, PageStands, PageStates
<1>4. /\ candidates \subseteq left /\ left \subseteq Editions
      /\ \A c \in candidates, e \in left : e > c => e \in candidates
      /\ (Shown!Cardinality(candidates) < PageSize => candidates = left)
      /\ (left # {} => candidates # {})
  <2> HIDE DEF s
  <2> QED BY <1>3, CandidatesSuffice DEF s
<1>5. Shown!Ready(s) \subseteq left
  <2>1. \A e \in Shown!Ready(s) : e \in Editions /\ s[e] # "DRAFT"
    BY DEF Shown!Ready, Shown!IsPubliclyReady
  <2>2. \A e \in Shown!Ready(s) : page.cursor = None \/ e < page.cursor
    BY <1>1, <1>2 DEF WalkStands
  <2> QED BY <2>1, <2>2 DEF Shown!Published
<1>6. /\ (ready # {} => Shown!Continue(Shown!Max(ready)))
      /\ (ready = {} /\ Shown!Cardinality(candidates) < PageSize => Shown!Continue(None))
      /\ (ready = {} /\ ~(Shown!Cardinality(candidates) < PageSize) =>
            page' = [page EXCEPT !.cursor = Shown!Min(candidates)])
  BY DEF Shown!Walk, Shown!Snapshot
<1>7. IsFiniteSet(Editions) /\ Editions \subseteq Nat \ {0} /\ PageSize \in Nat \ {0} /\ None \notin Editions
  <2>1. Shown!IsFiniteSet(Editions) = IsFiniteSet(Editions)
    BY DEF Shown!IsFiniteSet, IsFiniteSet
  <2> QED BY <2>1 DEF Shown!EditionPagesAssumption
<1> HIDE DEF s, left, candidates
<1>8. /\ IsFiniteSet(ready) /\ ready \subseteq Nat /\ IsFiniteSet(candidates) /\ candidates \subseteq Nat
      /\ IsFiniteSet(Shown!Ready(s)) /\ Shown!Ready(s) \subseteq Nat
  BY <1>4, <1>5, <1>7, FS_Subset
<1>9. CASE ready # {}
  <2> DEFINE e == Shown!Max(ready)
             n == Shown!Max(Shown!Ready(s))
  <2>1. e \in ready /\ \A d \in ready : d <= e
    BY <1>8, <1>9, MaxMinExist
  <2>2. Shown!Ready(s) # {}
    BY <1>9
  <2>3. n \in Shown!Ready(s) /\ \A d \in Shown!Ready(s) : d <= n
    BY <1>8, <2>2, MaxMinExist
  <2> HIDE DEF e, n
  <2>4. n \in ready
    <3>1. e \in candidates /\ e \in Shown!Ready(s) /\ n \in left
      BY <1>5, <2>1, <2>3
    <3>2. n > e \/ n = e
      BY <1>8, <2>3, <3>1
    <3>3. n \in candidates
      BY <1>4, <3>1, <3>2
    <3> QED BY <2>3, <3>3
  <2>5. e = n
    <3>1. e \in Nat /\ n \in Nat /\ e <= n /\ n <= e
      BY <1>8, <2>1, <2>3, <2>4
    <3> QED BY <3>1
  <2>6. e = Newest(page.snapshot)
    BY <2>2, <2>5 DEF Newest, n, s
  <2>7. Shown!Continue(e)
    BY <1>6, <1>9 DEF e
  <2>8. e \in wasReady /\ e \in Editions
    BY <1>3, <1>4, <2>1
  <2> QED BY <1>1, <2>6, <2>7, <2>8, ContinueKept
<1>10. CASE ready = {} /\ Shown!Cardinality(candidates) < PageSize
  <2>1. Shown!Ready(s) = {}
    BY <1>4, <1>5, <1>10
  <2>2. None = Newest(page.snapshot)
    BY <2>1 DEF Newest, s
  <2> QED BY <1>1, <1>6, <1>10, <2>2, ContinueKept
<1>11. CASE ready = {} /\ ~(Shown!Cardinality(candidates) < PageSize)
  <2>1. candidates # {}
    <3>1. ASSUME candidates = {} PROVE FALSE
      <4>1. Shown!Cardinality(candidates) = Cardinality(candidates)
        BY Zenon DEF Shown!Cardinality, Cardinality
      <4>2. Cardinality(candidates) = 0
        BY <3>1, FS_EmptySet
      <4> QED BY <1>7, <1>11, <4>1, <4>2
    <3> QED BY <3>1
  <2> DEFINE m == Shown!Min(candidates)
  <2>2. m \in candidates /\ \A d \in candidates : m <= d
    BY <1>8, <2>1, MaxMinExist
  <2>3. page' = [page EXCEPT !.cursor = m]
    BY <1>6, <1>11
  <2> HIDE DEF m
  <2>4. m \in Editions
    BY <1>4, <2>2
  <2>5. page' \in PageStates
    BY <1>2, <2>3, <2>4 DEF PageStates
  <2>6. /\ page'.cursor = m /\ page'.pc = page.pc /\ page'.snapshot = page.snapshot
        /\ page'.kind = page.kind /\ page'.shown = page.shown /\ page'.chosen = page.chosen
    BY <1>2, <2>3 DEF PageStates
  <2>7. ASSUME NEW e \in Shown!Ready(s) PROVE e < m
    <3>1. e \in left /\ e \notin candidates /\ e \in Nat /\ m \in Nat
      BY <1>5, <1>8, <1>11, <2>2
    <3>2. ~(e > m) /\ e # m
      BY <1>4, <2>2, <3>1
    <3> QED BY <3>1, <3>2
  <2>8. WalkStands(page')
    <3>1. \A e \in Shown!Ready(page.snapshot) : e < m
      BY <2>7 DEF s
    <3>2. Shown!Ready(page'.snapshot) = Shown!Ready(page.snapshot)
      BY <2>6
    <3> QED BY <1>1, <1>2, <2>6, <3>1, <3>2 DEF WalkStands
  <2>9. PageStands(page', wasReady)
    BY <1>1, <1>2, <2>6 DEF PageStands
  <2> QED BY <1>1, <1>2, <2>5, <2>8, <2>9, PageStepKept
<1> QED BY <1>9, <1>10, <1>11

LEMMA DirectoryKept ==
  ASSUME Shown!EditionPagesAssumption, PagesInv, Shown!ReadDirectory \/ Shown!ReadStrict
  PROVE  PagesInv'
<1>1. page.pc \in {"directory", "strict"} /\ Shown!Unread
  BY DEF Shown!ReadDirectory, Shown!ReadStrict
<1>2. /\ page \in PageStates /\ PageStands(page, wasReady) /\ WalkStands(page)
      /\ Seen(status, page, wasReady) /\ status \in EditionStates
      /\ cached \in [schedule : CachedRows, team : CachedRows, directory : (SUBSET Editions) \cup {None}]
  BY DEF PagesInv, PagesTyped
<1>3. page.kind = "directory" /\ Shown!Ready(status) \subseteq wasReady
  BY <1>1, <1>2 DEF PageStands, Seen
<1>4. ASSUME NEW editions \in SUBSET Editions, Shown!Fill(editions), editions \subseteq wasReady
      PROVE  PagesInv'
  <2> DEFINE cards == Shown!Cards(editions)
  <2>1. Shown!Shows(cards) /\ cached' = [cached EXCEPT !.directory = editions]
    BY <1>4 DEF Shown!Fill
  <2>2. \A card \in cards : card.edition \in editions /\ card.score = None
          /\ card \in [edition : Editions, score : Shown!MatchStates \cup {None}]
    BY DEF Shown!Cards, Shown!Card
  <2>3. None # "SCHEDULED"
    BY DEF Shown!EditionPagesAssumption
  <2>4. cached' \in [schedule : CachedRows, team : CachedRows, directory : (SUBSET Editions) \cup {None}]
    BY <1>2, <2>1
  <2> HIDE DEF cards
  <2> QED BY <1>1, <1>3, <1>4, <2>1, <2>2, <2>3, <2>4, ShowsKept
<1>5. CASE Shown!ReadStrict
  <2> DEFINE publicly == {e \in page.names : e \in Strict => Shown!IsPubliclyReady(status, e)}
  <2>1. page.pc = "strict" /\ Shown!Fill(publicly)
    BY <1>5 DEF Shown!ReadStrict
  <2>2. publicly \subseteq Editions /\ publicly \subseteq wasReady
    BY <1>2, <1>3, <2>1 DEF PageStates, PageStands, Shown!Ready
  <2> HIDE DEF publicly
  <2> QED BY <1>4, <2>1, <2>2
<1>6. CASE Shown!ReadDirectory
  <2> DEFINE candidates == {e \in Editions : Shown!PassesGenericGate(status, e)}
  <2>1. candidates \ Strict \subseteq wasReady
    BY <1>3 DEF Shown!PassesGenericGate, Shown!Ready, Shown!IsPubliclyReady
  <2>2. page.pc = "directory"
    BY <1>6 DEF Shown!ReadDirectory
  <2>3. CASE cached.directory # None
    <3> DEFINE cards == Shown!Cards(cached.directory)
    <3>1. page' = [Shown!NoPage EXCEPT !.pc = "done", !.shown = cards] /\ cached' = cached
      BY <1>6, <2>3 DEF Shown!ReadDirectory
    <3>2. \A card \in cards : card.score = None
            /\ card \in [edition : Editions, score : Shown!MatchStates \cup {None}]
      BY <1>2, <2>3 DEF Shown!Cards, Shown!Card
    <3>3. None # "SCHEDULED"
      BY DEF Shown!EditionPagesAssumption
    <3> HIDE DEF cards
    <3>4. page' \in PageStates /\ page'.kind = "none" /\ page'.pc = "done" /\ page'.shown = cards
      BY <3>1, <3>2 DEF PageStates, Shown!NoPage
    <3>5. WalkStands(page') /\ PageStands(page', wasReady)
      BY <3>2, <3>3, <3>4 DEF WalkStands, PageStands
    <3> QED BY <1>1, <1>2, <3>1, <3>4, <3>5, PageStepKept
  <2>4. CASE cached.directory = None /\ candidates \cap Strict = {}
    <3>1. Shown!Fill(candidates)
      BY <1>6, <2>4 DEF Shown!ReadDirectory
    <3>2. candidates \subseteq wasReady /\ candidates \subseteq Editions
      BY <2>1, <2>4
    <3> HIDE DEF candidates
    <3> QED BY <1>4, <3>1, <3>2
  <2>5. CASE cached.directory = None /\ candidates \cap Strict # {}
    <3>1. page' = [page EXCEPT !.names = candidates, !.pc = "strict"] /\ cached' = cached
      BY <1>6, <2>5 DEF Shown!ReadDirectory
    <3>2. candidates \subseteq Editions
      OBVIOUS
    <3> HIDE DEF candidates
    <3>3. page' \in PageStates
      BY <1>2, <3>1, <3>2 DEF PageStates
    <3>4. /\ page'.pc = "strict" /\ page'.names = candidates /\ page'.kind = page.kind
          /\ page'.shown = page.shown
      BY <1>2, <3>1 DEF PageStates
    <3>5. WalkStands(page')
      BY <1>3, <3>4 DEF WalkStands
    <3>6. PageStands(page', wasReady)
      BY <1>1, <1>2, <1>3, <2>1, <3>4 DEF PageStands
    <3> QED BY <1>1, <1>2, <3>1, <3>3, <3>5, <3>6, PageStepKept
  <2> QED BY <2>3, <2>4, <2>5
<1> QED BY <1>5, <1>6

LEMMA PagesStep ==
  ASSUME Shown!EditionPagesAssumption, PagesInv, [Shown!Next]_(Shown!pagesVars)
  PROVE  PagesInv'
<1>1. CASE Shown!Answer
  BY <1>1, ResolveKept, RowsKept, CandidatesKept, AccessKept, SnapshotKept, WalkKept,
     DirectoryKept DEF Shown!Answer
<1>2. CASE Shown!World
  BY <1>2, WorldKeepsPages
<1>3. ASSUME NEW kind \in Shown!Named, NEW e \in Editions, Shown!Ask(kind, e) PROVE PagesInv'
  BY <1>3, AskKeepsPages DEF Shown!Named, Shown!Kinds
<1>4. ASSUME NEW kind \in Shown!Kinds \ Shown!Named, Shown!Ask(kind, None) PROVE PagesInv'
  BY <1>4, AskKeepsPages
<1>5. CASE UNCHANGED Shown!pagesVars
  BY <1>5 DEF PagesInv, Shown!pagesVars
<1> QED BY <1>1, <1>2, <1>3, <1>4, <1>5 DEF Shown!Next

\* What is so in every behaviour of the part alone.
LEMMA PagesAreSafe ==
  ASSUME Shown!EditionPagesAssumption
  PROVE  Shown!Spec => []Shown!PagesFollowPublication
<1>1. Shown!Init => PagesInv
  BY PagesInitial
<1>2. PagesInv /\ [Shown!Next]_(Shown!pagesVars) => PagesInv'
  BY PagesStep
<1>3. PagesInv => Shown!PagesFollowPublication
  BY DEF PagesInv, WalkStands, PageStands, Newest, Shown!PagesFollowPublication,
     Shown!NothingHiddenIsShown, Shown!FallbackIsNewestReady, Shown!ScoresAreResults
<1> QED BY <1>1, <1>2, <1>3, PTL DEF Shown!Spec

\* A behaviour of the composition is one of the part, or the part is at rest.
LEMMA ShownAlone == PartsSpec => (part = "pages" /\ Shown!Spec) \/ []~(part = "pages")
<1>1. PartsInit => (part = "pages" => Shown!Init)
  BY DEF PartsInit
<1>2. [PartsNext]_partsVars => (part = "pages" => [Shown!Next]_(Shown!pagesVars))
  BY PartAtWork
<1>3. [PartsNext]_partsVars => ((part = "pages") <=> (part = "pages")')
  BY PartAtWork
<1> QED BY <1>1, <1>2, <1>3, PTL DEF PartsSpec, Shown!Spec

\* PagesFollowPublication, for any editions, seasons and size of a page of the walk:
\* no request shows an edition that was not public at some moment of it, the live
\* hub falls back on the newest edition that was ready at one moment, and a score
\* is that of a result (competitions.ts, edition-schedule.ts, cached-queries.ts).
THEOREM PagesFollow == PartsSpec => []PagesFollowPublication
<1>1. Shown!Spec => [](Shown!PagesFollowPublication)
  BY PagesAreSafe, PartsAssumption
<1> QED BY <1>1, ShownAlone, PTL DEF PagesFollowPublication

-----------------------------------------------------------------------------
(* The smoke of a release                                                  *)

FileKinds == {"json", "markdown"}

SmokeInv ==
    /\ checks \in Seq(BOOLEAN) /\ Len(checks) <= Len(Smoke!Checks)
    /\ DOMAIN files = FileKinds
    /\ Smoke!Holding(site) \subseteq held
    /\ Smoke!SmokeIsEarned

LEMMA ChecksListed ==
  /\ Len(Smoke!Checks) \in Nat
  /\ \A i \in 1..Len(Smoke!Checks) : Smoke!Checks[i] \in Smoke!Names
<1>1. Len(Smoke!Checks) = 10
  BY DEF Smoke!Checks
<1>2. DOMAIN Smoke!Checks = 1..10
  BY DEF Smoke!Checks
<1> QED BY <1>1, <1>2 DEF Smoke!Names

\* A check that ends is one more, earned when it passes.
LEMMA CheckAdded ==
  ASSUME Smoke!SmokeAssumption, SmokeInv, Smoke!Pending, NEW passed \in BOOLEAN, Smoke!CheckEnds(passed),
         passed => Smoke!NextCheck \in held,
         held \subseteq held', UNCHANGED <<files, exit>>, Smoke!Holding(site)' \subseteq held'
  PROVE  SmokeInv'
<1> DEFINE n == Len(checks)
<1>1. /\ checks \in Seq(BOOLEAN) /\ checks' = Append(checks, passed)
      /\ n < Len(Smoke!Checks) /\ exit = None /\ n \in Nat
  BY DEF SmokeInv, Smoke!Pending, Smoke!CheckEnds
<1>2. /\ checks' \in Seq(BOOLEAN) /\ Len(checks') = n + 1
      /\ DOMAIN checks' = 1..n+1 /\ checks'[n + 1] = passed
      /\ DOMAIN checks = 1..n /\ \A i \in 1..n : checks'[i] = checks[i]
  BY <1>1
<1>3. Len(checks') <= Len(Smoke!Checks)
  BY <1>1, <1>2, ChecksListed
<1>4. \A i \in DOMAIN checks' : checks'[i] => Smoke!Checks[i] \in held'
  <2>1. \A i \in 1..n : checks[i] => Smoke!Checks[i] \in held
    BY <1>2 DEF SmokeInv, Smoke!SmokeIsEarned
  <2>2. passed => Smoke!Checks[n + 1] \in held
    BY DEF Smoke!NextCheck
  <2>3. \A i \in 1..n+1 : i \in 1..n \/ i = n + 1
    BY <1>1
  <2> HIDE DEF n
  <2> QED BY <1>2, <2>1, <2>2, <2>3
<1> QED 
  <2>1. exit' # 0
    BY <1>1 DEF Smoke!SmokeAssumption
  <2>2. Smoke!SmokeIsEarned'
    BY <1>4, <2>1 DEF Smoke!SmokeIsEarned
  <2> QED BY <1>2, <1>3, <2>2 DEF SmokeInv

\* The check that an attempt is for is one of the ten.
LEMMA NextIsNamed ==
  ASSUME SmokeInv, Smoke!Pending
  PROVE  Smoke!NextCheck \in Smoke!Names
<1>1. Len(checks) \in Nat /\ Len(checks) < Len(Smoke!Checks)
  BY DEF SmokeInv, Smoke!Pending
<1> QED BY <1>1, ChecksListed DEF Smoke!NextCheck

\* What the site satisfied stays held while it is as it is.
LEMMA SiteKept ==
  ASSUME SmokeInv, UNCHANGED <<site, discovered, held>>
  PROVE  Smoke!Holding(site)' \subseteq held'
BY DEF SmokeInv, Smoke!Holding, Smoke!Satisfies

LEMMA SmokeKept ==
  ASSUME Smoke!SmokeAssumption, SmokeInv, Smoke!Next
  PROVE  SmokeInv'
<1>1. CASE Smoke!Change
  <2>1. UNCHANGED <<checks, discovered, files, exit>> /\ held' = held \cup Smoke!Holding(site')
    BY <1>1 DEF Smoke!Change
  <2>2. Smoke!Holding(site)' \subseteq held'
    BY <2>1 DEF Smoke!Holding, Smoke!Satisfies
  <2>3. Smoke!SmokeIsEarned'
    BY <2>1 DEF SmokeInv, Smoke!SmokeIsEarned, Smoke!AllPassed
  <2> QED BY <2>1, <2>2, <2>3 DEF SmokeInv
<1>2. ASSUME NEW delay \in 0..MaxDelay, Smoke!Answered(delay) PROVE SmokeInv'
  <2> DEFINE check == Smoke!NextCheck
             passed == Smoke!Passes(check, delay)
  <2>1. /\ Smoke!Pending /\ Smoke!CheckEnds(passed) /\ UNCHANGED <<site, files, exit>>
        /\ discovered' = (IF check = "matches" /\ passed THEN site.owner ELSE discovered)
        /\ held' = (IF discovered' = discovered THEN held
                    ELSE IF site.up THEN held \cup {"redirect"} ELSE held)
    BY <1>2 DEF Smoke!Answered
  <2>2. passed \in BOOLEAN
    BY DEF Smoke!Passes
  <2>3. passed => check \in Smoke!Holding(site)
    BY <2>1, NextIsNamed DEF Smoke!Passes, Smoke!ServerError, Smoke!Holding
  <2>4. held \subseteq held'
    BY <2>1
  <2>5. Smoke!Holding(site)' \subseteq held'
    <3>1. CASE discovered' = discovered
      BY <2>1, <3>1, SiteKept
    <3>2. CASE discovered' # discovered
      <4>1. Smoke!Holding(site)' \subseteq Smoke!Holding(site) \cup {"redirect"}
        <5>1. ASSUME NEW c, c # "redirect", site' = site
              PROVE  (Smoke!Satisfies(c, site))' = Smoke!Satisfies(c, site)
          BY <5>1 DEF Smoke!Satisfies
        <5> QED BY <2>1, <5>1 DEF Smoke!Holding
      <4>2. site.up \/ Smoke!Holding(site)' = {}
        BY <2>1 DEF Smoke!Holding
      <4> QED BY <2>1, <3>2, <4>1, <4>2 DEF SmokeInv
    <3> QED BY <3>1, <3>2
  <2> HIDE DEF check, passed
  <2> QED BY <2>1, <2>2, <2>3, <2>4, <2>5, CheckAdded DEF SmokeInv, check
<1>3. CASE Smoke!Retried
  <2>1. UNCHANGED <<site, checks, discovered, files, exit, held>>
    BY <1>3 DEF Smoke!Retried
  <2> QED BY <2>1, SiteKept DEF SmokeInv, Smoke!SmokeIsEarned, Smoke!AllPassed
<1>4. CASE Smoke!Failed \/ Smoke!Skipped
  <2>1. Smoke!Pending /\ Smoke!CheckEnds(FALSE) /\ UNCHANGED <<site, discovered, files, exit, held>>
    BY <1>4 DEF Smoke!Failed, Smoke!Skipped
  <2> QED BY <2>1, SiteKept, CheckAdded
<1>5. ASSUME NEW file \in DOMAIN files, NEW outcome \in {"written", "failed"},
             Smoke!WriteFile(file, outcome)
      PROVE  SmokeInv'
  <2>1. /\ exit = None /\ UNCHANGED <<site, checks, discovered, exit, held>>
        /\ files' = [files EXCEPT ![file] = outcome]
    BY <1>5 DEF Smoke!WriteFile, Smoke!Executed
  <2>2. exit' # 0 /\ DOMAIN files' = FileKinds
    BY <2>1 DEF Smoke!SmokeAssumption, SmokeInv
  <2> QED BY <2>1, <2>2, SiteKept DEF SmokeInv, Smoke!SmokeIsEarned
<1>6. CASE Smoke!Exit
  <2>1. /\ Len(checks) = Len(Smoke!Checks) /\ exit' = Smoke!ExitCode
        /\ UNCHANGED <<site, checks, discovered, files, held>>
    BY <1>6 DEF Smoke!Exit, Smoke!Executed
  <2>2. exit' = 0 => /\ \A i \in DOMAIN checks : checks[i]
                     /\ \A file \in DOMAIN files : files[file] = "written"
    BY <2>1 DEF Smoke!ExitCode, Smoke!AllPassed
  <2>3. Smoke!SmokeIsEarned'
    BY <2>1, <2>2 DEF SmokeInv, Smoke!SmokeIsEarned, Smoke!AllPassed
  <2> QED BY <2>1, <2>3, SiteKept DEF SmokeInv
<1>7. CASE Smoke!Refuse
  <2>1. exit' = 1 /\ UNCHANGED <<site, checks, discovered, files, held>>
    BY <1>7 DEF Smoke!Refuse
  <2> QED BY <2>1, SiteKept DEF SmokeInv, Smoke!SmokeIsEarned
<1> QED BY <1>1, <1>2, <1>3, <1>4, <1>5, <1>6, <1>7 DEF Smoke!Next

\* SmokeIsEarned, for any number of retries and changes of the site: a check that
\* passes found what was so at an instant of the run, and the exit code 0 means
\* ten such checks and two written files (executeProductionSmoke).
LEMMA SmokeIsSafe ==
  ASSUME Smoke!SmokeAssumption
  PROVE  Smoke!Spec => []Smoke!SmokeIsEarned
<1>1. Smoke!Init => SmokeInv
  <2> SUFFICES ASSUME Smoke!Init PROVE SmokeInv
    OBVIOUS
  <2>1. /\ checks = <<>> /\ held = Smoke!Holding(site) /\ exit = None
        /\ files = [json |-> None, markdown |-> None]
    BY DEF Smoke!Init
  <2>2. Len(checks) <= Len(Smoke!Checks) /\ DOMAIN files = FileKinds
    BY <2>1, ChecksListed DEF FileKinds
  <2> QED BY <2>1, <2>2 DEF SmokeInv, Smoke!SmokeIsEarned, Smoke!SmokeAssumption
<1>2. SmokeInv /\ [Smoke!Next]_Smoke!smokeVars => SmokeInv'
  <2>1. CASE UNCHANGED Smoke!smokeVars
    BY <2>1, SiteKept DEF Smoke!smokeVars, SmokeInv, Smoke!SmokeIsEarned, Smoke!AllPassed
  <2> QED BY <2>1, SmokeKept
<1>3. SmokeInv => Smoke!SmokeIsEarned
  BY DEF SmokeInv
<1> QED BY <1>1, <1>2, <1>3, PTL DEF Smoke!Spec

\* A behaviour of the composition is one of the part, or the part is at rest.
LEMMA SmokeAlone == PartsSpec => (part = "smoke" /\ Smoke!Spec) \/ []~(part = "smoke")
<1>1. PartsInit => (part = "smoke" => Smoke!Init)
  BY DEF PartsInit
<1>2. [PartsNext]_partsVars => (part = "smoke" => [Smoke!Next]_(Smoke!smokeVars))
  BY PartAtWork
<1>3. [PartsNext]_partsVars => ((part = "smoke") <=> (part = "smoke")')
  BY PartAtWork
<1> QED BY <1>1, <1>2, <1>3, PTL DEF PartsSpec, Smoke!Spec

-----------------------------------------------------------------------------
(* The accounts                                                            *)

\* What each step of a request knows of what it is about.
AccountRequests ==
    {User!Idle} \cup
    [kind : User!Kinds, at : {"create", "count", "undo", "delete"}, key : Items, password : {None}]
    \cup
    [kind : User!Kinds, at : {"find", "register", "read", "right", "wrong"}, key : Emails,
     password : Passwords]

AccountsTyped ==
    /\ saved \subseteq Items
    /\ passwordOf \in [Emails -> Passwords \cup {User!Google, None}]
    /\ handler \in [Handlers -> AccountRequests]
    /\ told \in [kept : SUBSET Items, removed : SUBSET Items, cut : SUBSET Items,
                 welcomed : SUBSET Emails, entered : SUBSET (Emails \X Passwords)]

\* The requests whose row is inserted and not yet counted, or not taken back.
Uncounted(q) == q.at \in {"count", "undo"}

Counting(k) == {r \in Handlers : Uncounted(handler[r]) /\ handler[r].key = k}

UncountedKeys == {k \in Items : Counting(k) # {}}

\* A row that a request may still take back is its own, or was removed meanwhile.
RowsStand ==
    \A k \in Items : Counting(k) # {} =>
        /\ k \in saved \cup told.removed
        /\ k \in told.kept => k \in told.removed
        /\ \A q, r \in Counting(k) : q # r => k \in told.removed

\* Of the rows that are counted there are never too many.
CountedStand ==
    Cardinality(saved \ (told.cut \cup UncountedKeys)) <= MaxUserResources

\* A password that was found right is still the account's.
PasswordsStand ==
    \A r \in Handlers :
        handler[r].at = "right" => passwordOf[handler[r].key] = handler[r].password

AccountsInv ==
    /\ AccountsTyped /\ RowsStand /\ CountedStand /\ PasswordsStand
    /\ User!SavedIsKept /\ User!AccountsAreTheirs

\* Fewer rows are counted, or the same.
LEMMA CountedKept ==
  ASSUME User!AccountsAssumption, AccountsInv,
         saved' \ (told'.cut \cup UncountedKeys') \subseteq saved \ (told.cut \cup UncountedKeys)
  PROVE  CountedStand'
<1>1. IsFiniteSet(saved \ (told.cut \cup UncountedKeys))
  <2>1. User!IsFiniteSet(Items) = IsFiniteSet(Items)
    BY DEF User!IsFiniteSet, IsFiniteSet
  <2> QED BY <2>1, FS_Subset DEF User!AccountsAssumption, AccountsInv, AccountsTyped
<1> DEFINE before == saved \ (told.cut \cup UncountedKeys)
           after == saved' \ (told'.cut \cup UncountedKeys')
<1>2. Cardinality(after) <= Cardinality(before) /\ Cardinality(after) \in Nat
      /\ Cardinality(before) \in Nat
  BY <1>1, FS_Subset, FS_CardinalityType
<1>3. Cardinality(before) <= MaxUserResources /\ MaxUserResources \in Nat
  BY DEF AccountsInv, CountedStand, User!AccountsAssumption
<1> HIDE DEF before, after
<1>4. Cardinality(after) <= MaxUserResources
  BY <1>2, <1>3
<1> QED BY <1>4 DEF after, CountedStand

\* A step of a request whose row is not at stake.
LEMMA SavedUntouched ==
  ASSUME User!AccountsAssumption, AccountsInv, NEW r \in Handlers, NEW q \in AccountRequests,
         handler' = [handler EXCEPT ![r] = q], ~Uncounted(q), ~Uncounted(handler[r]),
         told'.kept = told.kept, told'.removed = told.removed, told'.cut = told.cut,
         saved' = saved
  PROVE  RowsStand' /\ CountedStand' /\ User!SavedIsKept'
<1>1. \A k \in Items : Counting(k)' = Counting(k)
  BY DEF Counting, AccountsInv, AccountsTyped
<1>2. RowsStand'
  BY <1>1 DEF AccountsInv, RowsStand
<1>3. UncountedKeys' = UncountedKeys
  BY <1>1 DEF UncountedKeys
<1>4. CountedStand'
  BY <1>3, CountedKept
<1> QED BY <1>2, <1>4 DEF AccountsInv, User!SavedIsKept

\* One that changes nothing but where its request is.
LEMMA RequestMoves ==
  ASSUME User!AccountsAssumption, AccountsInv, NEW r \in Handlers, NEW q \in AccountRequests,
         handler' = [handler EXCEPT ![r] = q], ~Uncounted(q), ~Uncounted(handler[r]),
         q.at = "right" => passwordOf[q.key] = q.password,
         UNCHANGED <<saved, passwordOf, told>>
  PROVE  AccountsInv'
<1>1. AccountsTyped'
  BY DEF AccountsInv, AccountsTyped
<1>2. RowsStand' /\ CountedStand' /\ User!SavedIsKept'
  BY SavedUntouched
<1>3. PasswordsStand'
  BY DEF AccountsInv, AccountsTyped, PasswordsStand
<1> QED BY <1>1, <1>2, <1>3 DEF AccountsInv, User!AccountsAreTheirs

LEMMA IdleIsTyped == User!Idle \in AccountRequests /\ User!Idle.at = "idle" /\ ~Uncounted(User!Idle)
BY DEF AccountRequests, User!Idle, Uncounted

\* What is known of a request by where it is.
LEMMA RequestIsTyped ==
  ASSUME AccountsInv, NEW r \in Handlers
  PROVE  /\ (handler[r].at \in {"create", "count", "undo", "delete"} =>
               /\ handler[r].key \in Items
               /\ \A at \in {"create", "count", "undo", "delete"} :
                    /\ [handler[r] EXCEPT !.at = at] \in AccountRequests
                    /\ [handler[r] EXCEPT !.at = at].at = at
                    /\ [handler[r] EXCEPT !.at = at].key = handler[r].key)
         /\ (handler[r].at \in {"find", "register", "read", "right", "wrong"} =>
               /\ handler[r].key \in Emails /\ handler[r].password \in Passwords
               /\ \A at \in {"find", "register", "read", "right", "wrong"} :
                    /\ [handler[r] EXCEPT !.at = at] \in AccountRequests
                    /\ [handler[r] EXCEPT !.at = at].at = at
                    /\ [handler[r] EXCEPT !.at = at].key = handler[r].key
                    /\ [handler[r] EXCEPT !.at = at].password = handler[r].password)
<1>1. handler[r] \in AccountRequests
  BY DEF AccountsInv, AccountsTyped
<1> QED BY <1>1 DEF AccountRequests, User!Idle

LEMMA BeginKept ==
  ASSUME User!AccountsAssumption, AccountsInv, NEW r \in Handlers, NEW kind, NEW key, NEW password,
         \/ kind \in {"save", "remove"} /\ key \in Items /\ password = None
         \/ kind \in {"signup", "login"} /\ key \in Emails /\ password \in Passwords,
         User!Begin(r, kind, key, password)
  PROVE  AccountsInv'
<1> DEFINE q == [kind |-> kind, at |-> User!First(kind), key |-> key, password |-> password]
<1>1. q \in AccountRequests /\ q.at \in {"create", "delete", "find", "read"}
  BY DEF AccountRequests, User!First, User!Kinds
<1>2. UNCHANGED <<saved, passwordOf, told>> /\ ~Uncounted(handler[r])
      /\ (handler' = handler \/ handler' = [handler EXCEPT ![r] = q])
  BY IdleIsTyped DEF User!Begin
<1> HIDE DEF q
<1>3. CASE handler' = handler
  BY <1>2, <1>3 DEF AccountsInv, AccountsTyped, RowsStand, CountedStand, PasswordsStand, Counting,
     UncountedKeys, User!SavedIsKept, User!AccountsAreTheirs
<1>4. CASE handler' = [handler EXCEPT ![r] = q]
  BY <1>1, <1>2, <1>4, RequestMoves DEF Uncounted
<1> QED BY <1>2, <1>3, <1>4

\* The row is inserted; the request goes on to count.
LEMMA CreateKept ==
  ASSUME User!AccountsAssumption, AccountsInv, NEW r \in Handlers, User!Create(r)
  PROVE  AccountsInv'
<1> DEFINE k == handler[r].key
           q == [handler[r] EXCEPT !.at = "count"]
<1>1. /\ handler[r].at = "create" /\ saved' = saved \cup {k}
      /\ UNCHANGED <<passwordOf, told>>
      /\ (k \in saved => handler' = [handler EXCEPT ![r] = User!Idle])
      /\ (k \notin saved => handler' = [handler EXCEPT ![r].at = "count"])
  BY DEF User!Create, User!Ends, User!Goes, AccountsInv, User!SavedIsKept
<1>2. k \in Items /\ q \in AccountRequests /\ q.at = "count" /\ q.key = k
  BY <1>1, RequestIsTyped
<1>3. ~Uncounted(handler[r])
  BY <1>1 DEF Uncounted
<1>4. CASE k \in saved
  <2>1. saved' = saved
    BY <1>1, <1>4
  <2> QED BY <1>1, <1>3, <1>4, <2>1, IdleIsTyped, RequestMoves
<1>5. CASE k \notin saved
  <2>1. handler' = [handler EXCEPT ![r] = q]
    BY <1>1, <1>5 DEF AccountsInv, AccountsTyped
  <2> HIDE DEF k, q
  <2>2. AccountsTyped'
    BY <1>1, <1>2, <2>1 DEF AccountsInv, AccountsTyped
  <2>3. \A j \in Items : Counting(j)' = IF j = k THEN Counting(j) \cup {r} ELSE Counting(j)
    BY <1>2, <1>3, <2>1 DEF Counting, Uncounted, AccountsInv, AccountsTyped
  <2>4. Counting(k) # {} \/ k \in told.kept => k \in told.removed
    BY <1>2, <1>5 DEF AccountsInv, RowsStand, User!SavedIsKept
  <2>5. RowsStand'
    <3>1. ASSUME NEW j \in Items, (Counting(j) # {})'
          PROVE  (/\ j \in saved \cup told.removed
                  /\ j \in told.kept => j \in told.removed
                  /\ \A p, t \in Counting(j) : p # t => j \in told.removed)'
      <4>1. CASE j = k
        BY <1>1, <2>3, <2>4, <4>1
      <4>2. CASE j # k
        BY <1>1, <2>3, <3>1, <4>2 DEF AccountsInv, RowsStand
      <4> QED BY <4>1, <4>2
    <3> QED BY <3>1 DEF RowsStand
  <2>6. UncountedKeys' = UncountedKeys \cup {k}
    BY <1>2, <2>3 DEF UncountedKeys
  <2>7. CountedStand'
    BY <1>1, <2>6, CountedKept
  <2>8. PasswordsStand'
    BY <1>1, <1>2, <2>1 DEF AccountsInv, AccountsTyped, PasswordsStand
  <2> QED BY <1>1, <2>2, <2>5, <2>7, <2>8 DEF AccountsInv, User!SavedIsKept, User!AccountsAreTheirs
<1> QED BY <1>4, <1>5

\* There are too many rows, or the row is kept.
LEMMA CountKept ==
  ASSUME User!AccountsAssumption, AccountsInv, NEW r \in Handlers, User!Count(r)
  PROVE  AccountsInv'
<1> DEFINE k == handler[r].key
           q == [handler[r] EXCEPT !.at = "undo"]
<1>1. /\ handler[r].at = "count" /\ UNCHANGED <<saved, passwordOf>>
      /\ \/ handler' = [handler EXCEPT ![r].at = "undo"] /\ told' = told
         \/ /\ handler' = [handler EXCEPT ![r] = User!Idle]
            /\ ~(User!Cardinality(saved) > MaxUserResources)
            /\ told' = [told EXCEPT !.kept = @ \cup {k}]
  BY DEF User!Count, User!Ends, User!Goes
<1>2. k \in Items /\ q \in AccountRequests /\ q.at = "undo" /\ q.key = k
  BY <1>1, RequestIsTyped
<1>3. r \in Counting(k)
  BY <1>1 DEF Counting, Uncounted
<1>4. CASE handler' = [handler EXCEPT ![r].at = "undo"] /\ told' = told
  <2>1. handler' = [handler EXCEPT ![r] = q]
    BY <1>4 DEF AccountsInv, AccountsTyped
  <2> HIDE DEF k, q
  <2>2. AccountsTyped'
    BY <1>1, <1>2, <1>4, <2>1 DEF AccountsInv, AccountsTyped
  <2>3. \A j \in Items : Counting(j)' = Counting(j)
    BY <1>1, <1>2, <2>1 DEF Counting, Uncounted, AccountsInv, AccountsTyped, k
  <2>4. RowsStand' /\ UncountedKeys' = UncountedKeys
    BY <1>1, <1>4, <2>3 DEF AccountsInv, RowsStand, UncountedKeys
  <2>5. CountedStand'
    BY <1>1, <1>4, <2>4, CountedKept
  <2>6. PasswordsStand'
    BY <1>1, <1>2, <2>1 DEF AccountsInv, AccountsTyped, PasswordsStand
  <2> QED BY <1>1, <1>4, <2>2, <2>4, <2>5, <2>6
          DEF AccountsInv, User!SavedIsKept, User!AccountsAreTheirs
<1>5. CASE /\ handler' = [handler EXCEPT ![r] = User!Idle]
           /\ ~(User!Cardinality(saved) > MaxUserResources)
           /\ told' = [told EXCEPT !.kept = @ \cup {k}]
  <2> HIDE DEF k, q
  <2>1. /\ told' \in [kept : SUBSET Items, removed : SUBSET Items, cut : SUBSET Items,
                      welcomed : SUBSET Emails, entered : SUBSET (Emails \X Passwords)]
        /\ told'.kept = told.kept \cup {k} /\ told'.removed = told.removed
        /\ told'.welcomed = told.welcomed /\ told'.entered = told.entered
    BY <1>2, <1>5 DEF AccountsInv, AccountsTyped
  <2>2. AccountsTyped'
    BY <1>1, <1>5, <2>1, IdleIsTyped DEF AccountsInv, AccountsTyped
  <2>3. \A j \in Items : Counting(j)' = Counting(j) \ {r}
    BY <1>5, IdleIsTyped DEF Counting, AccountsInv, AccountsTyped
  <2>4. k \in saved \cup told.removed /\ (Counting(k) \ {r} # {} => k \in told.removed)
    BY <1>2, <1>3 DEF AccountsInv, RowsStand
  <2>5. RowsStand'
    <3>1. ASSUME NEW j \in Items, (Counting(j) # {})'
          PROVE  (/\ j \in saved \cup told.removed
                  /\ j \in told.kept => j \in told.removed
                  /\ \A p, t \in Counting(j) : p # t => j \in told.removed)'
      <4>1. CASE j = k
        BY <1>1, <2>1, <2>3, <2>4, <3>1, <4>1
      <4>2. CASE j # k
        BY <1>1, <2>1, <2>3, <3>1, <4>2 DEF AccountsInv, RowsStand
      <4> QED BY <4>1, <4>2
    <3> QED BY <3>1 DEF RowsStand
  <2>6. User!SavedIsKept'
    BY <1>1, <2>1, <2>4 DEF AccountsInv, User!SavedIsKept
  <2>7. CountedStand'
    <3>1. User!Cardinality(saved) = Cardinality(saved)
      BY Zenon DEF User!Cardinality, Cardinality
    <3>2. IsFiniteSet(saved)
      <4>1. User!IsFiniteSet(Items) = IsFiniteSet(Items)
        BY DEF User!IsFiniteSet, IsFiniteSet
      <4> QED BY <4>1, FS_Subset DEF User!AccountsAssumption, AccountsInv, AccountsTyped
    <3> DEFINE counted == saved' \ (told'.cut \cup UncountedKeys')
    <3>3. counted \subseteq saved
      BY <1>1
    <3>4. Cardinality(counted) <= Cardinality(saved) /\ Cardinality(saved) \in Nat
          /\ Cardinality(counted) \in Nat
      BY <3>2, <3>3, FS_Subset, FS_CardinalityType
    <3>5. MaxUserResources \in Nat
      BY DEF User!AccountsAssumption
    <3> HIDE DEF counted
    <3>6. Cardinality(counted) <= MaxUserResources
      BY <1>5, <3>1, <3>4, <3>5
    <3> QED BY <3>6 DEF counted, CountedStand
  <2>8. PasswordsStand'
    BY <1>1, <1>5, IdleIsTyped DEF AccountsInv, AccountsTyped, PasswordsStand
  <2> QED BY <1>1, <2>1, <2>2, <2>5, <2>6, <2>7, <2>8 DEF AccountsInv, User!AccountsAreTheirs
<1> QED BY <1>1, <1>4, <1>5

\* A row is taken back by its request, or removed by another.
LEMMA RowGoes ==
  ASSUME User!AccountsAssumption, AccountsInv, NEW r \in Handlers, User!Undo(r) \/ User!Delete(r)
  PROVE  AccountsInv'
<1>2. PICK k \in Items : k = handler[r].key
  BY RequestIsTyped DEF User!Undo, User!Delete
<1>1. /\ saved' = saved \ {k} /\ handler' = [handler EXCEPT ![r] = User!Idle]
      /\ UNCHANGED passwordOf
      /\ \/ handler[r].at = "undo" /\ told' = told
         \/ /\ handler[r].at = "delete"
            /\ told' = [told EXCEPT !.removed = @ \cup {k}, !.cut = @ \ {k}]
  BY <1>2 DEF User!Undo, User!Delete, User!Ends
<1>3. handler[r].at = "undo" => r \in Counting(k)
  BY <1>2 DEF Counting, Uncounted
<1>4. \A j \in Items : Counting(j)' = Counting(j) \ {r}
  BY <1>1, IdleIsTyped DEF Counting, AccountsInv, AccountsTyped
<1>5. /\ told' \in [kept : SUBSET Items, removed : SUBSET Items, cut : SUBSET Items,
                    welcomed : SUBSET Emails, entered : SUBSET (Emails \X Passwords)]
      /\ told'.kept = told.kept /\ told.removed \subseteq told'.removed
      /\ told'.welcomed = told.welcomed /\ told'.entered = told.entered
      /\ told.cut \ {k} \subseteq told'.cut
      /\ (handler[r].at # "undo" => k \in told'.removed)
  <2>1. told \in [kept : SUBSET Items, removed : SUBSET Items, cut : SUBSET Items,
                    welcomed : SUBSET Emails, entered : SUBSET (Emails \X Passwords)]
    BY DEF AccountsInv, AccountsTyped
  <2>2. CASE told' = told
    BY <1>1, <2>1, <2>2
  <2>3. CASE told' = [told EXCEPT !.removed = @ \cup {k}, !.cut = @ \ {k}]
    BY <1>2, <2>1, <2>3
  <2> QED BY <1>1, <2>2, <2>3
<1>6. Counting(k)' # {} \/ k \in told.kept => k \in told'.removed
  <2>1. CASE handler[r].at = "undo"
    BY <1>2, <1>3, <1>4, <1>5, <2>1 DEF AccountsInv, RowsStand
  <2> QED BY <1>5, <2>1
<1>7. UncountedKeys \subseteq UncountedKeys' \cup {k}
  <2>1. ASSUME NEW j \in Items, j # k PROVE r \notin Counting(j)
    BY <1>2, <2>1 DEF Counting
  <2> QED BY <1>4, <2>1 DEF UncountedKeys
<1>8. AccountsTyped'
  BY <1>1, <1>5, IdleIsTyped DEF AccountsInv, AccountsTyped
<1>9. RowsStand'
  <2>1. ASSUME NEW j \in Items, (Counting(j) # {})'
        PROVE  (/\ j \in saved \cup told.removed
                /\ j \in told.kept => j \in told.removed
                /\ \A p, t \in Counting(j) : p # t => j \in told.removed)'
    <3>1. CASE j = k
      BY <1>1, <1>5, <1>6, <2>1, <3>1
    <3>2. CASE j # k
      BY <1>1, <1>4, <1>5, <2>1, <3>2 DEF AccountsInv, RowsStand
    <3> QED BY <3>1, <3>2
  <2> QED BY <2>1 DEF RowsStand
<1>10. User!SavedIsKept'
  BY <1>1, <1>5, <1>6 DEF AccountsInv, User!SavedIsKept
<1>11. CountedStand'
  BY <1>1, <1>5, <1>7, CountedKept
<1>12. PasswordsStand'
  BY <1>1, IdleIsTyped DEF AccountsInv, AccountsTyped, PasswordsStand
<1> QED BY <1>1, <1>5, <1>8, <1>9, <1>10, <1>11, <1>12 DEF AccountsInv, User!AccountsAreTheirs

\* An account is made once, and opened with its password.
LEMMA AccountKept ==
  ASSUME User!AccountsAssumption, AccountsInv, NEW r \in Handlers,
         User!Find(r) \/ User!Register(r) \/ User!Read(r) \/ User!Compare(r)
  PROVE  AccountsInv'
<1> DEFINE e == handler[r].key
           p == handler[r].password
<1>0. ~Uncounted(handler[r]) /\ saved' = saved
      /\ handler[r].at \in {"find", "register", "read", "right", "wrong"}
  BY DEF Uncounted, User!Find, User!Register, User!Read, User!Compare
<1>1. e \in Emails /\ p \in Passwords /\ p # None
  BY <1>0, RequestIsTyped DEF User!AccountsAssumption
<1>2. /\ passwordOf \in [Emails -> Passwords \cup {User!Google, None}] /\ handler \in [Handlers -> AccountRequests]
      /\ told \in [kept : SUBSET Items, removed : SUBSET Items, cut : SUBSET Items,
                   welcomed : SUBSET Emails, entered : SUBSET (Emails \X Passwords)]
      /\ PasswordsStand /\ User!AccountsAreTheirs /\ saved \subseteq Items
  BY DEF AccountsInv, AccountsTyped
<1>3. CASE User!Find(r) /\ passwordOf[e] = None
  <2> DEFINE q == [handler[r] EXCEPT !.at = "register"]
  <2>1. handler' = [handler EXCEPT ![r] = q] /\ UNCHANGED <<passwordOf, told>>
    BY <1>2, <1>3 DEF User!Find, User!Goes
  <2>2. q \in AccountRequests /\ q.at = "register"
    BY <1>0, RequestIsTyped
  <2> HIDE DEF q
  <2> QED BY <1>0, <2>1, <2>2, RequestMoves DEF Uncounted
<1>4. CASE User!Read(r)
  <2>0. PICK at \in {"right", "wrong"} : /\ handler' = [handler EXCEPT ![r].at = at]
                                         /\ (at = "right" => passwordOf[e] = p)
    <3>1. CASE passwordOf[e] = p
      BY <1>4, <3>1 DEF User!Read, User!Goes
    <3>2. CASE passwordOf[e] # p
      BY <1>4, <3>2 DEF User!Read, User!Goes
    <3> QED BY <3>1, <3>2
  <2> DEFINE q == [handler[r] EXCEPT !.at = at]
  <2>1. handler' = [handler EXCEPT ![r] = q] /\ UNCHANGED <<passwordOf, told>>
    BY <1>2, <1>4, <2>0 DEF User!Read
  <2>2. q \in AccountRequests /\ q.at = at /\ q.key = e /\ q.password = p
    <3>1. at \in {"find", "register", "read", "right", "wrong"}
      OBVIOUS
    <3> HIDE DEF q
    <3>2. \A to \in {"find", "register", "read", "right", "wrong"} :
            LET moved == [handler[r] EXCEPT !.at = to]
            IN moved \in AccountRequests /\ moved.at = to /\ moved.key = e /\ moved.password = p
      BY <1>0, RequestIsTyped
    <3> QED BY <3>1, <3>2 DEF q
  <2> HIDE DEF q
  <2> QED BY <1>0, <2>0, <2>1, <2>2, RequestMoves DEF Uncounted
<1>5. ASSUME handler' = [handler EXCEPT ![r] = User!Idle],
             passwordOf' \in [Emails -> Passwords \cup {User!Google, None}],
             \A f \in Emails : passwordOf[f] # None => passwordOf'[f] = passwordOf[f],
             \/ /\ told' = [told EXCEPT !.welcomed = @ \cup {e}] /\ passwordOf'[e] # None
             \/ /\ told' = [told EXCEPT !.entered = @ \cup {<<e, p>>}] /\ passwordOf'[e] = p
             \/ told' = told
      PROVE  AccountsInv'
  <2>1. /\ told' \in [kept : SUBSET Items, removed : SUBSET Items, cut : SUBSET Items,
                      welcomed : SUBSET Emails, entered : SUBSET (Emails \X Passwords)]
        /\ told'.kept = told.kept /\ told'.removed = told.removed /\ told'.cut = told.cut
        /\ (passwordOf'[e] # None \/ told'.welcomed = told.welcomed)
        /\ (passwordOf'[e] = p \/ told'.entered = told.entered)
        /\ told'.welcomed \subseteq told.welcomed \cup {e}
        /\ told'.entered \subseteq told.entered \cup {<<e, p>>}
    BY <1>1, <1>2, <1>5
  <2> HIDE DEF e, p
  <2>2. AccountsTyped'
    BY <1>0, <1>2, <1>5, <2>1, IdleIsTyped DEF AccountsTyped
  <2>3. RowsStand' /\ CountedStand' /\ User!SavedIsKept'
    BY <1>0, <1>5, <2>1, IdleIsTyped, SavedUntouched
  <2>4. User!AccountsAreTheirs'
    <3>1. \A f \in told'.welcomed : passwordOf'[f] # None
      BY <1>2, <1>5, <2>1 DEF User!AccountsAreTheirs
    <3>2. \A pair \in told.entered : pair[1] \in Emails /\ passwordOf[pair[1]] # None
      BY <1>2 DEF User!AccountsAreTheirs, User!AccountsAssumption
    <3>3. \A pair \in told'.entered : passwordOf'[pair[1]] = pair[2]
      BY <1>2, <1>5, <2>1, <3>2 DEF User!AccountsAreTheirs
    <3> QED BY <3>1, <3>3 DEF User!AccountsAreTheirs
  <2>5. PasswordsStand'
    <3> SUFFICES ASSUME NEW t \in Handlers, handler'[t].at = "right"
                 PROVE  passwordOf'[handler'[t].key] = handler'[t].password
      BY DEF PasswordsStand
    <3>1. t # r /\ handler'[t] = handler[t]
      BY <1>2, <1>5, IdleIsTyped
    <3>2. handler[t].at = "right"
      BY <3>1
    <3>3. handler[t].key \in Emails /\ handler[t].password \in Passwords
      BY <3>2, RequestIsTyped
    <3>4. passwordOf[handler[t].key] = handler[t].password
      BY <1>2, <3>2 DEF PasswordsStand
    <3> QED BY <1>5, <3>1, <3>3, <3>4 DEF User!AccountsAssumption
  <2> QED BY <2>2, <2>3, <2>4, <2>5 DEF AccountsInv
<1>6. CASE User!Find(r) /\ passwordOf[e] # None
  BY <1>2, <1>5, <1>6 DEF User!Find, User!Ends
<1>7. CASE User!Register(r)
  <2>1. passwordOf' = IF passwordOf[e] = None THEN [passwordOf EXCEPT ![e] = p] ELSE passwordOf
    BY <1>7 DEF User!Register, User!Registered
  <2>2. /\ passwordOf' \in [Emails -> Passwords \cup {User!Google, None}] /\ passwordOf'[e] # None
        /\ \A f \in Emails : passwordOf[f] # None => passwordOf'[f] = passwordOf[f]
    BY <1>1, <1>2, <2>1
  <2> QED BY <1>5, <1>7, <2>2 DEF User!Register, User!Ends
<1>8. CASE User!Compare(r)
  <2>1. handler[r].at = "right" => passwordOf[e] = p
    BY <1>2 DEF PasswordsStand
  <2>2. handler' = [handler EXCEPT ![r] = User!Idle] /\ passwordOf' = passwordOf
    BY <1>8 DEF User!Compare, User!Ends
  <2>3. \/ told' = [told EXCEPT !.entered = @ \cup {<<e, p>>}] /\ passwordOf'[e] = p
        \/ told' = told
    <3>1. CASE handler[r].at = "right"
      BY <1>8, <2>1, <2>2, <3>1 DEF User!Compare
    <3>2. CASE handler[r].at # "right"
      <4>1. told' = [told EXCEPT !.entered = @ \cup {}]
        BY <1>8, <3>2 DEF User!Compare
      <4> QED BY <1>2, <4>1
    <3> QED BY <3>1, <3>2
  <2> QED BY <1>2, <1>5, <2>2, <2>3
<1> QED BY <1>3, <1>4, <1>6, <1>7, <1>8

\* A row whose request is cut off is not counted any more.
LEMMA RequestCut ==
  ASSUME User!AccountsAssumption, AccountsInv, NEW r \in Handlers, User!Fail(r)
  PROVE  AccountsInv'
<1>1. PICK k : k = handler[r].key
  OBVIOUS
<1> DEFINE cutOff == User!CutOff({r})
<1>2. /\ handler' = [handler EXCEPT ![r] = User!Idle] /\ UNCHANGED <<saved, passwordOf>>
      /\ told' = [told EXCEPT !.cut = @ \cup cutOff]
  BY DEF User!Fail, User!Ends
<1>3. cutOff = IF Uncounted(handler[r]) THEN {k} \cap saved ELSE {}
  BY <1>1 DEF User!CutOff, Uncounted
<1> HIDE DEF cutOff
<1>4. \A j \in Items : Counting(j)' = Counting(j) \ {r}
  BY <1>2, IdleIsTyped DEF Counting, AccountsInv, AccountsTyped
<1>5. saved \subseteq Items
      /\ told \in [kept : SUBSET Items, removed : SUBSET Items, cut : SUBSET Items,
                   welcomed : SUBSET Emails, entered : SUBSET (Emails \X Passwords)]
  BY DEF AccountsInv, AccountsTyped
<1>6. /\ told' \in [kept : SUBSET Items, removed : SUBSET Items, cut : SUBSET Items,
                    welcomed : SUBSET Emails, entered : SUBSET (Emails \X Passwords)]
      /\ told'.kept = told.kept /\ told'.removed = told.removed
      /\ told'.welcomed = told.welcomed /\ told'.entered = told.entered
      /\ told'.cut = told.cut \cup cutOff
  BY <1>2, <1>3, <1>5
<1>7. UncountedKeys \cap saved \subseteq UncountedKeys' \cup cutOff
  BY <1>1, <1>3, <1>4, <1>5 DEF UncountedKeys, Counting
<1>8. AccountsTyped'
  BY <1>2, <1>5, <1>6, IdleIsTyped DEF AccountsInv, AccountsTyped
<1>9. RowsStand' /\ User!SavedIsKept'
  BY <1>2, <1>4, <1>6 DEF AccountsInv, RowsStand, User!SavedIsKept
<1>10. CountedStand'
  BY <1>2, <1>6, <1>7, CountedKept
<1>11. PasswordsStand' /\ User!AccountsAreTheirs'
  BY <1>2, <1>6, IdleIsTyped DEF AccountsInv, AccountsTyped, PasswordsStand, User!AccountsAreTheirs
<1> QED BY <1>8, <1>9, <1>10, <1>11 DEF AccountsInv

LEMMA AllCut ==
  ASSUME User!AccountsAssumption, AccountsInv, User!Restart
  PROVE  AccountsInv'
<1> DEFINE cutOff == User!CutOff(Handlers)
<1>1. /\ handler' = [r \in Handlers |-> User!Idle] /\ UNCHANGED <<saved, passwordOf>>
      /\ told' = [told EXCEPT !.cut = @ \cup cutOff]
  BY DEF User!Restart
<1>2. cutOff = {k \in saved : \E r \in Handlers : Uncounted(handler[r]) /\ k = handler[r].key}
  BY DEF User!CutOff, Uncounted
<1> HIDE DEF cutOff
<1>3. \A j \in Items : Counting(j)' = {}
  BY <1>1, IdleIsTyped DEF Counting
<1>4. saved \subseteq Items
      /\ told \in [kept : SUBSET Items, removed : SUBSET Items, cut : SUBSET Items,
                   welcomed : SUBSET Emails, entered : SUBSET (Emails \X Passwords)]
  BY DEF AccountsInv, AccountsTyped
<1>5. /\ told' \in [kept : SUBSET Items, removed : SUBSET Items, cut : SUBSET Items,
                    welcomed : SUBSET Emails, entered : SUBSET (Emails \X Passwords)]
      /\ told'.kept = told.kept /\ told'.removed = told.removed
      /\ told'.welcomed = told.welcomed /\ told'.entered = told.entered
      /\ told'.cut = told.cut \cup cutOff
  BY <1>1, <1>2, <1>4
<1>6. UncountedKeys \cap saved \subseteq cutOff
  BY <1>2 DEF UncountedKeys, Counting
<1>7. AccountsTyped'
  BY <1>1, <1>4, <1>5, IdleIsTyped DEF AccountsInv, AccountsTyped
<1>8. RowsStand' /\ User!SavedIsKept'
  BY <1>1, <1>3, <1>5 DEF AccountsInv, RowsStand, User!SavedIsKept
<1>9. CountedStand'
  BY <1>1, <1>5, <1>6, CountedKept
<1>10. PasswordsStand' /\ User!AccountsAreTheirs'
  BY <1>1, <1>5, IdleIsTyped DEF AccountsInv, PasswordsStand, User!AccountsAreTheirs
<1> QED BY <1>7, <1>8, <1>9, <1>10 DEF AccountsInv

LEMMA AccountsSame ==
  ASSUME AccountsInv, UNCHANGED <<saved, passwordOf, handler, told>>
  PROVE  AccountsInv'
BY DEF AccountsInv, AccountsTyped, RowsStand, CountedStand, PasswordsStand, Counting,
       UncountedKeys, User!SavedIsKept, User!AccountsAreTheirs

\* An account of the Google provider is made where there was none.
LEMMA GoogleKept ==
  ASSUME User!AccountsAssumption, AccountsInv, NEW e \in Emails, User!EnterWithGoogle(e)
  PROVE  AccountsInv'
<1>1. /\ passwordOf[e] = None /\ passwordOf' = [passwordOf EXCEPT ![e] = User!Google]
      /\ UNCHANGED <<saved, handler, told>>
  BY DEF User!EnterWithGoogle
<1>2. /\ passwordOf \in [Emails -> Passwords \cup {User!Google, None}]
      /\ User!Google # None /\ None \notin Passwords
      /\ told.welcomed \subseteq Emails /\ told.entered \subseteq Emails \X Passwords
  BY DEF AccountsInv, AccountsTyped, User!AccountsAssumption
<1> HIDE DEF User!Google
<1>3. /\ passwordOf' \in [Emails -> Passwords \cup {User!Google, None}]
      /\ passwordOf'[e] # None
      /\ \A f \in Emails : passwordOf[f] # None => passwordOf'[f] = passwordOf[f]
  BY <1>1, <1>2
<1>4. AccountsTyped' /\ RowsStand' /\ CountedStand' /\ User!SavedIsKept'
  BY <1>1, <1>3 DEF AccountsInv, AccountsTyped, RowsStand, CountedStand, Counting, UncountedKeys,
     User!SavedIsKept
<1>5. PasswordsStand'
  <2> SUFFICES ASSUME NEW t \in Handlers, handler[t].at = "right"
               PROVE  passwordOf'[handler[t].key] = handler[t].password
    BY <1>1 DEF PasswordsStand
  <2>1. handler[t].key \in Emails /\ handler[t].password \in Passwords
    BY RequestIsTyped
  <2>2. passwordOf[handler[t].key] = handler[t].password
    BY DEF AccountsInv, PasswordsStand
  <2> QED BY <1>2, <1>3, <2>1, <2>2
<1>6. User!AccountsAreTheirs'
  <2>1. \A f \in told.welcomed : passwordOf'[f] # None
    BY <1>2, <1>3 DEF AccountsInv, User!AccountsAreTheirs
  <2>2. \A pair \in told.entered : passwordOf'[pair[1]] = pair[2]
    <3> SUFFICES ASSUME NEW pair \in told.entered PROVE passwordOf'[pair[1]] = pair[2]
      OBVIOUS
    <3>1. pair[1] \in Emails /\ pair[2] \in Passwords /\ passwordOf[pair[1]] = pair[2]
      BY <1>2 DEF AccountsInv, User!AccountsAreTheirs
    <3> QED BY <1>2, <1>3, <3>1
  <2> QED BY <1>1, <2>1, <2>2 DEF User!AccountsAreTheirs
<1> QED BY <1>4, <1>5, <1>6 DEF AccountsInv

LEMMA AccountsStep ==
  ASSUME User!AccountsAssumption, AccountsInv, User!Next
  PROVE  AccountsInv'
<1>1. ASSUME NEW r \in Handlers, User!Refuse(r) PROVE AccountsInv'
  <2>1. /\ handler' = [handler EXCEPT ![r] = User!Idle] /\ ~Uncounted(handler[r])
        /\ UNCHANGED <<saved, passwordOf, told>>
    BY <1>1 DEF User!Refuse, User!Ends, Uncounted
  <2> QED BY <2>1, IdleIsTyped, RequestMoves
<1>2. CASE User!Tick
  <2>1. UNCHANGED <<saved, passwordOf, handler, told>>
    BY <1>2 DEF User!Tick
  <2> QED BY <2>1, AccountsSame
<1>3. ASSUME NEW r \in Handlers, NEW kind \in {"save", "remove"}, NEW item \in Items,
             User!Begin(r, kind, item, None)
      PROVE  AccountsInv'
  BY <1>3, BeginKept
<1>4. ASSUME NEW r \in Handlers, NEW kind \in {"signup", "login"}, NEW e \in Emails,
             NEW p \in Passwords, User!Begin(r, kind, e, p)
      PROVE  AccountsInv'
  BY <1>4, BeginKept
<1>5. ASSUME NEW r \in Handlers,
             \/ User!Create(r) \/ User!Count(r) \/ User!Undo(r) \/ User!Delete(r)
             \/ User!Find(r) \/ User!Register(r) \/ User!Read(r) \/ User!Compare(r) \/ User!Fail(r)
      PROVE  AccountsInv'
  BY <1>5, CreateKept, CountKept, RowGoes, AccountKept, RequestCut
<1>6. CASE User!Restart
  BY <1>6, AllCut
<1>7. ASSUME NEW e \in Emails, User!EnterWithGoogle(e) PROVE AccountsInv'
  BY <1>7, GoogleKept
<1> QED BY <1>1, <1>2, <1>3, <1>4, <1>5, <1>6, <1>7 DEF User!Next

\* What is so in every behaviour of the part alone.
LEMMA AccountsAreSafe ==
  ASSUME User!AccountsAssumption
  PROVE  User!Spec =>
           [](User!LimitHolds /\ User!SavedIsKept /\ User!AccountsAreTheirs)
<1>1. User!Init => AccountsInv
  <2> SUFFICES ASSUME NEW rows \in SUBSET Items, User!Cardinality(rows) <= MaxUserResources,
                      User!InitWith(rows)
               PROVE  AccountsInv
    BY DEF User!Init
  <2>1. /\ saved = rows /\ passwordOf = [e \in Emails |-> None]
        /\ handler = [r \in Handlers |-> User!Idle]
        /\ told = [kept |-> {}, removed |-> {}, cut |-> {}, welcomed |-> {}, entered |-> {}]
    BY DEF User!InitWith
  <2>2. \A k \in Items : Counting(k) = {}
    BY <2>1, IdleIsTyped DEF Counting
  <2>3. saved \ (told.cut \cup UncountedKeys) = rows
    BY <2>1, <2>2 DEF UncountedKeys
  <2>4. User!Cardinality(rows) = Cardinality(rows)
    BY Zenon DEF User!Cardinality, Cardinality
  <2>5. CountedStand
    BY <2>3, <2>4 DEF CountedStand
  <2>6. AccountsTyped
    BY <2>1, IdleIsTyped DEF AccountsTyped
  <2> QED BY <2>1, <2>2, <2>5, <2>6, IdleIsTyped
          DEF AccountsInv, RowsStand, PasswordsStand, User!SavedIsKept, User!AccountsAreTheirs
<1>2. AccountsInv /\ [User!Next]_User!accountsVars => AccountsInv'
  <2>1. CASE UNCHANGED User!accountsVars
    BY <2>1, AccountsSame DEF User!accountsVars
  <2> QED BY <2>1, AccountsStep
<1>3. AccountsInv => User!LimitHolds /\ User!SavedIsKept /\ User!AccountsAreTheirs
  <2> SUFFICES ASSUME AccountsInv, \A r \in Handlers : handler[r] = User!Idle
               PROVE  User!Cardinality(saved \ told.cut) <= MaxUserResources
    BY DEF AccountsInv, User!LimitHolds
  <2>1. saved \ (told.cut \cup UncountedKeys) = saved \ told.cut
    BY IdleIsTyped DEF UncountedKeys, Counting
  <2>2. \A S : User!Cardinality(S) = Cardinality(S)
    BY Zenon DEF User!Cardinality, Cardinality
  <2> QED BY <2>1, <2>2 DEF AccountsInv, CountedStand
<1> QED BY <1>1, <1>2, <1>3, PTL DEF User!Spec

\* A behaviour of the composition is one of the part, or the part is at rest.
LEMMA UserAlone == PartsSpec => (part = "user" /\ User!Spec) \/ []~(part = "user")
<1>1. PartsInit => (part = "user" => User!Init)
  BY DEF PartsInit
<1>2. [PartsNext]_partsVars => (part = "user" => [User!Next]_(User!accountsVars))
  BY PartAtWork
<1>3. [PartsNext]_partsVars => ((part = "user") <=> (part = "user")')
  BY PartAtWork
<1> QED BY <1>1, <1>2, <1>3, PTL DEF PartsSpec, User!Spec

\* An entry of the Map of rates, and the Map.
IsEntry(e) ==
    /\ DOMAIN e = {"count", "resetAt", "place"}
    /\ e.count \in Nat \ {0} /\ e.resetAt \in Nat

IsMap(limits) ==
    DOMAIN limits \subseteq User!Scopes /\ \A s \in DOMAIN limits : IsEntry(limits[s])

\* What a use, or the use of another scope, makes of the entry of a scope.
Moves(limits, after, s, used) ==
    \/ User!OpenCount(after, s) = 0
    \/ /\ User!OpenCount(after, s) = User!OpenCount(limits, s) + used
       /\ User!OpenCount(limits, s) > 0 /\ after[s].resetAt = limits[s].resetAt
    \/ /\ used = 1 /\ User!OpenCount(after, s) = 1
       /\ after[s].resetAt = instant + Window

\* The count is that of an entry whose window is open.
LEMMA CountIsNumber ==
  ASSUME NEW limits, IsMap(limits), instant \in Nat, NEW s
  PROVE  /\ User!OpenCount(limits, s) \in Nat
         /\ User!OpenCount(limits, s) > 0 <=> s \in DOMAIN limits /\ User!IsOpen(limits[s])
         /\ User!OpenCount(limits, s) > 0 =>
              /\ User!OpenCount(limits, s) = limits[s].count
              /\ s \in DOMAIN limits
              /\ limits[s].resetAt \in Nat /\ limits[s].resetAt > instant
BY DEF IsMap, IsEntry, User!OpenCount, User!IsOpen

\* One use of a scope: its entry counts it or is begun anew, the others stay or go.
LEMMA ConsumedMoves ==
  ASSUME User!AccountsAssumption, instant \in Nat, NEW limits, IsMap(limits),
         NEW t \in User!Scopes
  PROVE  /\ IsMap(User!Consumed(limits, t))
         /\ \A s \in User!Scopes :
              /\ s # t => Moves(limits, User!Consumed(limits, t), s, 0)
              /\ ~User!Allowed(limits, t) => Moves(limits, User!Consumed(limits, t), s, 0)
         /\ User!Allowed(limits, t) =>
              /\ Moves(limits, User!Consumed(limits, t), t, 1)
              /\ User!OpenCount(User!Consumed(limits, t), t) <= RateLimit[t]
<1> DEFINE after == User!Consumed(limits, t)
           used == User!Used(limits, t)
           kept == User!Kept(used)
<1>0. RateLimit[t] \in Nat /\ Window \in Nat \ {0}
  BY DEF User!AccountsAssumption
<1>1. CASE ~User!Allowed(limits, t)
  <2>1. after = limits
    BY <1>1 DEF User!Consumed
  <2>2. \A s \in User!Scopes : Moves(limits, limits, s, 0)
    BY CountIsNumber DEF Moves
  <2> QED BY <1>1, <2>1, <2>2
<1>2. CASE User!Allowed(limits, t)
  <2> DEFINE e == User!EntryOf(limits, t)
             c == User!OpenCount(limits, t)
  <2>1. /\ DOMAIN e = {"count", "resetAt", "place"}
        /\ e.count = c /\ c \in Nat /\ e.resetAt \in Nat
        /\ e.resetAt = IF c > 0 THEN limits[t].resetAt ELSE instant + Window
    BY <1>0, CountIsNumber DEF User!EntryOf, IsMap, IsEntry
  <2>2. c + 1 <= RateLimit[t]
    BY <1>0, <1>2, <2>1 DEF User!Allowed
  <2> HIDE DEF e
  <2>3. /\ DOMAIN used = DOMAIN limits \cup {t}
        /\ \A s \in DOMAIN limits : s # t => used[s] = limits[s]
        /\ DOMAIN used[t] = {"count", "resetAt", "place"}
        /\ used[t].count = c + 1 /\ used[t].resetAt = e.resetAt
    BY <2>1 DEF User!Used, e
  <2>4. \A s \in DOMAIN used : IsEntry(used[s])
    BY <2>1, <2>3 DEF IsMap, IsEntry
  <2>5. kept \subseteq DOMAIN used
    BY DEF User!Kept
  <2> HIDE DEF used, kept
  <2>6. after = User!Bounded(used, kept)
    BY <1>2 DEF User!Consumed, used, kept
  <2>7. /\ DOMAIN after = kept
        /\ \A s \in kept : /\ DOMAIN after[s] = DOMAIN used[s]
                           /\ after[s].count = used[s].count
                           /\ after[s].resetAt = used[s].resetAt
    BY <2>4, <2>5, <2>6 DEF User!Bounded, IsEntry
  <2> HIDE DEF after
  <2>8. IsMap(after)
    BY <2>3, <2>4, <2>5, <2>7 DEF IsMap, IsEntry
  <2>9. ASSUME NEW s \in User!Scopes, s # t PROVE Moves(limits, after, s, 0)
    BY <2>3, <2>5, <2>7, <2>9, <2>8, CountIsNumber DEF Moves, User!OpenCount, User!IsOpen
  <2>10. Moves(limits, after, t, 1) /\ User!OpenCount(after, t) <= RateLimit[t]
    <3>1. CASE User!OpenCount(after, t) = 0
      BY <1>0, <3>1 DEF Moves
    <3>2. CASE User!OpenCount(after, t) # 0
      <4>1. User!OpenCount(after, t) = c + 1 /\ after[t].resetAt = e.resetAt
        BY <2>3, <2>7, <3>2 DEF User!OpenCount
      <4> QED BY <1>0, <2>1, <2>2, <4>1 DEF Moves
    <3> QED BY <3>1, <3>2
  <2> QED BY <1>2, <2>8, <2>9, <2>10 DEF after
<1> QED BY <1>1, <1>2

\* The uses of a scope, with the window that is open or the present instant as the end
\* of those before: each window holds no more than the limit, and begins after the end
\* of the one before.
ScopeStands(s, u, count, resetAt, at) ==
    LET n == Len(u)
        limit == RateLimit[s]
    IN /\ u \in Seq(Nat)
       /\ \A i \in 1..n : u[i] <= at
       /\ \A i, j \in 1..n : i <= j => u[i] <= u[j]
       /\ \A i \in 1..(n - (2 * limit - 1)) : u[i + (2 * limit - 1)] >= u[i] + Window
       /\ count \in Nat /\ count <= limit /\ count <= n
       /\ count > 0 => /\ resetAt \in Nat /\ resetAt > at
                       /\ u[n - count + 1] + Window = resetAt
                       /\ \A j \in 1..(n - count - limit + 1) : u[j] + Window + Window <= resetAt
       /\ count = 0 => \A j \in 1..(n - limit + 1) : u[j] + Window <= at

RatesInv ==
    /\ IsMap(rateLimits) /\ instant \in Nat
    /\ uses \in [User!Scopes -> Seq(Nat)]
    /\ \A s \in User!Scopes :
          ScopeStands(s, uses[s], User!OpenCount(rateLimits, s), rateLimits[s].resetAt, instant)

\* A history that begins anew.
LEMMA NothingUsed ==
  ASSUME User!AccountsAssumption, NEW s \in User!Scopes, NEW resetAt, NEW at \in Nat
  PROVE  ScopeStands(s, <<>>, 0, resetAt, at)
BY DEF ScopeStands, User!AccountsAssumption

LEMMA FirstUse ==
  ASSUME User!AccountsAssumption, NEW s \in User!Scopes, NEW at \in Nat
  PROVE  ScopeStands(s, <<at>>, 1, at + Window, at)
<1>1. RateLimit[s] \in Nat \ {0} /\ Window \in Nat \ {0}
  BY DEF User!AccountsAssumption
<1>2. <<at>> \in Seq(Nat) /\ Len(<<at>>) = 1 /\ <<at>>[1] = at
  OBVIOUS
<1>3. \A i \in 1..1 : i = 1
  OBVIOUS
<1>4. 1 - (2 * RateLimit[s] - 1) <= 0 /\ 1 - 1 - RateLimit[s] + 1 <= 0
  BY <1>1
<1> QED BY <1>1, <1>2, <1>3, <1>4 DEF ScopeStands

\* One use more, in the window that is open or in the first after it.
LEMMA NextUse ==
  ASSUME User!AccountsAssumption, NEW s \in User!Scopes, NEW at \in Nat, NEW u, NEW count,
         NEW resetAt, ScopeStands(s, u, count, resetAt, at), count < RateLimit[s],
         NEW ends, ends = IF count > 0 THEN resetAt ELSE at + Window
  PROVE  ScopeStands(s, u \o <<at>>, count + 1, ends, at)
<1> DEFINE v == u \o <<at>>
           n == Len(u)
           limit == RateLimit[s]
<1>1. limit \in Nat \ {0} /\ Window \in Nat \ {0}
  BY DEF User!AccountsAssumption
<1>2. /\ u \in Seq(Nat) /\ n \in Nat /\ count \in Nat /\ count <= n
      /\ \A i \in 1..n : u[i] \in Nat /\ u[i] <= at
      /\ \A i, j \in 1..n : i <= j => u[i] <= u[j]
      /\ \A i \in 1..(n - (2 * limit - 1)) : u[i + (2 * limit - 1)] >= u[i] + Window
      /\ count > 0 => /\ resetAt \in Nat /\ resetAt > at
                      /\ u[n - count + 1] + Window = resetAt
                      /\ \A j \in 1..(n - count - limit + 1) : u[j] + Window + Window <= resetAt
      /\ count = 0 => \A j \in 1..(n - limit + 1) : u[j] + Window <= at
  BY DEF ScopeStands
<1>3. v \in Seq(Nat) /\ Len(v) = n + 1 /\ v[n + 1] = at /\ \A i \in 1..n : v[i] = u[i]
  BY <1>2
<1>0. count + 1 <= limit
  BY <1>1, <1>2
<1> HIDE DEF v, n, limit
<1>4. \A j \in 1..(n - count - limit + 1) : u[j] + Window <= at
  <2>1. CASE count = 0
    BY <1>1, <1>2, <2>1
  <2>2. CASE count > 0
    <3> SUFFICES ASSUME NEW j \in 1..(n - count - limit + 1) PROVE u[j] + Window <= at
      OBVIOUS
    <3>1. n - count + 1 \in 1..n /\ j \in 1..n
      BY <1>1, <1>2, <2>2
    <3>2. u[n - count + 1] \in Nat /\ u[n - count + 1] <= at /\ u[j] \in Nat
      BY <1>2, <3>1
    <3>3. u[j] + Window + Window <= resetAt /\ u[n - count + 1] + Window = resetAt
      BY <1>2, <2>2
    <3> QED BY <1>1, <3>2, <3>3
  <2> QED BY <1>2, <2>1, <2>2
<1>5. \A i \in 1..(n + 1) : v[i] \in Nat /\ v[i] <= at
  <2>1. \A i \in 1..(n + 1) : i = n + 1 \/ i \in 1..n
    BY <1>2
  <2>2. at <= at
    OBVIOUS
  <2> QED BY <1>2, <1>3, <2>1, <2>2
<1>6. \A i, j \in 1..(n + 1) : i <= j => v[i] <= v[j]
  <2> SUFFICES ASSUME NEW i \in 1..(n + 1), NEW j \in 1..(n + 1), i <= j PROVE v[i] <= v[j]
    OBVIOUS
  <2>1. CASE j = n + 1
    BY <1>3, <1>5, <2>1
  <2>2. CASE j # n + 1
    <3>1. i \in 1..n /\ j \in 1..n
      BY <1>2, <2>2
    <3> QED BY <1>2, <1>3, <3>1
  <2> QED BY <2>1, <2>2
<1>7. \A i \in 1..(n + 1 - (2 * limit - 1)) : v[i + (2 * limit - 1)] >= v[i] + Window
  <2> SUFFICES ASSUME NEW i \in 1..(n + 1 - (2 * limit - 1))
               PROVE  v[i + (2 * limit - 1)] >= v[i] + Window
    OBVIOUS
  <2>1. CASE i = n + 1 - (2 * limit - 1)
    <3>0. i \in Int /\ i >= 1
      OBVIOUS
    <3>1. i \in 1..(n - count - limit + 1) /\ i \in 1..n /\ i + (2 * limit - 1) = n + 1
      BY <1>0, <1>1, <1>2, <2>1, <3>0
    <3>2. u[i] + Window <= at
      BY <1>4, <3>1
    <3> QED BY <1>1, <1>2, <1>3, <3>1, <3>2
  <2>2. CASE i # n + 1 - (2 * limit - 1)
    <3>1. i \in 1..(n - (2 * limit - 1)) /\ i \in 1..n /\ i + (2 * limit - 1) \in 1..n
      BY <1>1, <1>2, <2>2
    <3> QED BY <1>2, <1>3, <3>1
  <2> QED BY <2>1, <2>2
<1>8. /\ count + 1 \in Nat /\ count + 1 <= limit /\ count + 1 <= n + 1 /\ count + 1 # 0
      /\ ends \in Nat /\ ends > at
      /\ (n + 1) - (count + 1) = n - count
  BY <1>0, <1>1, <1>2
<1>9. v[n - count + 1] + Window = ends
  <2>1. CASE count = 0
    BY <1>2, <1>3, <2>1
  <2>2. CASE count > 0
    <3>1. n - count + 1 \in 1..n
      BY <1>2, <2>2
    <3> QED BY <1>2, <1>3, <2>2, <3>1
  <2> QED BY <1>2, <2>1, <2>2
<1>10. \A j \in 1..(n - count - limit + 1) : v[j] + Window + Window <= ends
  <2> SUFFICES ASSUME NEW j \in 1..(n - count - limit + 1) PROVE v[j] + Window + Window <= ends
    OBVIOUS
  <2>1. j \in 1..n
    BY <1>1, <1>2
  <2>2. v[j] = u[j] /\ u[j] \in Nat /\ u[j] + Window <= at
    BY <1>2, <1>3, <1>4, <2>1
  <2> QED BY <1>1, <1>2, <2>2
<1>11. (n + 1) - (count + 1) + 1 = n - count + 1
       /\ (n + 1) - (count + 1) - limit + 1 = n - count - limit + 1
  BY <1>1, <1>2
<1>12. ScopeStands(s, v, count + 1, ends, at)
  <2>1. \A i \in 1..Len(v) : v[i] <= at
    BY <1>3, <1>5
  <2>2. \A i, j \in 1..Len(v) : i <= j => v[i] <= v[j]
    BY <1>3, <1>6
  <2>3. \A i \in 1..(Len(v) - (2 * limit - 1)) : v[i + (2 * limit - 1)] >= v[i] + Window
    <3>1. Len(v) - (2 * limit - 1) = n + 1 - (2 * limit - 1)
      BY <1>1, <1>2, <1>3
    <3> QED BY <1>7, <3>1
  <2>4. count + 1 \in Nat /\ count + 1 <= limit /\ count + 1 <= Len(v)
    BY <1>3, <1>8
  <2>5. v[Len(v) - (count + 1) + 1] + Window = ends
    BY <1>3, <1>9, <1>11
  <2>6. \A j \in 1..(Len(v) - (count + 1) - limit + 1) : v[j] + Window + Window <= ends
    BY <1>3, <1>10, <1>11
  <2>7. v \in Seq(Nat) /\ ends \in Nat /\ ends > at /\ count + 1 # 0
    BY <1>3, <1>8
  <2> HIDE DEF limit
  <2> QED BY <2>1, <2>2, <2>3, <2>4, <2>5, <2>6, <2>7 DEF ScopeStands, limit
<1> QED BY <1>12 DEF v

\* Time passes: the window may be over.
LEMMA TimePasses ==
  ASSUME User!AccountsAssumption, NEW s \in User!Scopes, NEW at \in Nat, NEW u, NEW count,
         NEW resetAt, ScopeStands(s, u, count, resetAt, at), NEW then, then = at + 1
  PROVE  ScopeStands(s, u, IF count > 0 /\ resetAt > then THEN count ELSE 0, resetAt, then)
<1> DEFINE n == Len(u)
           limit == RateLimit[s]
<1>1. limit \in Nat \ {0} /\ Window \in Nat \ {0}
  BY DEF User!AccountsAssumption
<1>2. /\ u \in Seq(Nat) /\ n \in Nat /\ count \in Nat /\ count <= n /\ count <= limit
      /\ \A i \in 1..n : u[i] \in Nat /\ u[i] <= at
      /\ \A i, j \in 1..n : i <= j => u[i] <= u[j]
      /\ \A i \in 1..(n - (2 * limit - 1)) : u[i + (2 * limit - 1)] >= u[i] + Window
      /\ count > 0 => /\ resetAt \in Nat /\ resetAt > at
                      /\ u[n - count + 1] + Window = resetAt
                      /\ \A j \in 1..(n - count - limit + 1) : u[j] + Window + Window <= resetAt
      /\ count = 0 => \A j \in 1..(n - limit + 1) : u[j] + Window <= at
  BY DEF ScopeStands
<1> HIDE DEF n, limit
<1>3. then \in Nat /\ \A i \in 1..n : u[i] <= then
  BY <1>2
<1>4. CASE count > 0 /\ resetAt > then
  BY <1>1, <1>2, <1>3, <1>4 DEF ScopeStands, n, limit
<1>5. CASE ~(count > 0 /\ resetAt > then)
  <2>1. \A j \in 1..(n - limit + 1) : u[j] + Window <= then
    <3> SUFFICES ASSUME NEW j \in 1..(n - limit + 1) PROVE u[j] + Window <= then
      OBVIOUS
    <3>1. j \in 1..n
      BY <1>1, <1>2
    <3>2. CASE count = 0
      BY <1>1, <1>2, <1>3, <3>1, <3>2
    <3>3. CASE count > 0
      <4>1. n - count + 1 \in 1..n /\ j <= n - count + 1
        BY <1>1, <1>2, <3>3
      <4>2. u[j] <= u[n - count + 1] /\ u[n - count + 1] + Window = resetAt /\ resetAt <= then
        BY <1>2, <1>3, <1>5, <3>1, <3>3, <4>1
      <4>3. u[j] \in Nat /\ u[n - count + 1] \in Nat
        BY <1>2, <3>1, <4>1
      <4> QED BY <1>1, <1>2, <1>3, <4>2, <4>3
    <3> QED BY <1>2, <3>2, <3>3
  <2>2. (IF count > 0 /\ resetAt > then THEN count ELSE 0) = 0
    BY <1>5
  <2> QED BY <1>1, <1>2, <1>3, <2>1, <2>2 DEF ScopeStands, n, limit
<1> QED BY <1>4, <1>5

\* What the scopes of a request do to the Map.
LEMMA RequestMovesRates ==
  ASSUME User!AccountsAssumption, instant \in Nat, IsMap(rateLimits), NEW kind
  PROVE  LET scopes == User!ScopesOf(kind)
             after == User!After(scopes)
             allowing == User!Allowing(scopes)
         IN /\ IsMap(after)
            /\ \A s \in User!Scopes :
                 /\ s \notin allowing => Moves(rateLimits, after, s, 0)
                 /\ s \in allowing => /\ Moves(rateLimits, after, s, 1)
                                      /\ User!OpenCount(after, s) <= RateLimit[s]
<1> DEFINE scopes == User!ScopesOf(kind)
           allowing == User!Allowing(scopes)
<1>1. CASE kind # "login"
  <2>1. PICK t \in User!Scopes : scopes = <<t>>
    BY <1>1 DEF User!ScopesOf, User!Scopes
  <2>2. User!After(scopes) = User!Consumed(rateLimits, t)
    BY <2>1 DEF User!After
  <2>3. allowing = IF User!Allowed(rateLimits, t) THEN {t} ELSE {}
    BY <2>1 DEF User!Allowing
  <2> HIDE DEF scopes, allowing
  <2> QED BY <2>2, <2>3, ConsumedMoves DEF scopes, allowing
<1>2. CASE kind = "login"
  <2> DEFINE t == "credential-login-ip"
             q == "credential-login-account"
             first == User!Consumed(rateLimits, t)
             after == User!Consumed(first, q)
  <2>1. scopes = <<t, q>> /\ t \in User!Scopes /\ q \in User!Scopes /\ t # q
    BY <1>2 DEF User!ScopesOf, User!Scopes
  <2> HIDE DEF scopes, allowing, t, q
  <2>2. User!After(scopes) = after
    BY <2>1 DEF User!After
  <2>3. /\ t \in allowing <=> User!Allowed(rateLimits, t)
        /\ q \in allowing <=> User!Allowed(first, q)
        /\ allowing \subseteq {t, q}
    <3>1. Len(scopes) = 2 /\ scopes[1] = t /\ scopes[2] = q
      BY <2>1
    <3>2. allowing = {scopes[i] : i \in {j \in 1..2 :
                       User!Allowed(IF j = 1 THEN rateLimits ELSE first, scopes[j])}}
      BY <3>1 DEF allowing, User!Allowing
    <3>3. \A j \in 1..2 : j = 1 \/ j = 2
      OBVIOUS
    <3> HIDE DEF first
    <3> QED BY <2>1, <3>1, <3>2, <3>3
  <2> HIDE DEF first
  <2>4. /\ IsMap(first)
        /\ \A s \in User!Scopes : s # t \/ ~User!Allowed(rateLimits, t) => Moves(rateLimits, first, s, 0)
        /\ User!Allowed(rateLimits, t) =>
              Moves(rateLimits, first, t, 1) /\ User!OpenCount(first, t) <= RateLimit[t]
    BY <2>1, ConsumedMoves DEF first
  <2>5. /\ IsMap(after)
        /\ \A s \in User!Scopes : s # q \/ ~User!Allowed(first, q) => Moves(first, after, s, 0)
        /\ User!Allowed(first, q) =>
              Moves(first, after, q, 1) /\ User!OpenCount(after, q) <= RateLimit[q]
    BY <2>1, <2>4, ConsumedMoves
  <2> HIDE DEF after
  <2>6. \A s : /\ User!OpenCount(rateLimits, s) \in Nat /\ User!OpenCount(first, s) \in Nat
               /\ User!OpenCount(after, s) \in Nat
    BY <2>4, <2>5, CountIsNumber
  <2>7. ASSUME NEW s, Moves(rateLimits, first, s, 0), Moves(first, after, s, 0)
        PROVE  Moves(rateLimits, after, s, 0)
    BY <2>6, <2>7 DEF Moves
  <2>8. ASSUME NEW s, Moves(rateLimits, first, s, 1), Moves(first, after, s, 0)
        PROVE  /\ Moves(rateLimits, after, s, 1)
               /\ User!OpenCount(after, s) = 0 \/ User!OpenCount(after, s) = User!OpenCount(first, s)
    BY <2>6, <2>8 DEF Moves
  <2>9. ASSUME NEW s, Moves(rateLimits, first, s, 0), Moves(first, after, s, 1)
        PROVE  Moves(rateLimits, after, s, 1)
    BY <2>6, <2>9 DEF Moves
  <2>10. \A s \in User!Scopes : RateLimit[s] \in Nat
    BY DEF User!AccountsAssumption
  <2>11. ASSUME NEW s \in User!Scopes
         PROVE  /\ s \notin allowing => Moves(rateLimits, after, s, 0)
                /\ s \in allowing => /\ Moves(rateLimits, after, s, 1)
                                     /\ User!OpenCount(after, s) <= RateLimit[s]
    <3>1. CASE s = t
      BY <2>1, <2>3, <2>4, <2>5, <2>6, <2>7, <2>8, <2>10, <3>1
    <3>2. CASE s = q
      BY <2>1, <2>3, <2>4, <2>5, <2>6, <2>7, <2>9, <3>2
    <3>3. CASE s # t /\ s # q
      BY <2>1, <2>3, <2>4, <2>5, <2>7, <3>3
    <3> QED BY <3>1, <3>2, <3>3
  <2> QED BY <2>2, <2>5, <2>11 DEF allowing, scopes
<1> QED BY <1>1, <1>2

\* A request is counted: what is lost of the Map is lost of the history.
LEMMA BeginKeepsRates ==
  ASSUME User!AccountsAssumption, RatesInv, NEW r, NEW kind, NEW key, NEW password,
         User!Begin(r, kind, key, password)
  PROVE  RatesInv'
<1> DEFINE allowing == User!Allowing(User!ScopesOf(kind))
<1>1. rateLimits' = User!After(User!ScopesOf(kind)) /\ uses' = User!UsesAfter(rateLimits', allowing)
      /\ instant' = instant
  BY DEF User!Begin
<1>2. instant \in Nat /\ IsMap(rateLimits) /\ Window \in Nat
  BY DEF RatesInv, User!AccountsAssumption
<1>3. /\ IsMap(rateLimits')
      /\ \A s \in User!Scopes :
           /\ s \notin allowing => Moves(rateLimits, rateLimits', s, 0)
           /\ s \in allowing => /\ Moves(rateLimits, rateLimits', s, 1)
                                /\ User!OpenCount(rateLimits', s) <= RateLimit[s]
  BY <1>1, <1>2, RequestMovesRates
<1> HIDE DEF allowing
<1>4. \A s \in User!Scopes :
        /\ uses[s] \in Seq(Nat)
        /\ ScopeStands(s, uses[s], User!OpenCount(rateLimits, s), rateLimits[s].resetAt, instant)
  BY DEF RatesInv
<1>5. ASSUME NEW s \in User!Scopes
      PROVE  /\ uses'[s] \in Seq(Nat)
             /\ ScopeStands(s, uses'[s], User!OpenCount(rateLimits', s), rateLimits'[s].resetAt, instant)
  <2> DEFINE used == IF s \in allowing THEN <<instant>> ELSE <<>>
             before == User!OpenCount(rateLimits, s)
             count == User!OpenCount(rateLimits', s)
  <2>1. uses'[s] = IF count >= before + Len(used) THEN uses[s] \o used
                   ELSE IF count = 0 THEN <<>> ELSE used
    BY <1>1 DEF User!UsesAfter
  <2>7. /\ s \in allowing => used = <<instant>> /\ Len(used) = 1
        /\ s \notin allowing => used = <<>> /\ Len(used) = 0
    OBVIOUS
  <2> HIDE DEF used
  <2>2. count \in Nat /\ before \in Nat
    BY <1>2, <1>3, CountIsNumber
  <2>3. ScopeStands(s, uses[s], before, rateLimits[s].resetAt, instant)
    BY <1>4
  <2>4. RateLimit[s] \in Nat \ {0}
    BY DEF User!AccountsAssumption
  <2> HIDE DEF before, count
  <2>5. CASE s \notin allowing
    <3>1. count = 0 \/ (count = before /\ before > 0 /\ rateLimits'[s].resetAt = rateLimits[s].resetAt)
      BY <1>3, <2>2, <2>5 DEF Moves, count, before
    <3>2. used = <<>> /\ Len(used) = 0 /\ uses[s] \o used = uses[s]
      BY <1>4, <2>5, <2>7
    <3>3. CASE count = before
      <4>1. uses'[s] = uses[s]
        BY <2>1, <2>2, <3>2, <3>3
      <4> QED BY <1>4, <2>3, <3>1, <3>3, <4>1 DEF count, ScopeStands
    <3>4. CASE count # before
      <4>1. count = 0 /\ uses'[s] = <<>>
        BY <2>1, <2>2, <3>1, <3>2, <3>4
      <4> QED BY <1>2, <4>1, NothingUsed DEF count
    <3> QED BY <3>3, <3>4
  <2>6. CASE s \in allowing
    <3>1. \/ count = 0
          \/ count = before + 1 /\ before > 0 /\ rateLimits'[s].resetAt = rateLimits[s].resetAt
          \/ count = 1 /\ rateLimits'[s].resetAt = instant + Window
      BY <1>3, <2>6 DEF Moves, count, before
    <3>2. used = <<instant>> /\ Len(used) = 1 /\ count <= RateLimit[s]
      BY <1>3, <2>6, <2>7 DEF count
    <3>3. CASE count = 0
      <4>1. uses'[s] = <<>>
        BY <2>1, <2>2, <3>2, <3>3
      <4> QED BY <1>2, <3>3, <4>1, NothingUsed DEF count
    <3>4. CASE count = before + 1 /\ (before > 0 => rateLimits'[s].resetAt = rateLimits[s].resetAt)
                                  /\ (before = 0 => rateLimits'[s].resetAt = instant + Window)
      <4>1. uses'[s] = uses[s] \o <<instant>>
        BY <2>1, <2>2, <3>2, <3>4
      <4>2. before < RateLimit[s]
        BY <2>2, <2>4, <3>2, <3>4
      <4>3. ScopeStands(s, uses'[s], count, rateLimits'[s].resetAt, instant)
        BY <1>2, <2>2, <2>3, <3>4, <4>1, <4>2, NextUse
      <4>4. uses'[s] \in Seq(Nat)
        BY <1>2, <1>4, <4>1
      <4> QED BY <4>3, <4>4 DEF count
    <3>5. CASE count = 1 /\ before > 0 /\ rateLimits'[s].resetAt = instant + Window
      <4>1. uses'[s] = <<instant>>
        BY <2>1, <2>2, <3>2, <3>5
      <4>2. <<instant>> \in Seq(Nat)
        BY <1>2
      <4> QED BY <1>2, <3>5, <4>1, <4>2, FirstUse DEF count
    <3> QED BY <2>2, <3>1, <3>3, <3>4, <3>5
  <2> QED BY <2>5, <2>6
<1>6. uses' \in [User!Scopes -> Seq(Nat)]
  <2>1. uses' = [s \in User!Scopes |-> uses'[s]]
    BY <1>1 DEF User!UsesAfter
  <2> QED BY <1>5, <2>1
<1>7. \A s \in User!Scopes : User!OpenCount(rateLimits, s)' = User!OpenCount(rateLimits', s)
  BY <1>1 DEF User!OpenCount, User!IsOpen
<1>8. IsMap(rateLimits)'
  BY <1>3 DEF IsMap, IsEntry
<1> QED BY <1>1, <1>2, <1>5, <1>6, <1>7, <1>8 DEF RatesInv

LEMMA NoRatesYet ==
  ASSUME User!AccountsAssumption, NEW at \in Nat, NEW s \in User!Scopes
  PROVE  /\ IsMap(User!NoEntries)
         /\ ScopeStands(s, <<>>, User!OpenCount(User!NoEntries, s), User!NoEntries[s].resetAt, at)
<1>1. DOMAIN User!NoEntries = {}
  BY DEF User!NoEntries
<1>2. User!OpenCount(User!NoEntries, s) = 0 /\ IsMap(User!NoEntries)
  BY <1>1 DEF User!OpenCount, IsMap
<1> QED BY <1>2, NothingUsed

LEMMA RatesKept ==
  ASSUME User!AccountsAssumption, RatesInv, [User!Next]_(User!accountsVars)
  PROVE  RatesInv'
<1>1. ASSUME NEW r, NEW kind, NEW key, NEW password, User!Begin(r, kind, key, password)
      PROVE  RatesInv'
  BY <1>1, BeginKeepsRates
<1>2. CASE UNCHANGED <<rateLimits, uses, instant>>
  BY <1>2 DEF RatesInv, User!OpenCount, User!IsOpen
<1>3. CASE User!Restart
  <2>1. /\ rateLimits' = User!NoEntries /\ uses' = [s \in User!Scopes |-> <<>>]
        /\ instant' = instant /\ instant \in Nat
    BY <1>3 DEF User!Restart, RatesInv
  <2>2. uses' \in [User!Scopes -> Seq(Nat)] /\ \A s \in User!Scopes : uses'[s] = <<>>
    BY <2>1
  <2>3. IsMap(rateLimits') /\ \A s \in User!Scopes :
          ScopeStands(s, <<>>, User!OpenCount(rateLimits', s), rateLimits'[s].resetAt, instant')
    <3>1. "signup-ip" \in User!Scopes
      BY DEF User!Scopes
    <3>2. instant \in Nat
      BY <2>1
    <3> QED BY <2>1, <3>1, <3>2, NoRatesYet DEF User!OpenCount, User!IsOpen
  <2>4. \A s \in User!Scopes : User!OpenCount(rateLimits, s)' = User!OpenCount(rateLimits', s)
    BY <2>1 DEF User!OpenCount, User!IsOpen
  <2>5. IsMap(rateLimits)'
    BY <2>3 DEF IsMap, IsEntry
  <2> QED BY <2>1, <2>2, <2>3, <2>4, <2>5 DEF RatesInv
<1>4. CASE User!Tick
  <2>1. rateLimits' = rateLimits /\ uses' = uses /\ instant' = instant + 1 /\ instant \in Nat
        /\ IsMap(rateLimits)
    BY <1>4 DEF User!Tick, RatesInv
  <2>2. ASSUME NEW s \in User!Scopes
        PROVE  ScopeStands(s, uses[s], User!OpenCount(rateLimits, s)', rateLimits[s].resetAt, instant')
    <3> DEFINE before == User!OpenCount(rateLimits, s)
    <3>1. ScopeStands(s, uses[s], before, rateLimits[s].resetAt, instant)
      BY DEF RatesInv
    <3>2. User!OpenCount(rateLimits, s)'
            = IF before > 0 /\ rateLimits[s].resetAt > instant' THEN before ELSE 0
      BY <2>1 DEF User!OpenCount, User!IsOpen, IsMap, IsEntry
    <3> HIDE DEF before
    <3> QED BY <2>1, <3>1, <3>2, TimePasses
  <2> QED BY <2>1, <2>2 DEF RatesInv
<1> QED BY <1>1, <1>2, <1>3, <1>4 DEF User!Next, User!accountsVars, User!EnterWithGoogle,
     User!Refuse, User!Create, User!Count, User!Undo, User!Delete, User!Find, User!Register,
     User!Read, User!Compare, User!Fail

\* RatesAreKept, for any limits, windows and capacity of the Map.
LEMMA RatesAreSafe ==
  ASSUME User!AccountsAssumption
  PROVE  User!Spec => []User!RatesAreKept
<1>1. User!Init => RatesInv
  <2> SUFFICES ASSUME User!Init PROVE RatesInv
    OBVIOUS
  <2>1. rateLimits = User!NoEntries /\ uses = [s \in User!Scopes |-> <<>>] /\ instant = 0
    BY DEF User!Init, User!InitWith
  <2>2. uses \in [User!Scopes -> Seq(Nat)] /\ \A s \in User!Scopes : uses[s] = <<>>
    BY <2>1
  <2>3. "signup-ip" \in User!Scopes /\ 0 \in Nat
    BY DEF User!Scopes
  <2> QED BY <2>1, <2>2, <2>3, NoRatesYet DEF RatesInv
<1>2. RatesInv /\ [User!Next]_User!accountsVars => RatesInv'
  BY RatesKept
<1>3. RatesInv => User!RatesAreKept
  <2> SUFFICES ASSUME RatesInv, NEW s \in User!Scopes,
                      NEW i \in 1..(Len(uses[s]) - (2 * RateLimit[s] - 1))
               PROVE  uses[s][i + (2 * RateLimit[s] - 1)] >= uses[s][i] + Window
    BY DEF User!RatesAreKept
  <2> QED BY DEF RatesInv, ScopeStands
<1> QED BY <1>1, <1>2, <1>3, PTL DEF User!Spec

-----------------------------------------------------------------------------
(* The Glasgow commands                                                    *)

\* What makes it so is that a file is written once and by one run, which its nonce
\* and process name: whatever is left over from other runs, in files or in a shell,
\* can only be the evidence of a run that is gone.

\* The shape of the state.
GuardTyped ==
    /\ clock \in 0..LastTick
    /\ evidence \in [Files -> Guarded!EvidenceFiles \cup {None}]
    /\ run \in [Runs -> Guarded!Processes \cup {None}]

\* A run that has not ended runs a command that the wrapper lets pass, on URLs it
\* has verified; from "created" on the file is its own, it is whole from "written" on,
\* and from "allowed" on the command's arguments and, for production, the age of the
\* evidence were checked.
RunStands(r) ==
    LET p == run[r] IN
        /\ p.stage # "ended" =>
             /\ p.command \in Commands /\ p.env \in Environments
             /\ Guarded!ExactMode(p.command) /\ Guarded!TargetsVerified(p.env)
             /\ p.action = Guarded!WrapperAction(p.command)
        /\ p.stage \in {"created", "written", "allowed"} =>
             /\ evidence[p.file] # None
             /\ evidence[p.file].wrapper = r
             /\ evidence[p.file].targets = Guarded!Targets(p.env)
             /\ evidence[p.file].whole <=> p.stage # "created"
        /\ p.stage = "allowed" =>
             /\ Guarded!Takes(p.command)
             /\ Guarded!ProductionIntent(p.env) =>
                  p.checked - evidence[p.file].checkedAt \in -MaxSkew..MaxAge

\* A file is that of one run, which names it still.
FileStands(f) ==
    LET e == evidence[f] IN
        /\ run[e.wrapper] # None
        /\ run[e.wrapper].file = f
        /\ run[e.wrapper].action = e.action

\* A run that did something has ended: what was checked stays as it was.
DeedStands ==
    last # None =>
        (last.tool = "command" /\ last.run # None =>
            run[last.run] # None /\ run[last.run].stage = "ended")

GuardInv ==
    /\ GuardTyped
    /\ \A r \in Runs : run[r] # None => RunStands(r)
    /\ \A f \in Files : evidence[f] # None => FileStands(f)
    /\ DeedStands
    /\ Guarded!ProductionIsGuarded

-----------------------------------------------------------------------------
(* Commands and their environments                                         *)

\* Under the wrapper's modes a script asks for leave in the wrapper's own terms.
LEMMA NamesAgree ==
  ASSUME Guarded!ProductionGuardAssumption, NEW c \in Commands, Guarded!ExactMode(c)
  PROVE  Guarded!ScriptAction(c) = Guarded!WrapperAction(c)
<1>1. c.script \in {"prepare", "foundation", "results", "publish", "unpublish"}
  BY DEF Guarded!ProductionGuardAssumption
<1>2. CASE c.script = "prepare"
  BY <1>2 DEF Guarded!ScriptAction, Guarded!WrapperAction
<1>3. CASE c.script = "foundation"
  BY <1>3 DEF Guarded!ScriptAction, Guarded!WrapperAction, Guarded!FoundationAction
<1>4. CASE c.script = "results"
  BY <1>4 DEF Guarded!ScriptAction, Guarded!WrapperAction, Guarded!ResultsAction
<1>5. CASE c.script = "publish"
  <2>1. c.flags \in {{"dry"}, {"apply", "confirm"}}
    BY <1>5 DEF Guarded!ExactMode, Guarded!Modes
  <2> QED
    BY <1>5, <2>1 DEF Guarded!ScriptAction, Guarded!WrapperAction, Guarded!PublishAction
<1>6. CASE c.script = "unpublish"
  BY <1>6 DEF Guarded!ScriptAction, Guarded!WrapperAction
<1> QED
  BY <1>1, <1>2, <1>3, <1>4, <1>5, <1>6

\* A command that writes says so in the action it asks leave for.
LEMMA WritersAreNamed ==
  ASSUME Guarded!ProductionGuardAssumption, NEW c \in Commands, Guarded!Takes(c), Guarded!Writes(c)
  PROVE  Guarded!ScriptAction(c) \in Guarded!WritingActions
<1>1. c.script \in {"prepare", "foundation", "results", "publish", "unpublish"}
  BY DEF Guarded!ProductionGuardAssumption
<1>2. CASE c.script = "prepare"
  BY <1>2 DEF Guarded!ScriptAction, Guarded!WritingActions
<1>3. CASE c.script = "foundation"
  <2>1. "record" \in c.flags \/ "apply" \in c.flags
    BY <1>3 DEF Guarded!Writes
  <2> QED
    BY <1>3, <2>1 DEF Guarded!ScriptAction, Guarded!FoundationAction, Guarded!WritingActions
<1>4. CASE c.script = "results"
  <2>1. "record" \in c.flags \/ "apply" \in c.flags
    BY <1>4 DEF Guarded!Writes
  <2> QED
    BY <1>4, <2>1 DEF Guarded!ScriptAction, Guarded!ResultsAction, Guarded!WritingActions
<1>5. CASE c.script = "publish"
  <2>1. "apply" \in c.flags
    BY <1>5 DEF Guarded!Writes, Guarded!Takes, Guarded!PublishTakes
  <2> QED
    BY <1>5, <2>1 DEF Guarded!ScriptAction, Guarded!PublishAction, Guarded!WritingActions
<1>6. CASE c.script = "unpublish"
  BY <1>6 DEF Guarded!ScriptAction, Guarded!WritingActions
<1> QED
  BY <1>1, <1>2, <1>3, <1>4, <1>5, <1>6

\* Verified URLs are both of the project that was expected.
LEMMA TargetsAreExpected ==
  ASSUME NEW env, Guarded!TargetsVerified(env)
  PROVE  Guarded!Targets(env) = <<Guarded!RoutedRef(env.database), Guarded!RoutedRef(env.database)>>
<1>1. Guarded!RoutedRef(env.database) = env.expected
  BY DEF Guarded!TargetsVerified, Guarded!ValidUrl, Guarded!Resolves
<1>2. Guarded!RoutedRef(env.direct) = env.expected
  BY DEF Guarded!TargetsVerified, Guarded!ValidUrl, Guarded!Resolves
<1> QED
  BY <1>1, <1>2 DEF Guarded!Targets

-----------------------------------------------------------------------------
(* Steps that leave the evidence alone                                     *)

\* The initial state.
LEMMA GuardInit ==
  ASSUME Guarded!ProductionGuardAssumption, Guarded!Init
  PROVE  GuardInv
<1>1. GuardTyped
  BY DEF Guarded!ProductionGuardAssumption, Guarded!Init, GuardTyped
<1> QED
  BY <1>1 DEF Guarded!Init, GuardInv, DeedStands, Guarded!ProductionIsGuarded

\* What stands of a file and of a run does not depend on the other runs.
LEMMA FilesKeep ==
  ASSUME GuardInv, UNCHANGED evidence,
         \A r \in Runs : run[r] # None =>
            run'[r] # None /\ run'[r].file = run[r].file /\ run'[r].action = run[r].action
  PROVE  \A f \in Files : evidence'[f] # None => FileStands(f)'
<1> SUFFICES ASSUME NEW f \in Files, evidence[f] # None PROVE FileStands(f)'
  OBVIOUS
<1>1. FileStands(f)
  BY DEF GuardInv
<1>2. evidence[f] \in Guarded!EvidenceFiles
  BY DEF GuardInv, GuardTyped
<1>3. evidence[f].wrapper \in Runs
  BY <1>2 DEF Guarded!EvidenceFiles
<1> QED
  BY <1>1, <1>3 DEF FileStands

\* The last deed is accounted for as long as its run and its evidence stay.
LEMMA DeedKeeps ==
  ASSUME GuardInv, UNCHANGED last,
         \A f \in Files : evidence[f] # None /\ evidence[f].whole => evidence'[f] = evidence[f],
         \A r \in Runs : run[r] # None /\ run[r].stage = "ended" => run'[r] = run[r]
  PROVE  DeedStands' /\ Guarded!ProductionIsGuarded'
<1>1. CASE last # None /\ last.tool = "command" /\ last.run # None
  <2>1. Guarded!Accounted(last) /\ run[last.run] # None /\ run[last.run].stage = "ended"
    BY <1>1 DEF GuardInv, DeedStands, Guarded!ProductionIsGuarded
  <2>2. last.run \in Runs
    BY <2>1 DEF Guarded!Accounted
  <2>3. run'[last.run] = run[last.run]
    BY <2>1, <2>2
  <2>4. run[last.run].file \in Files
    BY <2>1, <2>2 DEF GuardInv, GuardTyped, Guarded!Processes
  <2>5. evidence'[run[last.run].file] = evidence[run[last.run].file]
    BY <2>1, <2>4 DEF Guarded!Accounted
  <2>6. Guarded!Accounted(last)'
    BY <2>1, <2>3, <2>5 DEF Guarded!Accounted
  <2>7. Guarded!InTime(last) => Guarded!InTime(last)'
    BY <2>3, <2>5 DEF Guarded!InTime
  <2> QED
    BY <1>1, <2>1, <2>3, <2>6, <2>7 DEF GuardInv, DeedStands, Guarded!ProductionIsGuarded
<1>2. CASE ~(last # None /\ last.tool = "command" /\ last.run # None)
  BY <1>2 DEF GuardInv, DeedStands, Guarded!ProductionIsGuarded
<1> QED
  BY <1>1, <1>2

\* A tool that changes neither runs nor evidence.
LEMMA ToolStep ==
  ASSUME GuardInv, UNCHANGED <<clock, evidence, run>>,
         DeedStands' /\ Guarded!ProductionIsGuarded'
  PROVE  GuardInv'
<1>1. GuardTyped'
  BY DEF GuardInv, GuardTyped
<1>2. \A r \in Runs : run'[r] # None => RunStands(r)'
  BY DEF GuardInv, RunStands
<1>3. \A f \in Files : evidence'[f] # None => FileStands(f)'
  BY DEF GuardInv, FileStands
<1> QED
  BY <1>1, <1>2, <1>3 DEF GuardInv

LEMMA TickStep ==
  ASSUME Guarded!ProductionGuardAssumption, GuardInv, Guarded!Tick
  PROVE  GuardInv'
<1>1. GuardTyped'
  BY DEF Guarded!ProductionGuardAssumption, GuardInv, GuardTyped, Guarded!Tick
<1>2. UNCHANGED <<evidence, run, last>>
  BY DEF Guarded!Tick
<1>3. \A r \in Runs : run'[r] # None => RunStands(r)'
  BY <1>2 DEF GuardInv, RunStands
<1>4. \A f \in Files : evidence'[f] # None => FileStands(f)'
  BY <1>2, FilesKeep
<1>5. DeedStands' /\ Guarded!ProductionIsGuarded'
  BY <1>2, DeedKeeps
<1> QED
  BY <1>1, <1>3, <1>4, <1>5 DEF GuardInv

\* A run moves on: its own part must be shown, and nothing else is disturbed.
LEMMA RunStep ==
  ASSUME GuardInv, NEW r \in Runs, NEW p \in Guarded!Processes, p # None,
         run' = [run EXCEPT ![r] = p],
         UNCHANGED <<clock, evidence, last>>,
         run[r] # None =>
            run[r].stage # "ended" /\ p.file = run[r].file /\ p.action = run[r].action,
         RunStands(r)'
  PROVE  GuardInv'
<1>1. GuardTyped'
  BY DEF GuardInv, GuardTyped
<1>2. run'[r] = p /\ \A q \in Runs : q # r => run'[q] = run[q]
  BY DEF GuardInv, GuardTyped
<1>3. \A q \in Runs : run'[q] # None => RunStands(q)'
  <2> SUFFICES ASSUME NEW q \in Runs, q # r, run'[q] # None PROVE RunStands(q)'
    OBVIOUS
  <2> QED
    BY <1>2 DEF GuardInv, RunStands
<1>5. \A f \in Files : evidence'[f] # None => FileStands(f)'
  BY <1>2, FilesKeep
<1>6. DeedStands' /\ Guarded!ProductionIsGuarded'
  BY <1>2, DeedKeeps
<1> QED
  BY <1>1, <1>3, <1>5, <1>6 DEF GuardInv

-----------------------------------------------------------------------------
(* The wrapper                                                             *)

\* The record of a run that ends.
Gone(r) == [run[r] EXCEPT !.stage = "ended", !.env = None, !.command = None]

LEMMA EndedIs ==
  ASSUME GuardInv, NEW r \in Runs, run[r] # None
  PROVE  /\ Guarded!Ended(r) = [run EXCEPT ![r] = Gone(r)]
         /\ Gone(r) \in Guarded!Processes
         /\ Gone(r).stage = "ended"
         /\ Gone(r).file = run[r].file /\ Gone(r).action = run[r].action
         /\ Gone(r).checked = run[r].checked
<1>1. run[r] \in Guarded!Processes
  BY DEF GuardInv, GuardTyped
<1> QED
  BY <1>1 DEF Guarded!Ended, Gone, Guarded!Processes, GuardInv, GuardTyped

LEMMA EndStep ==
  ASSUME Guarded!ProductionGuardAssumption, GuardInv, NEW r \in Runs,
         run[r] # None, run[r].stage # "ended",
         run' = Guarded!Ended(r), UNCHANGED <<clock, evidence, last>>
  PROVE  GuardInv'
<1>1. Gone(r) # None
  BY EndedIs DEF Guarded!ProductionGuardAssumption
<1>2. run'[r] = Gone(r)
  BY EndedIs DEF GuardInv, GuardTyped
<1>3. RunStands(r)'
  BY <1>2, EndedIs DEF RunStands
<1> QED
  BY <1>1, <1>3, EndedIs, RunStep

LEMMA StartStep ==
  ASSUME Guarded!ProductionGuardAssumption, GuardInv, NEW r \in Runs, NEW c \in Commands,
         NEW f \in Files, NEW env \in Environments, Guarded!Start(r, c, f, env)
  PROVE  GuardInv'
<1> DEFINE p == [stage |-> "verified", command |-> c, action |-> Guarded!WrapperAction(c),
                 file |-> f, env |-> env, checked |-> None, alone |-> FALSE]
<1>1. p \in Guarded!Processes
  BY DEF Guarded!Processes
<1>2. p # None
  BY <1>1 DEF Guarded!ProductionGuardAssumption
<1>3. run' = [run EXCEPT ![r] = p]
  BY DEF Guarded!Start
<1>4. run'[r] = p
  BY <1>3 DEF GuardInv, GuardTyped
<1>5. RunStands(r)'
  BY <1>4 DEF RunStands, Guarded!Start
<1>6. run[r] = None /\ UNCHANGED <<clock, evidence, last>>
  BY DEF Guarded!Start
<1> HIDE DEF p
<1> QED
  BY <1>1, <1>2, <1>3, <1>5, <1>6, RunStep

\* A run writes its own file, which is new or empty: what stands of the others stands.
LEMMA FileStep ==
  ASSUME Guarded!ProductionGuardAssumption, GuardInv, NEW r \in Runs, run[r] # None,
         NEW whole \in BOOLEAN, NEW stage \in {"created", "written"},
         whole <=> stage # "created",
         run[r].stage \in {"verified", "created"},
         run[r].stage = "verified" => evidence[run[r].file] = None,
         evidence' = [evidence EXCEPT ![run[r].file] = Guarded!Evidence(r, whole)],
         run' = Guarded!Stage(r, stage),
         UNCHANGED <<clock, last>>
  PROVE  GuardInv'
<1> DEFINE f == run[r].file
           p == [run[r] EXCEPT !.stage = stage]
           e == Guarded!Evidence(r, whole)
<1>1. run[r] \in Guarded!Processes /\ RunStands(r)
  BY DEF GuardInv, GuardTyped
<1>2. f \in Files
  BY <1>1 DEF Guarded!Processes
<1>3. evidence[f] # None => evidence[f].wrapper = r /\ evidence[f].whole = FALSE
  <2>1. evidence[f] # None => evidence[f] \in Guarded!EvidenceFiles
    BY <1>2 DEF GuardInv, GuardTyped
  <2> QED
    BY <1>1, <2>1 DEF RunStands, Guarded!EvidenceFiles
<1>4. /\ run[r].command \in Commands /\ run[r].env \in Environments
      /\ Guarded!ExactMode(run[r].command) /\ Guarded!TargetsVerified(run[r].env)
      /\ run[r].action = Guarded!WrapperAction(run[r].command)
  BY <1>1 DEF RunStands
<1>5. e \in Guarded!EvidenceFiles /\ e # None
  BY <1>4 DEF Guarded!Evidence, Guarded!EvidenceFiles, GuardInv, GuardTyped, Guarded!ProductionGuardAssumption
<1>6. p \in Guarded!Processes /\ p # None
  BY <1>1 DEF Guarded!Processes, Guarded!ProductionGuardAssumption
<1>7. run' = [run EXCEPT ![r] = p]
  BY DEF Guarded!Stage
<1>8. /\ run'[r] = p /\ \A q \in Runs : q # r => run'[q] = run[q]
      /\ evidence'[f] = e /\ \A g \in Files : g # f => evidence'[g] = evidence[g]
  BY <1>2, <1>7 DEF GuardInv, GuardTyped
<1>9. GuardTyped'
  BY <1>2, <1>5, <1>6, <1>7 DEF GuardInv, GuardTyped
<1>10. /\ p.stage = stage /\ p.file = f /\ p.action = run[r].action
       /\ p.command = run[r].command /\ p.env = run[r].env
  BY <1>1 DEF Guarded!Processes
<1>11. /\ e.wrapper = r /\ e.action = run[r].action /\ e.whole = whole
       /\ e.targets = Guarded!Targets(run[r].env)
  BY DEF Guarded!Evidence
<1> HIDE DEF p, f, e
<1>12. RunStands(r)'
  BY <1>4, <1>5, <1>8, <1>10, <1>11 DEF RunStands
<1>13. ASSUME NEW q \in Runs, q # r, run'[q] # None PROVE RunStands(q)'
  <2>1. run'[q] = run[q] /\ RunStands(q)
    BY <1>8, <1>13 DEF GuardInv
  <2>2. run[q].file \in Files
    BY <1>8, <1>13 DEF GuardInv, GuardTyped, Guarded!Processes
  <2>3. run[q].stage \in {"created", "written", "allowed"} => run[q].file # f
    BY <1>3, <1>13, <2>1 DEF RunStands
  <2>4. run[q].stage \in {"created", "written", "allowed"}
          => evidence'[run[q].file] = evidence[run[q].file]
    BY <1>8, <2>2, <2>3
  <2> QED
    BY <2>1, <2>4 DEF RunStands
<1>14. ASSUME NEW g \in Files, evidence'[g] # None PROVE FileStands(g)'
  <2>1. CASE g = f
    BY <1>6, <1>8, <1>10, <1>11, <2>1 DEF FileStands
  <2>2. CASE g # f
    <3>1. evidence'[g] = evidence[g] /\ FileStands(g)
      BY <1>8, <1>14, <2>2 DEF GuardInv
    <3>2. evidence[g].wrapper \in Runs
      BY <1>14, <3>1 DEF GuardInv, GuardTyped, Guarded!EvidenceFiles
    <3>3. evidence[g].wrapper # r
      BY <2>2, <3>1 DEF FileStands, f
    <3> QED
      BY <1>8, <3>1, <3>2, <3>3 DEF FileStands
  <2> QED
    BY <2>1, <2>2
<1>15. DeedStands' /\ Guarded!ProductionIsGuarded'
  <2>1. \A g \in Files : evidence[g] # None /\ evidence[g].whole => evidence'[g] = evidence[g]
    BY <1>3, <1>8
  <2>2. \A q \in Runs : run[q] # None /\ run[q].stage = "ended" => run'[q] = run[q]
    BY <1>8
  <2> QED
    BY <2>1, <2>2, DeedKeeps
<1> QED
  BY <1>9, <1>12, <1>13, <1>14, <1>15 DEF GuardInv

\* A file that exists ends the run.
LEMMA CreateStep ==
  ASSUME Guarded!ProductionGuardAssumption, GuardInv, NEW r \in Runs, Guarded!CreateEvidence(r)
  PROVE  GuardInv'
<1>1. run[r] # None /\ run[r].stage = "verified" /\ UNCHANGED <<clock, last>>
  BY DEF Guarded!CreateEvidence
<1>2. CASE evidence[run[r].file] # None
  <2>1. run' = Guarded!Ended(r) /\ UNCHANGED evidence
    BY <1>2 DEF Guarded!CreateEvidence
  <2> QED
    BY <1>1, <2>1, EndStep
<1>3. CASE evidence[run[r].file] = None
  <2>1. /\ evidence' = [evidence EXCEPT ![run[r].file] = Guarded!Evidence(r, FALSE)]
        /\ run' = Guarded!Stage(r, "created")
    BY <1>3 DEF Guarded!CreateEvidence
  <2> QED
    BY <1>1, <1>3, <2>1, FileStep
<1> QED
  BY <1>2, <1>3

LEMMA WriteStep ==
  ASSUME Guarded!ProductionGuardAssumption, GuardInv, NEW r \in Runs, Guarded!WriteEvidence(r)
  PROVE  GuardInv'
<1>1. /\ run[r] # None /\ run[r].stage = "created" /\ UNCHANGED <<clock, last>>
      /\ evidence' = [evidence EXCEPT ![run[r].file] = Guarded!Evidence(r, TRUE)]
      /\ run' = Guarded!Stage(r, "written")
  BY DEF Guarded!WriteEvidence
<1> QED
  BY <1>1, FileStep

\* A command that may act has arguments it takes and, on production, fresh evidence.
LEMMA CheckStep ==
  ASSUME Guarded!ProductionGuardAssumption, GuardInv, NEW r \in Runs, Guarded!CheckChild(r)
  PROVE  GuardInv'
<1> DEFINE c == run[r].command
           allowed == Guarded!Takes(c)
                      /\ Guarded!Leave(c, run[r].env, Guarded!Guard(r), Guarded!Parent(r))
           p == [run[r] EXCEPT !.stage = "allowed", !.checked = clock]
<1>1. run[r] \in Guarded!Processes /\ run[r].stage = "written" /\ RunStands(r)
  BY DEF Guarded!CheckChild, GuardInv, GuardTyped
<1>2. CASE ~allowed
  <2>1. run' = Guarded!Ended(r)
    BY <1>2 DEF Guarded!CheckChild
  <2> QED
    BY <1>1, <2>1, EndStep DEF Guarded!CheckChild
<1>3. CASE allowed
  <2>1. run' = [run EXCEPT ![r].stage = "allowed", ![r].checked = clock]
    BY <1>3 DEF Guarded!CheckChild
  <2>2. run' = [run EXCEPT ![r] = p]
    BY <2>1
  <2>3. p \in Guarded!Processes /\ p # None
    BY <1>1 DEF Guarded!Processes, Guarded!ProductionGuardAssumption, GuardInv, GuardTyped
  <2>4. run'[r] = p
    BY <2>2 DEF GuardInv, GuardTyped
  <2>5. /\ p.stage = "allowed" /\ p.checked = clock /\ p.file = run[r].file
        /\ p.action = run[r].action /\ p.command = c /\ p.env = run[r].env
    BY <1>1 DEF Guarded!Processes
  <2>6. Guarded!ProductionIntent(run[r].env) =>
          clock - evidence[run[r].file].checkedAt \in -MaxSkew..MaxAge
    <3> SUFFICES ASSUME Guarded!ProductionIntent(run[r].env)
                 PROVE  clock - evidence[run[r].file].checkedAt \in -MaxSkew..MaxAge
      OBVIOUS
    <3>1. Guarded!EvidenceStands(Guarded!ScriptAction(c), run[r].env, Guarded!Guard(r),
                                 Guarded!Parent(r))
      BY <1>1, <1>3 DEF Guarded!Leave, Guarded!Allowed, Guarded!ExactMode, RunStands
    <3>2. Guarded!Fresh(evidence[run[r].file])
      BY <3>1 DEF Guarded!EvidenceStands, Guarded!Guard
    <3>3. evidence[run[r].file] \in Guarded!EvidenceFiles
      BY <1>1 DEF RunStands, Guarded!Processes, GuardInv, GuardTyped
    <3>4. evidence[run[r].file].checkedAt \in Nat /\ clock \in Nat
      BY <3>3 DEF Guarded!EvidenceFiles, GuardInv, GuardTyped
    <3> QED
      BY <3>2, <3>4 DEF Guarded!Fresh, Guarded!ProductionGuardAssumption
  <2>7. UNCHANGED <<clock, evidence, last>>
    BY DEF Guarded!CheckChild
  <2>8. RunStands(r)'
    <3>1. Guarded!Takes(c)
      BY <1>3
    <3> HIDE DEF c, p, allowed
    <3>2. c = run[r].command
      BY DEF c
    <3> QED
      BY <1>1, <2>4, <2>5, <2>6, <2>7, <3>1, <3>2 DEF RunStands, Guarded!ProductionIntent
  <2> HIDE DEF p
  <2> QED
    BY <1>1, <2>2, <2>3, <2>5, <2>7, <2>8, RunStep
<1> QED
  BY <1>2, <1>3

\* The deed of a run is accounted for by the evidence that let it act.
LEMMA PerformStep ==
  ASSUME Guarded!ProductionGuardAssumption, GuardInv, NEW r \in Runs, Guarded!Perform(r)
  PROVE  GuardInv'
<1> DEFINE c == run[r].command
           env == run[r].env
           f == run[r].file
<1>1. /\ run[r] \in Guarded!Processes /\ run[r] # None /\ run[r].stage = "allowed"
      /\ RunStands(r)
  BY DEF Guarded!Perform, GuardInv, GuardTyped
<1>2. /\ run' = Guarded!Ended(r) /\ last' = Guarded!Deed(c, env, r)
      /\ clock' = clock /\ evidence' = evidence
  BY DEF Guarded!Perform
<1>3. /\ run'[r] = Gone(r) /\ \A q \in Runs : q # r => run'[q] = run[q]
      /\ GuardTyped'
  BY <1>1, <1>2, EndedIs DEF GuardInv, GuardTyped
<1>4. Gone(r) # None
  BY <1>1, EndedIs DEF Guarded!ProductionGuardAssumption
<1>5. \A q \in Runs : run'[q] # None => RunStands(q)'
  <2> SUFFICES ASSUME NEW q \in Runs, run'[q] # None PROVE RunStands(q)'
    OBVIOUS
  <2>1. CASE q = r
    BY <1>1, <1>3, <2>1, EndedIs DEF RunStands
  <2>2. CASE q # r
    BY <1>2, <1>3, <2>2 DEF GuardInv, RunStands
  <2> QED
    BY <2>1, <2>2
<1>6. \A g \in Files : evidence'[g] # None => FileStands(g)'
  BY <1>1, <1>2, <1>3, <1>4, EndedIs, FilesKeep
<1>7. /\ c \in Commands /\ env \in Environments /\ Guarded!ExactMode(c) /\ Guarded!TargetsVerified(env)
      /\ run[r].action = Guarded!WrapperAction(c)
      /\ evidence[f] # None /\ evidence[f].wrapper = r /\ evidence[f].targets = Guarded!Targets(env)
      /\ evidence[f].whole
      /\ Guarded!Takes(c)
      /\ Guarded!ProductionIntent(env) =>
            run[r].checked - evidence[f].checkedAt \in -MaxSkew..MaxAge
  BY <1>1 DEF RunStands
<1>8. f \in Files
  BY <1>1 DEF Guarded!Processes
<1>9. evidence[f].action = run[r].action
  BY <1>7, <1>8 DEF GuardInv, FileStands
<1>10. /\ last'.tool = "command" /\ last'.run = r /\ last'.action = Guarded!ScriptAction(c)
       /\ last'.writes = Guarded!Writes(c) /\ last'.project = Guarded!RoutedRef(env.database)
  BY <1>2 DEF Guarded!Deed
<1>11. /\ run'[r].file = f /\ run'[r].checked = run[r].checked
       /\ run'[r].stage = "ended"
  BY <1>1, <1>3, EndedIs
<1>12. Guarded!Accounted(last)'
  <2>1. evidence[f].action = last'.action
    BY <1>7, <1>9, <1>10, NamesAgree
  <2>2. evidence[f].targets = <<last'.project, last'.project>>
    BY <1>7, <1>10, TargetsAreExpected
  <2>3. last'.writes => last'.action \in Guarded!WritingActions
    BY <1>7, <1>10, WritersAreNamed
  <2> HIDE DEF c, env, f
  <2> QED
    BY <1>2, <1>7, <1>10, <1>11, <2>1, <2>2, <2>3 DEF Guarded!Accounted
<1>13. last'.project = Approved => Guarded!InTime(last)'
  <2>1. last'.project = Approved => Guarded!ProductionIntent(env)
    BY <1>10 DEF Guarded!ProductionIntent
  <2> HIDE DEF c, env, f
  <2> QED
    BY <1>2, <1>7, <1>10, <1>11, <2>1 DEF Guarded!InTime
<1>14. r # None
  BY DEF Guarded!ProductionGuardAssumption
<1>15. DeedStands' /\ Guarded!ProductionIsGuarded'
  BY <1>3, <1>4, <1>10, <1>11, <1>12, <1>13, <1>14 DEF DeedStands, Guarded!ProductionIsGuarded
<1> QED
  BY <1>3, <1>5, <1>6, <1>15 DEF GuardInv

-----------------------------------------------------------------------------
(* Commands that nobody wrapped, and the other tools                       *)

\* Nothing is left over that would let a command act on production by itself.
LEMMA DirectStep ==
  ASSUME Guarded!ProductionGuardAssumption, GuardInv, NEW c, NEW env, NEW guard,
         Guarded!RunDirectly(c, env, guard)
  PROVE  GuardInv'
<1>1. /\ last' = Guarded!Deed(c, env, None)
      /\ UNCHANGED <<clock, evidence, run>>
      /\ Guarded!Leave(c, env, guard, None)
  BY DEF Guarded!RunDirectly
<1>2. last'.run = None /\ last'.project = Guarded!RoutedRef(env.database)
      /\ last'.tool = "command" /\ last'.glasgow = c.glasgow
  BY <1>1 DEF Guarded!Deed
<1>3. ~(last'.project = Approved /\ last'.glasgow)
  <2> SUFFICES ASSUME last'.project = Approved, last'.glasgow PROVE FALSE
    OBVIOUS
  <2>1. Guarded!ProductionIntent(env)
    BY <1>2 DEF Guarded!ProductionIntent
  <2>2. Guarded!EvidenceStands(Guarded!ScriptAction(c), env, guard, None)
    BY <1>1, <1>2, <2>1 DEF Guarded!Leave, Guarded!Allowed
  <2>3. guard.file \in Files /\ evidence[guard.file] # None
        /\ evidence[guard.file].wrapper = None
    BY <2>2 DEF Guarded!EvidenceStands
  <2>4. evidence[guard.file] \in Guarded!EvidenceFiles
    BY <2>3 DEF GuardInv, GuardTyped
  <2> QED
    BY <2>3, <2>4 DEF Guarded!EvidenceFiles, Guarded!ProductionGuardAssumption
<1>4. DeedStands' /\ Guarded!ProductionIsGuarded'
  BY <1>2, <1>3 DEF DeedStands, Guarded!ProductionIsGuarded
<1> QED
  BY <1>1, <1>4, ToolStep

\* A URL that resolves to a project routes to it, and not to the rejected one.
LEMMA ToolSteps ==
  ASSUME Guarded!ProductionGuardAssumption, GuardInv, NEW env,
         Guarded!Verify(env) \/ Guarded!Query(env) \/ Guarded!Rehearse(env)
            \/ Guarded!ResetPreview(env)
  PROVE  GuardInv'
<1>1. UNCHANGED <<clock, evidence, run>>
  BY DEF Guarded!Verify, Guarded!Query, Guarded!Rehearse, Guarded!ResetPreview
<1>2. CASE Guarded!Query(env)
  <2>1. /\ Guarded!RoutedRef(env.entry) = env.expected /\ env.expected # env.rejected
        /\ env.address = None
    BY <1>2 DEF Guarded!Query, Guarded!PsqlVerified, Guarded!ValidUrl, Guarded!Resolves
  <2>2. Guarded!PsqlReaches(env) = env.expected
    BY <2>1 DEF Guarded!PsqlReaches
  <2> QED
    BY <1>1, <1>2, <2>1, <2>2, ToolStep DEF Guarded!Query, Guarded!Landing, DeedStands, Guarded!ProductionIsGuarded
<1>3. CASE Guarded!Rehearse(env)
  <2>1. /\ \A url \in {env.database, env.direct} : Guarded!RoutedRef(url) = env.preview
        /\ env.preview # env.production
    BY <1>3 DEF Guarded!Rehearse, Guarded!PreviewVerified
  <2> QED
    BY <1>1, <1>3, <2>1, ToolStep DEF Guarded!Rehearse, Guarded!Landing, DeedStands, Guarded!ProductionIsGuarded
<1>4. CASE Guarded!ResetPreview(env)
  <2>1. env.production # None /\ env.production \notin Guarded!AllRefs(env.database)
    BY <1>4 DEF Guarded!ResetPreview, Guarded!ResetAllowed
  <2>2. Guarded!RoutedRef(env.database) = None \/ Guarded!RoutedRef(env.database) \in Guarded!AllRefs(env.database)
    BY DEF Guarded!RoutedRef, Guarded!AllRefs
  <2>3. Guarded!RoutedRef(env.database) # env.production
    BY <2>1, <2>2
  <2> QED
    BY <1>1, <1>4, <2>3, ToolStep
       DEF Guarded!ResetPreview, Guarded!Landing, DeedStands, Guarded!ProductionIsGuarded
<1>5. CASE Guarded!Verify(env)
  <2>1. \A url \in {env.database, env.direct} : Guarded!RoutedRef(url) = env.expected
    BY <1>5 DEF Guarded!Verify, Guarded!TargetsVerified, Guarded!ValidUrl, Guarded!Resolves
  <2>2. Guarded!ScopedTargetsVerified(env) =>
           \A url \in {env.analytics, env.operations} : Guarded!RoutedRef(url) = env.expected
    BY DEF Guarded!ScopedTargetsVerified, Guarded!ValidUrl, Guarded!Resolves
  <2>3. env.expected # env.rejected
    BY <1>5 DEF Guarded!Verify, Guarded!TargetsVerified
  <2> QED
    BY <1>1, <1>5, <2>1, <2>2, <2>3, ToolStep
       DEF Guarded!Verify, Guarded!Landing, DeedStands, Guarded!ProductionIsGuarded
<1> QED
  BY <1>2, <1>3, <1>4, <1>5

\* A command that goes on without its wrapper is the same command.
LEMMA OrphanStep ==
  ASSUME Guarded!ProductionGuardAssumption, GuardInv, NEW r \in Runs, Guarded!Orphan(r)
  PROVE  GuardInv'
<1> DEFINE p == [run[r] EXCEPT !.alone = TRUE]
<1>1. /\ run[r] \in Guarded!Processes /\ run[r].stage \in {"written", "allowed"} /\ RunStands(r)
      /\ run[r] # None /\ run' = [run EXCEPT ![r] = p] /\ UNCHANGED <<clock, evidence, last>>
  BY DEF Guarded!Orphan, GuardInv, GuardTyped
<1>2. p \in Guarded!Processes /\ p # None
  BY <1>1 DEF Guarded!Processes, Guarded!ProductionGuardAssumption
<1>3. /\ p.stage = run[r].stage /\ p.file = run[r].file /\ p.action = run[r].action
      /\ p.command = run[r].command /\ p.env = run[r].env /\ p.checked = run[r].checked
  BY <1>1 DEF Guarded!Processes
<1>4. run'[r] = p
  BY <1>1 DEF GuardInv, GuardTyped
<1> HIDE DEF p
<1>5. RunStands(r)'
  BY <1>1, <1>3, <1>4 DEF RunStands
<1> QED
  BY <1>1, <1>2, <1>3, <1>5, RunStep

LEMMA GuardStep ==
  ASSUME Guarded!ProductionGuardAssumption, GuardInv, [Guarded!Next]_Guarded!vars
  PROVE  GuardInv'
<1>1. CASE Guarded!Tick
  BY <1>1, TickStep
<1>2. ASSUME NEW r \in Runs, NEW c \in Commands, NEW f \in Files,
             NEW env \in Environments, Guarded!Start(r, c, f, env)
      PROVE  GuardInv'
  BY <1>2, StartStep
<1>3. ASSUME NEW c, NEW env, NEW guard, Guarded!RunDirectly(c, env, guard)
      PROVE  GuardInv'
  BY <1>3, DirectStep
<1>4. ASSUME NEW r \in Runs, Guarded!WriteEvidence(r) PROVE GuardInv'
  BY <1>4, WriteStep
<1>5. ASSUME NEW r \in Runs, Guarded!CheckChild(r) PROVE GuardInv'
  BY <1>5, CheckStep
<1>6. ASSUME NEW r \in Runs, Guarded!Perform(r) PROVE GuardInv'
  BY <1>6, PerformStep
<1>7. ASSUME NEW r \in Runs, Guarded!Interrupt(r) PROVE GuardInv'
  BY <1>7, EndStep DEF Guarded!Interrupt
<1>8. ASSUME NEW env,
             Guarded!Verify(env) \/ Guarded!Query(env) \/ Guarded!Rehearse(env)
                \/ Guarded!ResetPreview(env)
      PROVE  GuardInv'
  BY <1>8, ToolSteps
<1>10. ASSUME NEW r \in Runs, Guarded!CreateEvidence(r) PROVE GuardInv'
  BY <1>10, CreateStep
<1>11. ASSUME NEW r \in Runs, Guarded!Orphan(r) PROVE GuardInv'
  BY <1>11, OrphanStep
<1>9. CASE UNCHANGED Guarded!vars
  <2>1. UNCHANGED <<clock, evidence, run>> /\ UNCHANGED last
    BY <1>9 DEF Guarded!vars
  <2> QED
    BY <2>1, ToolStep, DeedKeeps
<1> QED
  BY <1>1, <1>2, <1>3, <1>4, <1>5, <1>6, <1>7, <1>8, <1>9, <1>10, <1>11 DEF Guarded!Next

\* What is so in every behaviour of the part alone.
LEMMA GuardIsSafe ==
  ASSUME Guarded!ProductionGuardAssumption
  PROVE  Guarded!Spec => []Guarded!ProductionIsGuarded
<1>1. Guarded!Init => GuardInv
  BY GuardInit
<1>2. GuardInv /\ [Guarded!Next]_Guarded!vars => GuardInv'
  BY GuardStep
<1>3. GuardInv => Guarded!ProductionIsGuarded
  BY DEF GuardInv
<1> QED
  BY <1>1, <1>2, <1>3, PTL DEF Guarded!Spec

\* A behaviour of the composition is one of the part, or the part is at rest.
LEMMA GuardedAlone == PartsSpec => (part = "guard" /\ Guarded!Spec) \/ []~(part = "guard")
<1>1. PartsInit => (part = "guard" => Guarded!Init)
  BY DEF PartsInit
<1>2. [PartsNext]_partsVars => (part = "guard" => [Guarded!Next]_(Guarded!vars))
  BY PartAtWork
<1>3. [PartsNext]_partsVars => ((part = "guard") <=> (part = "guard")')
  BY PartAtWork
<1> QED BY <1>1, <1>2, <1>3, PTL DEF PartsSpec, Guarded!Spec

\* Whatever is left in files and shells by runs of the wrapper, in any number and
\* interrupted anywhere, a command reaches the production project only as the child
\* of a run whose own evidence stands for its action and was fresh when it looked
\* (glasgow-production-guard.ts, production-glasgow.ts); and psql and the preview
\* tools never reach the project their shell forbids.
THEOREM GuardCorrect == PartsSpec => []ProductionIsGuarded
<1>1. Guarded!Spec => [](Guarded!ProductionIsGuarded)
  BY GuardIsSafe, PartsAssumption
<1> QED BY <1>1, GuardedAlone, PTL DEF ProductionIsGuarded

-----------------------------------------------------------------------------
(* The search box                                                          *)

\* A search on its way is the only one, of the text of the box, which says so, and has
\* read nothing that was hidden all the while.
TaskStands(t) ==
    /\ t.of = query /\ searching
    /\ t.at # "timer" => alert = None
    /\ t.at \in {"rows", "answered"} => t.rows \subseteq witnessed.listed
    /\ t.at = "answered" => t.scores \subseteq witnessed.scored

SearchInv ==
    /\ Reader!SearchTypeOK
    /\ Reader!Listed \subseteq witnessed.listed /\ Reader!Scored \subseteq witnessed.scored
    /\ \A t, u \in tasks : t = u
    /\ \A t \in tasks : TaskStands(t)
    /\ Reader!SearchIsSettled

\* Of what is found, an option may be active.
LEMMA OptionIsThere ==
  ASSUME Reader!SearchAssumption, Reader!SearchTypeOK,
         NEW S \in SUBSET Findable
  PROVE  /\ Reader!Cardinality(S) \in Nat
         /\ S # {} => Reader!Cardinality(S) > 0
<1>1. IsFiniteSet(Findable)
  BY Zenon DEF Reader!SearchAssumption, Reader!IsFiniteSet, IsFiniteSet
<1>2. Reader!Cardinality(S) = Cardinality(S)
  BY Zenon DEF Reader!Cardinality, Cardinality
<1>3. IsFiniteSet(S) /\ Cardinality(S) \in Nat /\ (Cardinality(S) = 0 <=> S = {})
  BY <1>1, FS_Subset, FS_CardinalityType, FS_EmptySet
<1> QED BY <1>2, <1>3

LEMMA SearchKept ==
  ASSUME Reader!SearchAssumption, SearchInv, [Reader!SearchNext]_(Reader!searchVars)
  PROVE  SearchInv'
<1> USE DEF Reader!showPanel
<1>a. None \notin Queries /\ Matching \in [Queries -> SUBSET Findable]
  BY DEF Reader!SearchAssumption
<1>b. \A n \in Findable : access[n] \in {"hidden", "named", "scored"}
  BY DEF SearchInv, Reader!SearchTypeOK
<1>1. CASE UNCHANGED Reader!searchVars
  BY <1>1 DEF SearchInv, TaskStands, Reader!searchVars, Reader!SearchTypeOK, Reader!Listed,
     Reader!Scored, Reader!SearchIsSettled, Reader!Cardinality
<1>2. ASSUME NEW q \in Queries, Reader!Type(q) PROVE SearchInv'
  <2>1. tasks' = {Reader!Typed(q)} /\ query' = q /\ searching' = TRUE /\ access' = access
    BY <1>2, <1>a DEF Reader!Type, Reader!Begun, Reader!Abandon
  <2>2. Reader!Listed' = Reader!Listed /\ Reader!Scored' = Reader!Scored
    BY <2>1 DEF Reader!Listed, Reader!Scored
  <2>3. Reader!SearchTypeOK'
    BY <1>2, <2>1 DEF Reader!Type, SearchInv, Reader!SearchTypeOK, Reader!Typed, Reader!Listed,
       Reader!Scored
  <2>4. /\ Reader!Typed(q) \in tasks' /\ Reader!Typed(q).of = q
        /\ Reader!Typed(q).at = "timer"
    BY <2>1 DEF Reader!Typed
  <2>5. Reader!SearchIsSettled'
    BY <1>2, <2>1, <2>4 DEF Reader!Type, SearchInv, Reader!SearchIsSettled,
       Reader!Cardinality
  <2>6. \A t \in tasks' : TaskStands(t)'
    BY <2>1, <2>4 DEF TaskStands
  <2> QED BY <1>2, <2>1, <2>2, <2>3, <2>5, <2>6 DEF SearchInv, Reader!Type
<1>3. CASE Reader!TypeShort \/ Reader!Leave
  <2>1. /\ query' = None /\ found' = Reader!Empty /\ tasks' = {}
        /\ access' = access /\ witnessed' = witnessed /\ turns' = turns
        /\ alert' \in {alert, None} /\ activeIndex' \in {activeIndex, -1}
        /\ searching' \in {searching, FALSE}
    BY <1>3 DEF Reader!TypeShort, Reader!Leave, Reader!Begun, Reader!Abandon
  <2>2. Reader!Listed' = Reader!Listed /\ Reader!Scored' = Reader!Scored
    BY <2>1 DEF Reader!Listed, Reader!Scored
  <2>3. Reader!SearchTypeOK'
    <3>1. found' \in [of : Queries \cup {None}, names : SUBSET Findable, scores : SUBSET Findable]
      BY <2>1 DEF Reader!Empty
    <3>2. activeIndex' \in Int
      BY <2>1 DEF SearchInv, Reader!SearchTypeOK
    <3>3. searching' \in BOOLEAN
      BY Zenon, <2>1 DEF SearchInv, Reader!SearchTypeOK
    <3> QED BY <2>1, <3>1, <3>2, <3>3 DEF SearchInv, Reader!SearchTypeOK
  <2>4. found'.names = {}
    BY <2>1 DEF Reader!Empty
  <2>5. Reader!SearchIsSettled'
    BY <2>1, <2>4 DEF Reader!SearchIsSettled
  <2> QED BY <2>1, <2>2, <2>3, <2>5 DEF SearchInv
<1>4. CASE Reader!Arrow \/ Reader!Hover
  <2>1. Reader!Cardinality(found.names) \in Nat
    BY OptionIsThere DEF SearchInv, Reader!SearchTypeOK
  <2>2. found.names # {} => Reader!Cardinality(found.names) > 0
    BY OptionIsThere DEF SearchInv, Reader!SearchTypeOK
  <2> DEFINE count == Reader!Cardinality(found.names)
  <2>3. /\ UNCHANGED <<query, found, searching, alert, tasks, access, turns, witnessed>>
        /\ found.names # {}
        /\ activeIndex' \in {(activeIndex + 1) % count, count - 1, activeIndex - 1}
             \cup (0..(count - 1))
        /\ activeIndex' = activeIndex - 1 => ~(activeIndex <= 0) \/ activeIndex' \in 0..(count - 1)
             \/ activeIndex' = count - 1 \/ activeIndex' = (activeIndex + 1) % count
    BY <1>4 DEF Reader!Arrow, Reader!Hover, Reader!Point
  <2>4. activeIndex \in Int /\ activeIndex < count
    BY <2>3 DEF SearchInv, Reader!SearchTypeOK, Reader!SearchIsSettled
  <2>5. activeIndex' \in Int /\ activeIndex' < count
    <3> HIDE DEF count
    <3> QED BY <2>1, <2>2, <2>3, <2>4 DEF count
  <2>6. count' = count
    BY <2>3 DEF Reader!Cardinality
  <2>7. Reader!Listed' = Reader!Listed /\ Reader!Scored' = Reader!Scored
    BY <2>3 DEF Reader!Listed, Reader!Scored
  <2>8. Reader!SearchTypeOK'
    BY <2>3, <2>5 DEF SearchInv, Reader!SearchTypeOK
  <2>9. Reader!SearchIsSettled'
    <3> HIDE DEF count
    <3>1. found'.names # {} => activeIndex' < Reader!Cardinality(found.names)'
      BY <2>3, <2>5, <2>6 DEF count
    <3> QED BY <2>3, <3>1 DEF SearchInv, Reader!SearchIsSettled
  <2> QED BY <2>3, <2>7, <2>8, <2>9 DEF SearchInv, TaskStands
<1>5. ASSUME NEW t \in tasks, Reader!Send(t) \/ Reader!ReadRows(t) \/ Reader!ReadAccess(t)
      PROVE  SearchInv'
  <2>1. tasks = {t} /\ TaskStands(t)
    BY DEF SearchInv
  <2>2. t \in [of : Queries, at : {"timer", "sent", "rows", "answered"},
               rows : SUBSET Findable, scores : SUBSET Findable]
    BY DEF SearchInv, Reader!SearchTypeOK
  <2>3. PICK u :
          /\ tasks' = {u}
          /\ u \in [of : Queries, at : {"timer", "sent", "rows", "answered"},
                    rows : SUBSET Findable, scores : SUBSET Findable]
          /\ u.of = query /\ u.at # "timer"
          /\ u.at \in {"rows", "answered"} => u.rows \subseteq witnessed.listed
          /\ u.at = "answered" => u.scores \subseteq witnessed.scored
          /\ alert' \in {None, alert} /\ (alert' = alert => t.at # "timer" \/ alert = None)
    <3>1. CASE Reader!Send(t)
      <4>1. PICK u : u = [t EXCEPT !.at = "sent"]
        OBVIOUS
      <4>2. tasks' = {u}
        BY <2>1, <3>1, <4>1 DEF Reader!Send, Reader!Moves
      <4> QED BY <2>1, <2>2, <3>1, <4>1, <4>2 DEF Reader!Send, TaskStands
    <3>2. CASE Reader!ReadRows(t)
      <4>1. PICK u : u = [t EXCEPT !.at = "rows", !.rows = Matching[t.of] \cap Reader!Listed]
        OBVIOUS
      <4>2. tasks' = {u}
        BY <2>1, <3>2, <4>1 DEF Reader!ReadRows, Reader!Moves
      <4>3. Matching[t.of] \subseteq Findable /\ Reader!Listed \subseteq witnessed.listed
        BY <1>a, <2>2 DEF SearchInv
      <4> QED BY <2>1, <2>2, <3>2, <4>1, <4>2, <4>3 DEF Reader!ReadRows, TaskStands
    <3>3. CASE Reader!ReadAccess(t)
      <4>1. PICK u : u = [t EXCEPT !.at = "answered",
                 !.rows = (t.rows \ Fixtures) \cup (t.rows \cap Reader!Listed),
                 !.scores = Reader!Exposable(t.rows)]
        OBVIOUS
      <4>2. tasks' = {u}
        BY <2>1, <3>3, <4>1 DEF Reader!ReadAccess, Reader!Moves
      <4>3. /\ Reader!Exposable(t.rows) \subseteq witnessed.scored
            /\ Reader!Exposable(t.rows) \subseteq t.rows
        BY DEF SearchInv, Reader!Exposable
      <4> QED BY <2>1, <2>2, <3>3, <4>1, <4>2, <4>3 DEF Reader!ReadAccess, TaskStands
    <3> QED BY <1>5, <3>1, <3>2, <3>3
  <2>4. /\ UNCHANGED <<query, found, activeIndex, access, turns, witnessed>>
        /\ searching' = TRUE
    BY <1>5, <2>1 DEF Reader!Send, Reader!ReadRows, Reader!ReadAccess, SearchInv,
       Reader!SearchTypeOK, TaskStands
  <2>5. Reader!Listed' = Reader!Listed /\ Reader!Scored' = Reader!Scored
    BY <2>4 DEF Reader!Listed, Reader!Scored
  <2>6. alert' = None
    BY <2>1, <2>3 DEF TaskStands
  <2>7. Reader!SearchTypeOK'
    BY <2>3, <2>4, <2>6 DEF SearchInv, Reader!SearchTypeOK
  <2>8. Reader!SearchIsSettled'
    BY <2>3, <2>4 DEF SearchInv, Reader!SearchIsSettled, Reader!Cardinality
  <2>9. TaskStands(u)' /\ \A v \in tasks' : v = u
    BY <2>3, <2>4, <2>6 DEF TaskStands
  <2> QED BY <2>4, <2>5, <2>7, <2>8, <2>9 DEF SearchInv
<1>6. ASSUME NEW t \in tasks, Reader!Receive(t) PROVE SearchInv'
  <2>1. tasks = {t} /\ TaskStands(t)
    BY DEF SearchInv
  <2>2. t \in [of : Queries, at : {"timer", "sent", "rows", "answered"},
               rows : SUBSET Findable, scores : SUBSET Findable]
    BY DEF SearchInv, Reader!SearchTypeOK
  <2>3. /\ tasks' = {} /\ searching' = FALSE /\ activeIndex' = -1 /\ t.at = "answered"
        /\ found' = [of |-> t.of, names |-> t.rows, scores |-> t.scores]
        /\ UNCHANGED <<query, alert, access, turns, witnessed>>
    BY <1>6, <2>1 DEF Reader!Receive
  <2>4. Reader!Listed' = Reader!Listed /\ Reader!Scored' = Reader!Scored
    BY <2>3 DEF Reader!Listed, Reader!Scored
  <2>5. Reader!SearchTypeOK'
    <3>1. found' \in [of : Queries \cup {None}, names : SUBSET Findable, scores : SUBSET Findable]
      BY <2>2, <2>3
    <3>2. activeIndex' \in Int
      BY <2>3
    <3>3. searching' \in BOOLEAN
      BY Zenon, <2>3
    <3> QED BY <2>3, <3>1, <3>2, <3>3 DEF SearchInv, Reader!SearchTypeOK
  <2>6. found'.of = t.of /\ found'.names = t.rows /\ found'.scores = t.scores
    BY <2>3
  <2>7. Reader!Cardinality(found'.names) \in Nat
    BY <2>2, <2>6, OptionIsThere DEF SearchInv
  <2>8. found'.names # {} => activeIndex' < Reader!Cardinality(found.names)'
    <3>1. Reader!Cardinality(found.names)' = Reader!Cardinality(found'.names)
      BY DEF Reader!Cardinality
    <3> QED BY <2>3, <2>7, <3>1
  <2>9. Reader!SearchIsSettled'
    BY <2>1, <2>3, <2>6, <2>8 DEF Reader!SearchIsSettled, TaskStands
  <2> QED BY <2>3, <2>4, <2>5, <2>9 DEF SearchInv
<1>7. ASSUME NEW t \in tasks, Reader!Fail(t) PROVE SearchInv'
  <2>1. tasks = {t} /\ TaskStands(t) /\ t.of \in Queries
    BY DEF SearchInv, Reader!SearchTypeOK
  <2>2. /\ tasks' = {} /\ searching' = FALSE /\ alert' = query
        /\ UNCHANGED <<query, found, activeIndex, access, turns, witnessed>>
    BY <1>7, <2>1 DEF Reader!Fail, TaskStands
  <2>3. Reader!Listed' = Reader!Listed /\ Reader!Scored' = Reader!Scored
    BY <2>2 DEF Reader!Listed, Reader!Scored
  <2>4. Reader!SearchTypeOK'
    BY <2>2 DEF SearchInv, Reader!SearchTypeOK
  <2>5. Reader!SearchIsSettled'
    BY <2>2 DEF SearchInv, Reader!SearchIsSettled, Reader!Cardinality
  <2> QED BY <2>2, <2>3, <2>4, <2>5 DEF SearchInv
<1>8. CASE Reader!Turn
  <2>1. /\ UNCHANGED <<query, found, searching, alert, activeIndex, tasks>>
        /\ turns' = turns + 1 /\ turns' \in 0..MaxTurns
        /\ access' \in [Findable -> {"hidden", "named", "scored"}]
    BY <1>8 DEF Reader!Turn, SearchInv, Reader!SearchTypeOK, Reader!SearchAssumption,
       Reader!Accesses
  <2>2. /\ witnessed' = [listed |-> witnessed.listed \cup Reader!Listed',
                         scored |-> witnessed.scored \cup Reader!Scored']
        /\ Reader!Listed' \subseteq Findable /\ Reader!Scored' \subseteq Findable
    BY <1>8 DEF Reader!Turn, Reader!Listed, Reader!Scored
  <2>3. /\ witnessed'.listed = witnessed.listed \cup Reader!Listed'
        /\ witnessed'.scored = witnessed.scored \cup Reader!Scored'
        /\ witnessed' \in [listed : SUBSET Findable, scored : SUBSET Findable]
    BY <2>2 DEF SearchInv, Reader!SearchTypeOK
  <2>4. Reader!SearchTypeOK'
    BY <2>1, <2>3 DEF SearchInv, Reader!SearchTypeOK
  <2>5. Reader!SearchIsSettled'
    BY <2>1, <2>3 DEF SearchInv, Reader!SearchIsSettled, Reader!Cardinality
  <2>6. \A t \in tasks' : TaskStands(t)'
    BY <2>1, <2>3 DEF SearchInv, TaskStands
  <2> QED BY <2>1, <2>3, <2>4, <2>5, <2>6 DEF SearchInv
<1> QED
  BY <1>1, <1>2, <1>3, <1>4, <1>5, <1>6, <1>7, <1>8 DEF Reader!SearchNext

LEMMA SearchIsSafe ==
  ASSUME Reader!SearchAssumption
  PROVE  Reader!SearchSpec => []Reader!SearchIsSettled
<1>1. Reader!SearchInit => SearchInv
  <2> SUFFICES ASSUME Reader!SearchInit PROVE SearchInv
    OBVIOUS
  <2>1. /\ query = None /\ found = [of |-> None, names |-> {}, scores |-> {}]
        /\ tasks = {} /\ alert = None /\ activeIndex = -1 /\ searching = FALSE /\ turns = 0
        /\ access \in [Findable -> {"hidden", "named", "scored"}]
    BY DEF Reader!SearchInit, Reader!Empty
  <2>2. witnessed.listed = Reader!Listed /\ witnessed.scored = Reader!Scored
    BY DEF Reader!SearchInit
  <2>3. witnessed \in [listed : SUBSET Findable, scored : SUBSET Findable]
    BY DEF Reader!SearchInit, Reader!Listed, Reader!Scored
  <2>4. Reader!SearchTypeOK
    <3>1. found \in [of : Queries \cup {None}, names : SUBSET Findable, scores : SUBSET Findable]
      BY <2>1
    <3>2. activeIndex \in Int
      BY <2>1
    <3>3. tasks \subseteq [of : Queries, at : {"timer", "sent", "rows", "answered"},
                            rows : SUBSET Findable, scores : SUBSET Findable]
      BY <2>1
    <3>4. turns \in 0..MaxTurns
      BY <2>1 DEF Reader!SearchAssumption
    <3> QED BY <2>1, <2>3, <3>1, <3>2, <3>3, <3>4 DEF Reader!SearchTypeOK
  <2>5. Reader!SearchIsSettled
    BY <2>1 DEF Reader!SearchIsSettled, Reader!showPanel
  <2> QED BY <2>1, <2>2, <2>4, <2>5 DEF SearchInv
<1>2. SearchInv /\ [Reader!SearchNext]_(Reader!searchVars) => SearchInv'
  BY SearchKept
<1>3. SearchInv => Reader!SearchIsSettled
  BY DEF SearchInv
<1> QED BY <1>1, <1>2, <1>3, PTL DEF Reader!SearchSpec

\* A behaviour of the composition is one of the part, or the part is at rest.
LEMMA SearchedAlone == PartsSpec => (part = "search" /\ Reader!SearchSpec) \/ []~(part = "search")
<1>1. PartsInit => (part = "search" => Reader!SearchInit)
  BY DEF PartsInit
<1>2. [PartsNext]_partsVars => (part = "search" => [Reader!SearchNext]_(Reader!searchVars))
  BY PartAtWork
<1>3. [PartsNext]_partsVars => ((part = "search") <=> (part = "search")')
  BY PartAtWork
<1> QED BY <1>1, <1>2, <1>3, PTL DEF PartsSpec, Reader!SearchSpec

-----------------------------------------------------------------------------
(* The page of Ask CentrePass                                              *)

\* The property is inductive: a request is aborted before another is made, and what is
\* set in a transition is of the last one.
LEMMA AskKept ==
  ASSUME Reader!AskAssumption, Reader!AnswerIsOfTheAddress, [Reader!AskNext]_(Reader!askVars)
  PROVE  Reader!AnswerIsOfTheAddress'
<1> USE DEF Reader!AnswerIsOfTheAddress
<1>a. /\ None \notin Texts /\ None # "failed" /\ "short" # "failed"
      /\ \A a \in Reader!Answers : a # None
  BY DEF Reader!AskAssumption, Reader!Errors
<1>1. CASE UNCHANGED Reader!askVars
  BY <1>1 DEF Reader!askVars
<1>2. ASSUME NEW q \in Texts \cup {None}, Reader!Run(q) PROVE Reader!AnswerIsOfTheAddress'
  BY <1>2, <1>a DEF Reader!Run, Reader!Abort
<1>3. ASSUME NEW q \in Texts, Reader!Answered(q) PROVE Reader!AnswerIsOfTheAddress'
  <2>1. PICK a \in Reader!Answers : a.of = q /\ coming' = a
    BY <1>3 DEF Reader!Answered
  <2>2. coming' # None /\ coming'.of = q
    BY <2>1, <1>a
  <2>3. flights = {q} /\ q = address /\ requesting
    BY <1>3 DEF Reader!Answered
  <2> QED BY <1>3, <2>2, <2>3 DEF Reader!Answered
<1>4. ASSUME NEW q \in Texts, Reader!Failed(q) PROVE Reader!AnswerIsOfTheAddress'
  BY <1>4 DEF Reader!Failed, Reader!Pending
<1>5. CASE Reader!Commit
  BY <1>5 DEF Reader!Commit
<1>6. ASSUME NEW q \in Texts \cup {None}, Reader!Edit(q) PROVE Reader!AnswerIsOfTheAddress'
  BY <1>6 DEF Reader!Edit
<1>7. CASE Reader!AskNext
  <2>1. CASE Reader!Submit \/ Reader!Retry
    <3>1. Reader!Run(question)
      BY <2>1 DEF Reader!Submit, Reader!Retry
    <3>2. question = None \/ question # None
      OBVIOUS
    <3> QED BY <3>1, <1>a DEF Reader!Run, Reader!Abort
  <2>2. ASSUME NEW q \in Texts, Reader!ChooseExample(q) \/ Reader!Clarify(q)
        PROVE  Reader!AnswerIsOfTheAddress'
    BY <1>2, <2>2 DEF Reader!ChooseExample, Reader!Clarify
  <2> QED
    BY <1>3, <1>4, <1>5, <1>6, <1>7, <2>1, <2>2 DEF Reader!AskNext
<1> QED BY <1>1, <1>7

LEMMA AskIsSafe ==
  ASSUME Reader!AskAssumption
  PROVE  Reader!AskSpec => []Reader!AnswerIsOfTheAddress
<1>1. Reader!AskInit => Reader!AnswerIsOfTheAddress
  <2>1. None # "failed" /\ "short" # "failed"
    BY DEF Reader!AskAssumption, Reader!Errors
  <2> QED BY <2>1 DEF Reader!AskInit, Reader!AnswerIsOfTheAddress
<1>2. Reader!AnswerIsOfTheAddress /\ [Reader!AskNext]_(Reader!askVars) => Reader!AnswerIsOfTheAddress'
  BY AskKept
<1> QED BY <1>1, <1>2, PTL DEF Reader!AskSpec

\* A behaviour of the composition is one of the part, or the part is at rest.
LEMMA AskAlone == PartsSpec => (part = "ask" /\ Reader!AskSpec) \/ []~(part = "ask")
<1>1. PartsInit => (part = "ask" => Reader!AskInit)
  BY DEF PartsInit
<1>2. [PartsNext]_partsVars => (part = "ask" => [Reader!AskNext]_(Reader!askVars))
  BY PartAtWork
<1>3. [PartsNext]_partsVars => ((part = "ask") <=> (part = "ask")')
  BY PartAtWork
<1> QED BY <1>1, <1>2, <1>3, PTL DEF PartsSpec, Reader!AskSpec

-----------------------------------------------------------------------------
(* Saved items                                                             *)

Unstrained == known \ strained
Live(c) == calls[c] # None /\ calls[c].at # "left"

\* A request for i, while no other meets it: what was shown before, what is shown, and
\* what is saved.
RequestIsClean(c, i) ==
    /\ i \in shown <=> calls[c].verb = "POST"
    /\ i \in calls[c].was <=> calls[c].verb = "DELETE"
    /\ calls[c].at \in {"sent", "refused"} => (i \in savedRows <=> i \in calls[c].was)
    /\ calls[c].at = "ok" => (i \in savedRows <=> i \in shown)

\* What the first requests of a page have told it, and will.
LoadStands ==
    /\ known \subseteq place.items
    /\ load # "done" => known = {}
    /\ load = "read" => \A i \in place.items \ strained : i \in copy <=> i \in savedRows

\* A request is of the page, or of an item that it has strained.
CallsStand ==
    \A c \in Calls : calls[c] # None =>
        /\ ~Live(c) \/ load # "done" => calls[c].item \in strained
        /\ Live(c) =>
              /\ calls[c].item \in place.items
              /\ calls[c].was \subseteq Reader!Peers(calls[c].item)
              /\ load # "done" => ~Reader!IsListed(calls[c].item)

\* A request for an item that is not strained is alone among its peers, and one for a
\* peer has the item as it is shown.
CallsAgree ==
    \A i \in Unstrained, c \in Calls : Live(c) =>
        /\ calls[c].item = i =>
              /\ RequestIsClean(c, i)
              /\ \A d \in Calls : Live(d) /\ calls[d].item \in Reader!Peers(i) => d = c
        /\ calls[c].item \in Reader!Peers(i) /\ calls[c].item # i =>
              (i \in calls[c].was <=> i \in shown)

RestAgrees ==
    \A i \in Unstrained :
        (\A c \in Calls : Live(c) => calls[c].item # i) => (i \in shown <=> i \in savedRows)

SavedInv == Reader!SavedTypeOK /\ LoadStands /\ CallsStand /\ CallsAgree /\ RestAgrees

LEMMA PeersAgree ==
  ASSUME Reader!SavedAssumption,
         NEW i \in Reader!Savable, NEW j \in Reader!Peers(i)
  PROVE  /\ i \in Reader!Peers(i) /\ i \in Reader!Peers(j)
         /\ j \in Reader!Savable /\ Reader!Peers(j) = Reader!Peers(i)
         /\ Reader!IsListed(j) <=> Reader!IsListed(i)
BY DEF Reader!SavedAssumption, Reader!Peers, Reader!IsListed, Reader!Savable

LEMMA PlacesHaveItems ==
  ASSUME NEW p \in Reader!Places
  PROVE  p.items \subseteq Reader!Savable
<1>1. CASE p = Reader!Settings
  BY <1>1 DEF Reader!Settings
<1>2. ASSUME NEW f \in Favorites, NEW r \in {{}} \cup {{m} : m \in Reminders},
             p = [page |-> "match", items |-> {f} \cup r]
      PROVE  p.items \subseteq Reader!Savable
  BY <1>2 DEF Reader!Savable
<1> QED BY <1>1, <1>2 DEF Reader!Places, Reader!MatchPages

\* What a call sets again is of the item and of its peers.
LEMMA RestoredIsAlike ==
  ASSUME Reader!SavedAssumption, SavedInv, NEW c \in Calls, Live(c)
  PROVE  /\ calls[c] \in Reader!CallStates
         /\ Reader!Restored(calls[c]) \subseteq Reader!Savable
         /\ calls[c].item \in Reader!Restored(calls[c]) <=> calls[c].item \in calls[c].was
         /\ \A i \in Unstrained : i # calls[c].item =>
              (i \in Reader!Restored(calls[c]) <=> i \in shown)
<1> DEFINE j == calls[c].item
<1>1. calls[c] \in Reader!CallStates /\ j \in Reader!Savable /\ calls[c].was \subseteq Reader!Savable
  BY DEF SavedInv, Reader!SavedTypeOK, Reader!CallStates, Live
<1>2. Unstrained \subseteq Reader!Savable
  BY PlacesHaveItems DEF SavedInv, Reader!SavedTypeOK, LoadStands, Unstrained
<1>3. j \in Reader!Peers(j)
  BY <1>1 DEF Reader!Peers, Reader!IsListed, Reader!Savable
<1>4. calls[c].was \subseteq Reader!Peers(j)
  BY DEF SavedInv, CallsStand, Live
<1>5. Reader!Restored(calls[c]) = (shown \ Reader!Peers(j)) \cup calls[c].was
  BY DEF Reader!Restored, Reader!Closure
<1>6. shown \subseteq Reader!Savable
  BY DEF SavedInv, Reader!SavedTypeOK
<1>7. ASSUME NEW i \in Unstrained, i # j
      PROVE  i \in Reader!Restored(calls[c]) <=> i \in shown
  <2>1. CASE i \in Reader!Peers(j)
    <3>1. j \in Reader!Peers(i)
      BY <1>1, <2>1, PeersAgree
    <3>2. i \in calls[c].was <=> i \in shown
      BY <1>7, <3>1 DEF SavedInv, CallsAgree
    <3> QED BY <1>5, <2>1, <3>2
  <2>2. CASE i \notin Reader!Peers(j)
    BY <1>4, <1>5, <2>2
  <2> QED BY <2>1, <2>2
<1> QED BY <1>1, <1>3, <1>5, <1>6, <1>7

\* A step after which no request is new and what is shown and saved is changed for a
\* request's own item only.
LEMMA OthersKept ==
  ASSUME Reader!SavedAssumption, SavedInv, NEW c \in Calls, calls[c] # None,
         NEW moved \in Reader!CallStates \cup {None},
         calls' = [calls EXCEPT ![c] = moved],
         moved # None =>
            moved.item = calls[c].item /\ moved.was = calls[c].was /\ moved.at # "left" /\ Live(c),
         UNCHANGED <<place, load, copy, known>>,
         strained' \in SUBSET Reader!Savable, strained \subseteq strained',
         pending' \in Reader!Savable \cup {None},
         shown' \subseteq Reader!Savable, savedRows' \subseteq Reader!Savable,
         \A i \in Reader!Savable : i # calls[c].item => (i \in savedRows' <=> i \in savedRows),
         savedRows' # savedRows /\ load # "done" => calls[c].item \in strained',
         \A i \in Unstrained : i # calls[c].item => (i \in shown' <=> i \in shown),
         calls[c].item \in Unstrained /\ calls[c].item \notin strained' /\ Live(c) =>
            IF moved = None THEN calls[c].item \in shown' <=> calls[c].item \in savedRows'
            ELSE RequestIsClean(c, calls[c].item)'
  PROVE  SavedInv'
<1> DEFINE j == calls[c].item
<1>1. /\ j \in Reader!Savable
      /\ calls \in [Calls -> Reader!CallStates \cup {None}]
      /\ Unstrained \subseteq Reader!Savable /\ place.items \subseteq Reader!Savable
  BY PlacesHaveItems DEF SavedInv, Reader!SavedTypeOK, LoadStands, Unstrained, Reader!CallStates
<1>2. Unstrained' = known \ strained' /\ Unstrained' \subseteq Unstrained
  BY DEF Unstrained
<1>3. \A d \in Calls : d # c => calls'[d] = calls[d] /\ (Live(d)' <=> Live(d))
  BY <1>1 DEF Live
<1>4. calls'[c] = moved /\ (Live(c)' => Live(c) /\ calls'[c].item = j /\ calls'[c].was = calls[c].was)
  BY <1>1 DEF Live
<1>5. \A i : Reader!Peers(i)' = Reader!Peers(i) /\ (Reader!IsListed(i)' <=> Reader!IsListed(i))
  BY DEF Reader!Peers, Reader!IsListed, Reader!OnSettings
<1>6. Reader!SavedTypeOK'
  <2>1. calls' \in [Calls -> Reader!CallStates \cup {None}]
    BY <1>1
  <2> QED BY <2>1 DEF SavedInv, Reader!SavedTypeOK
<1>7. LoadStands'
  BY <1>1 DEF SavedInv, LoadStands
<1>8. CallsStand'
  <2> SUFFICES ASSUME NEW d \in Calls, calls'[d] # None
               PROVE  /\ ~Live(d)' \/ load # "done" => calls'[d].item \in strained'
                      /\ Live(d)' =>
                            /\ calls'[d].item \in place.items
                            /\ calls'[d].was \subseteq Reader!Peers(calls'[d].item)
                            /\ load # "done" => ~Reader!IsListed(calls'[d].item)
    BY <1>5 DEF CallsStand
  <2>1. calls[d] # None /\ (Live(d)' <=> Live(d))
        /\ calls'[d].item = calls[d].item /\ calls'[d].was = calls[d].was
    <3>1. CASE d = c
      BY <1>4, <3>1 DEF Live
    <3>2. CASE d # c
      BY <1>3, <3>2
    <3> QED BY <3>1, <3>2
  <2> QED BY <2>1 DEF SavedInv, CallsStand
<1>9. CallsAgree'
  <2> SUFFICES ASSUME NEW i \in Unstrained', NEW d \in Calls, Live(d)'
               PROVE  /\ calls'[d].item = i =>
                           /\ RequestIsClean(d, i)'
                           /\ \A e \in Calls : Live(e)' /\ calls'[e].item \in Reader!Peers(i) => e = d
                      /\ calls'[d].item \in Reader!Peers(i) /\ calls'[d].item # i =>
                           (i \in calls'[d].was <=> i \in shown')
    BY <1>5 DEF CallsAgree
  <2>1. /\ Live(d) /\ calls'[d].item = calls[d].item /\ calls'[d].was = calls[d].was
        /\ i \in Unstrained /\ i \notin strained' /\ i \in Reader!Savable
    BY <1>1, <1>2, <1>3, <1>4
  <2>2. \A e \in Calls : Live(e)' => Live(e) /\ calls'[e].item = calls[e].item
    BY <1>3, <1>4
  <2>3. ASSUME calls'[d].item = i
        PROVE  /\ RequestIsClean(d, i)'
               /\ \A e \in Calls : Live(e)' /\ calls'[e].item \in Reader!Peers(i) => e = d
    <3>1. \A e \in Calls : Live(e) /\ calls[e].item \in Reader!Peers(i) => e = d
      BY <2>1, <2>3 DEF SavedInv, CallsAgree
    <3>2. CASE d = c
      <4>1. moved # None /\ Live(c) /\ j = i
        BY <1>4, <2>1, <2>3, <3>2 DEF Live
      <4>2. RequestIsClean(c, j)'
        BY <2>1, <4>1
      <4>3. RequestIsClean(c, i)'
        BY <4>1, <4>2 DEF RequestIsClean
      <4> QED BY <2>2, <3>1, <3>2, <4>3
    <3>3. CASE d # c
      <4>1. i # j \/ ~Live(c)
        <5>1. i \in Reader!Peers(i)
          BY <2>1 DEF Reader!Peers, Reader!IsListed, Reader!Savable
        <5> QED BY <3>1, <3>3, <5>1
      <4>2. i # j
        <5>1. ~Live(c) => j \in strained
          BY DEF SavedInv, CallsStand
        <5> QED BY <2>1, <4>1, <5>1 DEF Unstrained
      <4>3. calls'[d] = calls[d] /\ RequestIsClean(d, i)
        BY <1>3, <2>1, <2>3, <3>3 DEF SavedInv, CallsAgree
      <4>4. (i \in shown' <=> i \in shown) /\ (i \in savedRows' <=> i \in savedRows)
        BY <2>1, <4>2
      <4>5. RequestIsClean(d, i)'
        BY <4>3, <4>4 DEF RequestIsClean
      <4> QED BY <2>2, <3>1, <4>5
    <3> QED BY <3>2, <3>3
  <2>4. ASSUME calls'[d].item \in Reader!Peers(i), calls'[d].item # i
        PROVE  i \in calls'[d].was <=> i \in shown'
    <3>1. i \in calls[d].was <=> i \in shown
      BY <2>1, <2>4 DEF SavedInv, CallsAgree
    <3>2. i \in shown' <=> i \in shown
      <4>1. CASE i # j
        BY <2>1, <4>1
      <4>2. CASE i = j
        <5>1. d # c
          BY <2>1, <2>4, <4>2
        <5>2. Live(c) => d = c
          BY <2>1, <2>4, <4>2 DEF SavedInv, CallsAgree
        <5>3. ~Live(c) => j \in strained
          BY DEF SavedInv, CallsStand
        <5> QED BY <2>1, <4>2, <5>1, <5>2, <5>3 DEF Unstrained
      <4> QED BY <4>1, <4>2
    <3> QED BY <2>1, <3>1, <3>2
  <2> QED BY <2>3, <2>4
<1>10. RestAgrees'
  <2> SUFFICES ASSUME NEW i \in Unstrained', \A d \in Calls : Live(d)' => calls'[d].item # i
               PROVE  i \in shown' <=> i \in savedRows'
    BY DEF RestAgrees
  <2>1. i \in Unstrained /\ i \notin strained' /\ i \in Reader!Savable
    BY <1>1, <1>2
  <2>2. CASE i # j
    <3>1. \A d \in Calls : Live(d) => calls[d].item # i
      BY <1>3, <2>2
    <3>2. i \in shown <=> i \in savedRows
      BY <2>1, <3>1 DEF SavedInv, RestAgrees
    <3> QED BY <2>1, <2>2, <3>2
  <2>3. CASE i = j
    <3>1. Live(c)
      <4>1. ~Live(c) => j \in strained
        BY DEF SavedInv, CallsStand
      <4> QED BY <2>1, <2>3, <4>1 DEF Unstrained
    <3>2. moved = None
      <4> SUFFICES ASSUME moved # None PROVE FALSE
        OBVIOUS
      <4>1. Live(c)' /\ calls'[c].item = j
        BY <1>4 DEF Live
      <4> QED BY <2>3, <4>1
    <3> QED BY <2>1, <2>3, <3>1, <3>2
  <2> QED BY <2>2, <2>3
<1> QED BY <1>6, <1>7, <1>8, <1>9, <1>10 DEF SavedInv

\* A request of i begins, which strains those it meets.
LEMMA StartKept ==
  ASSUME Reader!SavedAssumption, SavedInv, NEW i \in place.items, Reader!Start(i),
         Reader!IsListed(i) => i \in known, pending' \in Reader!Savable \cup {None}
  PROVE  SavedInv'
<1>1. /\ i \in Reader!Savable /\ None \notin Reader!CallStates
      /\ calls \in [Calls -> Reader!CallStates \cup {None}]
      /\ Unstrained \subseteq Reader!Savable /\ place.items \subseteq Reader!Savable
      /\ shown \subseteq Reader!Savable /\ strained \subseteq Reader!Savable
  BY PlacesHaveItems DEF SavedInv, Reader!SavedTypeOK, LoadStands, Unstrained, Reader!CallStates,
     Reader!SavedAssumption
<1> DEFINE verb == IF i \in shown THEN "DELETE" ELSE "POST"
<1>2. PICK call : call = [item |-> i, verb |-> verb, was |-> shown \cap Reader!Peers(i), at |-> "sent"]
  OBVIOUS
<1>3. /\ call.item = i /\ call.verb = verb /\ call.was = shown \cap Reader!Peers(i)
      /\ call.at = "sent" /\ call \in Reader!CallStates /\ call # None
  <2>1. call \in Reader!CallStates
    BY <1>1, <1>2 DEF Reader!CallStates
  <2> QED BY <1>1, <1>2, <2>1
<1>s. PICK c \in Calls :
        /\ calls[c] = None
        /\ calls' = [calls EXCEPT ![c] = call]
        /\ shown' = IF verb = "POST" THEN shown \cup {i} ELSE shown \ {i}
  BY <1>2 DEF Reader!Start, Reader!Closure
<1>v. verb \in {"POST", "DELETE"} /\ (verb = "POST" <=> i \notin shown)
  OBVIOUS
<1> HIDE DEF verb
<1>4. /\ \A d \in Calls : d # c => calls'[d] = calls[d] /\ (Live(d)' <=> Live(d))
      /\ calls'[c] = call /\ Live(c)' /\ ~Live(c)
  BY <1>1, <1>s, <1>v, <1>3 DEF Live
<1>5. UNCHANGED <<place, savedRows, load, copy, known>>
      /\ strained' = strained \cup Reader!Strained(i)
  BY DEF Reader!Start
<1>6. \A k : Reader!Peers(k)' = Reader!Peers(k) /\ (Reader!IsListed(k)' <=> Reader!IsListed(k))
  BY <1>5 DEF Reader!Peers, Reader!IsListed, Reader!OnSettings
<1>7. i \in Reader!Peers(i) /\ Reader!Peers(i) \subseteq Reader!Savable
  BY <1>1 DEF Reader!Peers, Reader!IsListed, Reader!Savable
<1>8. /\ \A k \in Reader!Peers(i), d \in Calls :
            Live(d) /\ calls[d].item = k => k \in Reader!Strained(i) /\ i \in Reader!Strained(i)
      /\ load # "done" => i \in Reader!Strained(i)
      /\ Reader!Strained(i) \subseteq Reader!Savable
  BY <1>1, <1>7 DEF Reader!Strained, Reader!Busy, Reader!Left, Live
<1>9. Unstrained' \subseteq Unstrained /\ \A k \in Unstrained' : k \notin strained'
  BY <1>5 DEF Unstrained
<1>10. Reader!SavedTypeOK'
  <2>1. calls' \in [Calls -> Reader!CallStates \cup {None}]
    BY <1>1, <1>s, <1>v, <1>3
  <2> QED BY <1>1, <1>s, <1>v, <1>5, <1>8, <2>1 DEF SavedInv, Reader!SavedTypeOK
<1>11. LoadStands'
  BY <1>5 DEF SavedInv, LoadStands
<1>12. CallsStand'
  <2> SUFFICES ASSUME NEW d \in Calls, calls'[d] # None
               PROVE  /\ ~Live(d)' \/ load # "done" => calls'[d].item \in strained'
                      /\ Live(d)' =>
                            /\ calls'[d].item \in place.items
                            /\ calls'[d].was \subseteq Reader!Peers(calls'[d].item)
                            /\ load # "done" => ~Reader!IsListed(calls'[d].item)
    BY <1>5, <1>6 DEF CallsStand
  <2>1. CASE d = c
    <3>1. load # "done" => ~Reader!IsListed(i)
      BY DEF SavedInv, LoadStands
    <3> QED BY <1>3, <1>4, <1>5, <1>8, <2>1, <3>1
  <2>2. CASE d # c
    BY <1>4, <1>5, <2>2 DEF SavedInv, CallsStand
  <2> QED BY <2>1, <2>2
<1>13. ASSUME NEW k \in Unstrained', k # i PROVE k \in shown' <=> k \in shown
  BY <1>s, <1>v, <1>13
<1>14. CallsAgree'
  <2> SUFFICES ASSUME NEW k \in Unstrained', NEW d \in Calls, Live(d)'
               PROVE  /\ calls'[d].item = k =>
                           /\ RequestIsClean(d, k)'
                           /\ \A e \in Calls : Live(e)' /\ calls'[e].item \in Reader!Peers(k) => e = d
                      /\ calls'[d].item \in Reader!Peers(k) /\ calls'[d].item # k =>
                           (k \in calls'[d].was <=> k \in shown')
    BY <1>6 DEF CallsAgree
  <2>1. k \in Unstrained /\ k \in Reader!Savable /\ k \notin Reader!Strained(i) /\ k \in known
    BY <1>1, <1>5, <1>9 DEF Unstrained
  <2>2. k \in Reader!Peers(k)
    BY <2>1 DEF Reader!Peers, Reader!IsListed, Reader!Savable
  <2>3. CASE k = i
    <3>1. \A e \in Calls : Live(e) => calls[e].item \notin Reader!Peers(i)
      BY <1>8, <2>1, <2>3
    <3>2. \A e \in Calls : Live(e)' /\ calls'[e].item \in Reader!Peers(i) => e = c
      BY <1>4, <3>1
    <3>3. \A e \in Calls : Live(e) => calls[e].item # i
      BY <1>7, <3>1
    <3>4. i \in shown <=> i \in savedRows
      BY <2>1, <2>3, <3>3 DEF SavedInv, RestAgrees
    <3>5. RequestIsClean(c, i)'
      BY <1>s, <1>v, <1>3, <1>4, <1>5, <1>7, <3>4 DEF RequestIsClean
    <3>6. d = c \/ calls'[d].item \notin Reader!Peers(i)
      BY <3>2
    <3>7. CASE d = c
      BY <1>3, <1>4, <2>3, <3>2, <3>5, <3>7
    <3>8. CASE d # c
      BY <2>2, <2>3, <3>6, <3>8
    <3> QED BY <3>7, <3>8
  <2>4. CASE k # i
    <3>1. k \in shown' <=> k \in shown
      BY <1>13, <2>4
    <3>2. CASE d = c
      <4>1. calls'[d].item = i /\ calls'[d].was = shown \cap Reader!Peers(i)
        BY <1>3, <1>4, <3>2
      <4>2. i \in Reader!Peers(k) => k \in Reader!Peers(i)
        BY <2>1, PeersAgree
      <4> QED BY <2>4, <3>1, <4>1, <4>2
    <3>3. CASE d # c
      <4>1. calls'[d] = calls[d] /\ Live(d)
        BY <1>4, <3>3
      <4>2. ASSUME calls[d].item = k
            PROVE  /\ RequestIsClean(d, k)'
                   /\ \A e \in Calls : Live(e)' /\ calls'[e].item \in Reader!Peers(k) => e = d
        <5>1. RequestIsClean(d, k)
          BY <2>1, <4>1, <4>2 DEF SavedInv, CallsAgree
        <5>2. RequestIsClean(d, k)'
          BY <1>5, <3>1, <4>1, <5>1 DEF RequestIsClean
        <5>3. i \notin Reader!Peers(k)
          <6>1. k \notin Reader!Peers(i)
            BY <1>8, <2>1, <4>1, <4>2
          <6> QED BY <2>1, <6>1, PeersAgree
        <5>4. \A e \in Calls : Live(e) /\ calls[e].item \in Reader!Peers(k) => e = d
          BY <2>1, <4>1, <4>2 DEF SavedInv, CallsAgree
        <5>5. \A e \in Calls : Live(e)' /\ calls'[e].item \in Reader!Peers(k) => e = d
          BY <1>3, <1>4, <5>3, <5>4
        <5> QED BY <5>2, <5>5
      <4>3. calls[d].item \in Reader!Peers(k) /\ calls[d].item # k =>
              (k \in calls[d].was <=> k \in shown)
        BY <2>1, <4>1 DEF SavedInv, CallsAgree
      <4> QED BY <3>1, <4>1, <4>2, <4>3
    <3> QED BY <3>2, <3>3
  <2> QED BY <2>3, <2>4
<1>15. RestAgrees'
  <2> SUFFICES ASSUME NEW k \in Unstrained', \A d \in Calls : Live(d)' => calls'[d].item # k
               PROVE  k \in shown' <=> k \in savedRows
    BY <1>5 DEF RestAgrees
  <2>1. k # i
    BY <1>3, <1>4
  <2>2. \A d \in Calls : Live(d) => calls[d].item # k
    BY <1>4
  <2>3. k \in shown <=> k \in savedRows
    BY <1>9, <2>2 DEF SavedInv, RestAgrees
  <2> QED BY <1>13, <2>1, <2>3
<1> QED BY <1>10, <1>11, <1>12, <1>14, <1>15 DEF SavedInv

\* Another page begins with nothing, and leaves requests to the server.
LEMMA OpenKept ==
  ASSUME Reader!SavedAssumption, SavedInv, NEW p \in Reader!Places, Reader!Open(p)
  PROVE  SavedInv'
<1>1. /\ calls \in [Calls -> Reader!CallStates \cup {None}] /\ None \notin Reader!CallStates
      /\ known' = {} /\ load' = "asked" /\ shown' = {} /\ copy' = {} /\ pending' = None
      /\ place' = p /\ savedRows' = savedRows
  BY DEF SavedInv, Reader!SavedTypeOK, Reader!SavedAssumption, Reader!Open
<1>2. \A c \in Calls : calls'[c] \in Reader!CallStates \cup {None} /\ ~Live(c)'
  <2> SUFFICES ASSUME NEW c \in Calls
               PROVE  calls'[c] \in Reader!CallStates \cup {None} /\ ~Live(c)'
    OBVIOUS
  <2>1. calls'[c] = IF calls[c] # None /\ calls[c].at \in {"sent", "left"}
                    THEN [calls[c] EXCEPT !.at = "left"] ELSE None
    BY DEF Reader!Open
  <2>2. CASE calls[c] # None /\ calls[c].at \in {"sent", "left"}
    <3>1. calls[c] \in Reader!CallStates
      BY <1>1, <2>2
    <3>2. PICK moved : moved = [calls[c] EXCEPT !.at = "left"]
      OBVIOUS
    <3>3. moved \in Reader!CallStates /\ moved.at = "left"
      BY <3>1, <3>2 DEF Reader!CallStates
    <3>4. calls'[c] = moved
      BY <2>1, <2>2, <3>2
    <3> QED BY <3>3, <3>4 DEF Live
  <2>3. CASE ~(calls[c] # None /\ calls[c].at \in {"sent", "left"})
    BY <2>1, <2>3 DEF Live
  <2> QED BY <2>2, <2>3
<1>3. calls' \in [Calls -> Reader!CallStates \cup {None}]
  <2>1. calls' = [c \in Calls |-> calls'[c]]
    BY DEF Reader!Open
  <2> HIDE DEF Reader!Open
  <2> QED BY <1>2, <2>1
<1>4. strained' = {i \in Reader!Savable : \E c \in Calls : calls'[c] # None /\ calls'[c].item = i}
  BY DEF Reader!Open
<1>5. \A c \in Calls : calls'[c] # None => calls'[c].item \in Reader!Savable
  BY <1>2 DEF Reader!CallStates
<1>6. CallsStand'
  BY <1>2, <1>4, <1>5 DEF CallsStand
<1>7. Unstrained' = {}
  BY <1>1 DEF Unstrained
<1>8. Reader!SavedTypeOK'
  BY <1>1, <1>3, <1>4 DEF SavedInv, Reader!SavedTypeOK
<1>9. LoadStands'
  BY <1>1 DEF LoadStands
<1> QED BY <1>6, <1>7, <1>8, <1>9 DEF SavedInv, CallsAgree, RestAgrees

\* The first requests of a page tell it what is saved, of what nothing has strained.
LEMMA LoadKept ==
  ASSUME Reader!SavedAssumption, SavedInv,
         Reader!Read \/ Reader!LoadFails \/ \E got \in SUBSET place.items : Reader!Arrive(got)
  PROVE  SavedInv'
<1>1. /\ UNCHANGED <<place, savedRows, pending, calls, strained>>
      /\ load # "done"
  BY DEF Reader!Read, Reader!LoadFails, Reader!Arrive
<1>2. known = {} /\ Unstrained = {} /\ place.items \subseteq Reader!Savable
  BY <1>1, PlacesHaveItems DEF SavedInv, Reader!SavedTypeOK, LoadStands, Unstrained
<1>3. \A c \in Calls : Live(c)' <=> Live(c)
  BY <1>1 DEF Live
<1>4. \A i : Reader!Peers(i)' = Reader!Peers(i) /\ (Reader!IsListed(i)' <=> Reader!IsListed(i))
  BY <1>1 DEF Reader!Peers, Reader!IsListed, Reader!OnSettings
<1>5. CallsStand'
  BY <1>1, <1>3, <1>4 DEF SavedInv, CallsStand
<1>6. CASE known' = {}
  <2>1. Unstrained' = {}
    BY <1>6 DEF Unstrained
  <2>2. shown' = shown /\ copy' \subseteq Reader!Savable /\ load' \in {"read", "done"}
    BY <1>1, <1>2, <1>6 DEF Reader!Read, Reader!LoadFails, Reader!Arrive, SavedInv, Reader!SavedTypeOK
  <2>3. LoadStands'
    BY <1>1, <1>6 DEF Reader!Read, Reader!LoadFails, Reader!Arrive, LoadStands
  <2>4. Reader!SavedTypeOK'
    BY <1>1, <1>6, <2>2 DEF SavedInv, Reader!SavedTypeOK
  <2> QED BY <1>5, <2>1, <2>3, <2>4 DEF SavedInv, CallsAgree, RestAgrees
<1>7. CASE known' # {}
  <2>1. PICK got \in SUBSET place.items : Reader!Arrive(got)
    BY <1>2, <1>7 DEF Reader!Read, Reader!LoadFails
  <2>2. /\ load = "read" /\ load' = "done" /\ known' = got /\ copy' = {}
        /\ shown' = (shown \ got) \cup (copy \cap got)
    BY <2>1 DEF Reader!Arrive
  <2>3. \A i \in Unstrained' : i \in got /\ i \notin strained /\ i \in place.items
    BY <1>1, <2>1, <2>2 DEF Unstrained
  <2>4. \A i \in Unstrained' : i \in shown' <=> i \in savedRows'
    BY <1>1, <2>2, <2>3 DEF SavedInv, LoadStands
  <2>5. \A i \in Unstrained', c \in Calls : Live(c)' => calls'[c].item \notin Reader!Peers(i)'
    <3> SUFFICES ASSUME NEW i \in Unstrained', NEW c \in Calls, Live(c)
                 PROVE  calls[c].item \notin Reader!Peers(i)
      BY <1>1, <1>3, <1>4
    <3>1. calls[c].item \in strained /\ ~Reader!IsListed(calls[c].item)
      BY <1>1 DEF SavedInv, CallsStand, Live
    <3>2. i \in Reader!Savable
      BY <1>2, <2>3
    <3>3. calls[c].item \in Reader!Peers(i) => ~Reader!IsListed(i)
      BY <3>1, <3>2, PeersAgree
    <3>4. calls[c].item \in Reader!Peers(i) => calls[c].item = i
      BY <3>3 DEF Reader!Peers
    <3> QED BY <2>3, <3>1, <3>4
  <2>6. \A i \in Unstrained' : i \in Reader!Peers(i)'
    <3>1. \A i \in Reader!Savable : i \in Reader!Peers(i)
      BY DEF Reader!Peers, Reader!IsListed, Reader!Savable
    <3> QED BY <1>2, <1>4, <2>3, <3>1
  <2>7. CallsAgree'
    BY <2>5, <2>6 DEF CallsAgree
  <2>8. Reader!SavedTypeOK'
    BY <1>1, <1>2, <2>2 DEF SavedInv, Reader!SavedTypeOK
  <2>9. LoadStands'
    BY <1>1, <2>2 DEF LoadStands
  <2> QED BY <1>5, <2>4, <2>7, <2>8, <2>9 DEF SavedInv, RestAgrees
<1> QED BY <1>6, <1>7

\* The server answers, and the page takes back what has been refused or lost.
LEMMA CallKept ==
  ASSUME Reader!SavedAssumption, SavedInv, NEW c \in Calls,
         \/ Reader!Serve(c) \/ Reader!ServeLeft(c) \/ Reader!Succeed(c) \/ Reader!Undo(c)
         \/ Reader!Lose(c)
  PROVE  SavedInv'
<1> DEFINE call == calls[c]
           j == call.item
<1>1. /\ call # None /\ UNCHANGED <<place, load, copy, known>>
      /\ calls \in [Calls -> Reader!CallStates \cup {None}] /\ None \notin Reader!CallStates
  BY DEF Reader!Serve, Reader!ServeLeft, Reader!Succeed, Reader!Undo, Reader!Lose, Reader!End, SavedInv,
     Reader!SavedTypeOK, Reader!SavedAssumption
<1>2. /\ call \in Reader!CallStates /\ j \in Reader!Savable
      /\ call.verb \in {"POST", "DELETE"} /\ call.at \in {"sent", "ok", "refused", "left"}
  BY <1>1 DEF Reader!CallStates
<1>3. /\ strained \subseteq Reader!Savable /\ shown \subseteq Reader!Savable /\ savedRows \subseteq Reader!Savable
      /\ pending \in Reader!Savable \cup {None}
  BY DEF SavedInv, Reader!SavedTypeOK
<1>4. /\ Reader!Applied(call) \subseteq Reader!Savable
      /\ \A i : i # j => (i \in Reader!Applied(call) <=> i \in savedRows)
      /\ j \in Reader!Applied(call) <=> call.verb = "POST"
  BY <1>2, <1>3 DEF Reader!Applied
<1>5. load # "done" \/ ~Live(c) => j \in strained
  BY <1>1 DEF SavedInv, CallsStand
<1>6. j \in Unstrained /\ Live(c) => RequestIsClean(c, j)
  BY DEF SavedInv, CallsAgree
<1>7. Live(c) => /\ Reader!Restored(call) \subseteq Reader!Savable
                 /\ j \in Reader!Restored(call) <=> j \in call.was
                 /\ \A i \in Unstrained : i # j => (i \in Reader!Restored(call) <=> i \in shown)
  BY RestoredIsAlike
<1>8. CASE Reader!Serve(c)
  <2>a. PICK at \in {"ok", "refused"} :
          /\ savedRows' = IF at = "ok" THEN Reader!Applied(call) ELSE savedRows
          /\ calls' = [calls EXCEPT ![c].at = at]
    BY <1>8 DEF Reader!Serve
  <2>b. PICK moved : moved = [call EXCEPT !.at = at]
    OBVIOUS
  <2>1. /\ moved = [call EXCEPT !.at = at]
        /\ savedRows' = IF at = "ok" THEN Reader!Applied(call) ELSE savedRows
        /\ calls' = [calls EXCEPT ![c] = moved]
    BY <2>a, <2>b
  <2>2. /\ moved \in Reader!CallStates /\ moved.item = j /\ moved.was = call.was
        /\ moved.verb = call.verb /\ moved.at = at
    BY <1>2, <2>1 DEF Reader!CallStates
  <2>3. /\ UNCHANGED <<shown, pending, strained>> /\ call.at = "sent" /\ Live(c)
    BY <1>1, <1>8 DEF Reader!Serve, Live
  <2>4. calls'[c] = moved /\ moved # None
    BY <1>1, <2>1, <2>2
  <2>5. j \in Unstrained => RequestIsClean(c, j)'
    <3> SUFFICES ASSUME j \in Unstrained PROVE RequestIsClean(c, j)'
      OBVIOUS
    <3>1. RequestIsClean(c, j)
      BY <1>6, <2>3
    <3>2. at = "ok" => (j \in savedRows' <=> call.verb = "POST")
      BY <1>4, <2>1
    <3>3. at = "refused" => savedRows' = savedRows
      BY <2>1
    <3> QED
      BY <1>2, <2>2, <2>3, <2>4, <3>1, <3>2, <3>3 DEF RequestIsClean
  <2>6. \A i \in Reader!Savable : i # j => (i \in savedRows' <=> i \in savedRows)
    BY <1>4, <2>1
  <2>7. savedRows' \subseteq Reader!Savable
    BY <1>3, <1>4, <2>1
  <2> HIDE DEF call, j
  <2> QED
    BY <1>1, <1>3, <1>5, <2>1, <2>2, <2>3, <2>4, <2>5, <2>6, <2>7, OthersKept DEF call, j
<1>9. CASE Reader!ServeLeft(c)
  <2>1. /\ UNCHANGED <<shown, pending, strained>> /\ ~Live(c)
        /\ savedRows' \in {savedRows, Reader!Applied(call)}
        /\ calls' = [calls EXCEPT ![c] = None]
    BY <1>9 DEF Reader!ServeLeft, Reader!Left, Live
  <2>2. \A i \in Reader!Savable : i # j => (i \in savedRows' <=> i \in savedRows)
    BY <1>4, <2>1
  <2>3. savedRows' \subseteq Reader!Savable
    BY <1>3, <1>4, <2>1
  <2> HIDE DEF call, j
  <2> QED BY <1>1, <1>3, <1>5, <2>1, <2>2, <2>3, OthersKept DEF call, j
<1>10. CASE Reader!Succeed(c) \/ Reader!Undo(c) \/ Reader!Lose(c)
  <2>1. /\ calls' = [calls EXCEPT ![c] = None] /\ pending' \in {pending, None} /\ Live(c)
    BY <1>10, <1>2 DEF Reader!Succeed, Reader!Undo, Reader!Lose, Reader!End, Live
  <2>2. /\ strained' \in {strained, strained \cup {j}}
        /\ savedRows' \in {savedRows, Reader!Applied(call)}
        /\ shown' \in {shown, Reader!Restored(call)}
    BY <1>10 DEF Reader!Succeed, Reader!Undo, Reader!Lose
  <2>3. j \in Unstrained /\ j \notin strained' => (j \in shown' <=> j \in savedRows')
    <3> SUFFICES ASSUME j \in Unstrained, j \notin strained'
                 PROVE  j \in shown' <=> j \in savedRows'
      OBVIOUS
    <3>1. RequestIsClean(c, j)
      BY <1>6, <2>1
    <3>2. CASE Reader!Succeed(c)
      BY <3>1, <3>2 DEF Reader!Succeed, RequestIsClean
    <3>3. CASE Reader!Undo(c)
      BY <1>7, <2>1, <3>1, <3>3 DEF Reader!Undo, RequestIsClean
    <3>4. ~Reader!Lose(c)
      BY DEF Reader!Lose
    <3> QED BY <1>10, <3>2, <3>3, <3>4
  <2>4. \A i \in Reader!Savable : i # j => (i \in savedRows' <=> i \in savedRows)
    BY <1>4, <2>2
  <2>5. /\ savedRows' \subseteq Reader!Savable /\ shown' \subseteq Reader!Savable
        /\ strained' \subseteq Reader!Savable /\ strained \subseteq strained'
        /\ \A i \in Unstrained : i # j => (i \in shown' <=> i \in shown)
    BY <1>2, <1>3, <1>4, <1>7, <2>1, <2>2
  <2>6. savedRows' # savedRows /\ load # "done" => j \in strained'
    BY <1>5, <2>5
  <2> HIDE DEF call, j
  <2> QED
    BY <1>1, <1>3, <2>1, <2>3, <2>4, <2>5, <2>6, OthersKept DEF call, j
<1> QED BY <1>8, <1>9, <1>10

LEMMA SavedKept ==
  ASSUME Reader!SavedAssumption, SavedInv, [Reader!SavedNext]_(Reader!savedVars)
  PROVE  SavedInv'
<1>1. CASE UNCHANGED Reader!savedVars
  <2>1. UNCHANGED <<place, savedRows, shown, load, copy, known, pending, calls, strained>>
    BY <1>1 DEF Reader!savedVars
  <2>2. Unstrained' = Unstrained /\ \A c : Live(c)' = Live(c)
    BY <2>1 DEF Unstrained, Live
  <2>3. \A i : Reader!Peers(i)' = Reader!Peers(i) /\ Reader!IsListed(i)' = Reader!IsListed(i)
    BY <2>1 DEF Reader!Peers, Reader!IsListed, Reader!OnSettings
  <2>4. \A c, i : RequestIsClean(c, i)' = RequestIsClean(c, i)
    BY <2>1 DEF RequestIsClean
  <2>5. Reader!SavedTypeOK' /\ LoadStands'
    BY <2>1 DEF SavedInv, Reader!SavedTypeOK, LoadStands
  <2>6. CallsStand'
    BY <2>1, <2>2, <2>3 DEF SavedInv, CallsStand
  <2>7. CallsAgree'
    BY <2>1, <2>2, <2>3, <2>4 DEF SavedInv, CallsAgree
  <2>8. RestAgrees'
    BY <2>1, <2>2 DEF SavedInv, RestAgrees
  <2> QED BY <2>5, <2>6, <2>7, <2>8 DEF SavedInv
<1>2. ASSUME NEW i \in place.items, Reader!Toggle(i) \/ Reader!Remove(i) PROVE SavedInv'
  <2>1. i \in Reader!Savable /\ pending \in Reader!Savable \cup {None}
    BY PlacesHaveItems DEF SavedInv, Reader!SavedTypeOK
  <2>2. Reader!Start(i) /\ (Reader!IsListed(i) => i \in known) /\ pending' \in {pending, i}
    BY <1>2 DEF Reader!Toggle, Reader!Remove
  <2> QED BY <2>1, <2>2, StartKept
<1>3. CASE Reader!SavedNext
  BY <1>2, <1>3, OpenKept, LoadKept, CallKept DEF Reader!SavedNext
<1> QED BY <1>1, <1>3

LEMMA SavedIsSafe ==
  ASSUME Reader!SavedAssumption
  PROVE  Reader!SavedSpec => []Reader!ShownIsSaved
<1>1. Reader!SavedInit => SavedInv
  <2> SUFFICES ASSUME Reader!SavedInit PROVE SavedInv
    OBVIOUS
  <2>1. Reader!SavedTypeOK
    BY DEF Reader!SavedInit, Reader!SavedTypeOK
  <2>2. known = {} /\ Unstrained = {} /\ load = "asked" /\ \A c \in Calls : calls[c] = None
    BY DEF Reader!SavedInit, Unstrained
  <2>3. LoadStands /\ CallsStand
    BY <2>2 DEF LoadStands, CallsStand
  <2> QED BY <2>1, <2>2, <2>3 DEF SavedInv, CallsAgree, RestAgrees
<1>2. SavedInv /\ [Reader!SavedNext]_(Reader!savedVars) => SavedInv'
  BY SavedKept
<1>3. SavedInv => Reader!ShownIsSaved
  <2> SUFFICES ASSUME SavedInv, NEW i \in Unstrained, ~Reader!Busy(i)
               PROVE  i \in shown <=> i \in savedRows
    BY DEF Reader!ShownIsSaved, Unstrained
  <2>1. \A c \in Calls : Live(c) => calls[c].item # i
    BY DEF Reader!Busy, Reader!Left, Live
  <2> QED BY <2>1 DEF SavedInv, RestAgrees
<1> QED BY <1>1, <1>2, <1>3, PTL DEF Reader!SavedSpec

\* A behaviour of the composition is one of the part, or the part is at rest.
LEMMA KeptAlone == PartsSpec => (part = "saved" /\ Reader!SavedSpec) \/ []~(part = "saved")
<1>1. PartsInit => (part = "saved" => Reader!SavedInit)
  BY DEF PartsInit
<1>2. [PartsNext]_partsVars => (part = "saved" => [Reader!SavedNext]_(Reader!savedVars))
  BY PartAtWork
<1>3. [PartsNext]_partsVars => ((part = "saved") <=> (part = "saved")')
  BY PartAtWork
<1> QED BY <1>1, <1>2, <1>3, PTL DEF PartsSpec, Reader!SavedSpec

-----------------------------------------------------------------------------
(* The memory stress                                                       *)

Going == {"health", "ready", "waves", "quiet", "exit", "judge"}

\* Where the harness is, with the waves it has sent and the monitor it has started.
StressFlow ==
    /\ step \in {"check", "cleanup", "kill", "end"} \cup Going
    /\ step \in {"check"} \cup Going <=> verdict = None
    /\ step \in {"check", "health", "ready"} => monitor = "off" /\ rotated = 0
    /\ step # "waves" => waiting = {}
    /\ step = "check" => child = None
    /\ step \in Going => child # None
    /\ wave \in Nat /\ rotated \in Nat
    /\ step = "waves" =>
          /\ wave \in 1..Waves
          /\ rotated = IF wave - 1 < Rotations THEN wave - 1 ELSE Rotations
    /\ step \in {"quiet", "exit", "judge"} => wave = Waves /\ rotated = Rotations
    /\ step \in {"exit", "judge"} => Stress!Awaited
    /\ step = "judge" => ~Stress!Running

\* What has failed has a cause, but for a server that the harness itself has stopped.
StressCauses ==
    /\ child \in Stress!Children \cup {None}
    /\ size \in Sizes /\ peak \in Sizes \cup {None}
    /\ failures => troubled
    /\ printed => troubled
    /\ unhandled => printed
    /\ child \in {"error", "signal"} => troubled \/ step = "end"
    /\ monitor \in {"off", "probing", "resting", "done"}
    /\ step = "waves" \/ ~Stress!Awaited \/ waiting # {} => child = "up" \/ troubled

\* A verdict that was earned, and a measurement that nothing takes again.
StressJudged ==
    /\ verdict = "passed" =>
          /\ wave = Waves /\ waiting = {} /\ rotated = Rotations
          /\ ~failures /\ peak \in Sizes /\ peak < HardLimit /\ child = "success"
          /\ Stress!Awaited
    /\ verdict = "failed" =>
          \/ troubled
          \/ /\ peak = None \/ peak >= HardLimit
             /\ child = "success" /\ Stress!Awaited
    /\ step = "end" => (~Stress!Running \/ stuck) /\ Stress!Awaited

StressInv == StressFlow /\ StressCauses /\ StressJudged

LEMMA StressKept ==
  ASSUME Stress!MemoryStressAssumption, StressInv, [Stress!Next]_(Stress!stressVars)
  PROVE  StressInv'
<1> USE DEF Stress!Running, Stress!Awaited, Going
<1>a. /\ Waves \in Nat /\ Waves > 0 /\ Rotations \in Nat /\ Rotations < Waves
      /\ Sizes \subseteq Nat /\ HardLimit \in Nat
  BY DEF Stress!MemoryStressAssumption
<1>b. /\ None \notin Sizes
      /\ None \notin {"starting", "up", "hung", "stopping", "success", "error", "signal"}
      /\ None \notin {"passed", "failed", "blocked"}
  BY DEF Stress!MemoryStressAssumption, Stress!Children, Stress!Verdicts
<1>c. \A s \in Sizes : Stress!Greatest(s) \in Sizes
  BY DEF StressInv, StressCauses, Stress!Greatest
<1>d. child \in {"starting", "up", "hung", "stopping", "success", "error", "signal", None}
  BY DEF StressInv, StressCauses, Stress!Children
<1>1. CASE UNCHANGED Stress!stressVars
  BY <1>1 DEF StressInv, StressFlow, StressCauses, StressJudged, Stress!stressVars
<1>2. CASE Stress!Server
  <2>1. /\ UNCHANGED <<step, wave, waiting, monitorRunning, verdict, rotated, stuck, monitor,
                       failures, peak, unhandled>>
        /\ size' \in Sizes
        /\ troubled => troubled'
        /\ printed' => troubled' 
        /\ printed => printed'
    BY <1>2 DEF Stress!Server, Stress!harnessVars, Stress!Start, Stress!Grow, Stress!Reject,
       Stress!Break, Stress!Stop, StressInv, StressCauses
  <2>2. \/ child' = child
        \/ child = "starting" /\ child' = "up"
        \/ Stress!Running /\ child' \in {"hung", "error", "signal"} /\ troubled'
        \/ child = "stopping" /\ child' = "success"
    BY <1>2 DEF Stress!Server, Stress!Start, Stress!Grow, Stress!Reject,
       Stress!Break, Stress!Stop
  <2>3. StressFlow'
    BY <1>b, <1>d, <2>1, <2>2 DEF StressInv, StressFlow
  <2>4. StressCauses'
    BY <1>b, <1>d, <2>1, <2>2 DEF StressInv, StressCauses, Stress!Children
  <2>5. StressJudged'
    BY <1>b, <1>d, <2>1, <2>2 DEF StressInv, StressJudged
  <2> QED BY <2>3, <2>4, <2>5 DEF StressInv
<1>3. CASE Stress!Hear
  BY <1>3 DEF Stress!Hear, Stress!serverVars, Stress!harnessVars, StressInv, StressFlow,
     StressCauses, StressJudged
<1>4. CASE Stress!Report
  <2>1. /\ UNCHANGED <<step, child, size, wave, waiting, monitor, monitorRunning, failures,
                       printed, unhandled, verdict, rotated, troubled, stuck>>
        /\ child \in {"up", "stopping"}
        /\ peak' = Stress!Greatest(size)
    BY <1>4 DEF Stress!Report, Stress!serverVars, Stress!harnessVars
  <2>2. peak' \in Sizes
    BY <1>c, <2>1 DEF StressInv, StressCauses
  <2>3. StressJudged'
    BY <2>1 DEF StressInv, StressJudged
  <2> QED BY <2>1, <2>2, <2>3 DEF StressInv, StressFlow, StressCauses
<1>5. CASE Stress!Probe
  <2>1. /\ UNCHANGED <<step, child, size, wave, waiting, monitorRunning, printed, unhandled,
                       verdict, rotated, stuck>>
        /\ monitor = "probing" /\ monitor' = "resting"
        /\ Stress!Answer /\ Stress!Sampled
    BY <1>5 DEF Stress!Probe, Stress!serverVars, Stress!harnessVars
  <2>2. peak' \in Sizes \cup {None}
    BY <1>c, <2>1 DEF StressInv, StressCauses, Stress!Sampled
  <2>3. /\ failures' => troubled'
        /\ troubled => troubled'
        /\ failures => failures'
    BY <2>1 DEF Stress!Answer, StressInv, StressCauses
  <2>4. StressJudged'
    BY <2>1, <2>3 DEF StressInv, StressJudged
  <2>5. StressFlow'
    BY <2>1 DEF StressInv, StressFlow
  <2> QED BY <2>1, <2>2, <2>3, <2>4, <2>5 DEF StressInv, StressCauses
<1>6. CASE Stress!Again
  <2>1. /\ UNCHANGED <<step, child, size, wave, waiting, monitorRunning, printed, unhandled,
                       verdict, rotated, stuck, failures, peak, troubled>>
        /\ monitor = "resting" /\ monitor' \in {"probing", "done"}
    BY <1>6 DEF Stress!Again, Stress!serverVars, Stress!harnessVars
  <2> QED BY <2>1 DEF StressInv, StressFlow, StressCauses, StressJudged
<1>7. CASE Stress!Refuse
  BY <1>7, <1>b DEF Stress!Refuse, Stress!Blocks, Stress!Goes, Stress!serverVars, StressInv,
     StressFlow, StressCauses, StressJudged
<1>8. CASE Stress!Spawn
  <2>1. /\ UNCHANGED <<size, wave, waiting, monitor, monitorRunning, peak, printed, unhandled,
                       verdict, rotated, stuck>>
        /\ step = "check" /\ step' = "health"
        /\ \/ child' = "starting" /\ UNCHANGED <<failures, troubled>>
           \/ child' = "error" /\ failures' = TRUE /\ troubled' = TRUE
    BY <1>8 DEF Stress!Spawn, Stress!Goes
  <2> QED BY <1>b, <2>1 DEF StressInv, StressFlow, StressCauses, StressJudged, Stress!Children
<1>9. CASE Stress!Begin
  <2>1. /\ UNCHANGED <<child, size, printed, monitorRunning, peak, unhandled, rotated, stuck>>
        /\ \/ /\ step = "health" /\ step' = "ready" /\ child = "up"
              /\ UNCHANGED <<failures, verdict, troubled, monitor, waiting, wave>>
           \/ /\ step = "ready" /\ step' = "waves" /\ child = "up"
              /\ UNCHANGED <<failures, verdict, troubled>>
              /\ monitor' = "probing" /\ waiting' = Routes /\ wave' = 1
           \/ /\ step \in {"health", "ready"} /\ step' = "cleanup" /\ verdict' = "failed"
              /\ failures' = TRUE /\ troubled' = TRUE
              /\ UNCHANGED <<monitor, waiting, wave>>
    BY <1>9 DEF Stress!Begin, Stress!Healthy, Stress!Unhealthy, Stress!Throws, Stress!Goes,
       Stress!serverVars
  <2>2. StressFlow'
    BY <1>a, <1>b, <2>1 DEF StressInv, StressFlow
  <2>3. StressCauses'
    BY <2>1 DEF StressInv, StressFlow, StressCauses
  <2>4. StressJudged'
    BY <1>b, <2>1 DEF StressInv, StressFlow, StressJudged
  <2> QED BY <2>2, <2>3, <2>4 DEF StressInv
<1>10. ASSUME NEW r \in Routes, Stress!Respond(r) PROVE StressInv'
  <2>1. /\ UNCHANGED <<child, size, printed, step, wave, monitor, monitorRunning, peak,
                       unhandled, verdict, rotated, stuck>>
        /\ r \in waiting /\ waiting' = waiting \ {r}
        /\ Stress!Answer
    BY <1>10 DEF Stress!Respond, Stress!serverVars
  <2>2. /\ failures' => troubled'
        /\ troubled => troubled'
    BY <2>1 DEF Stress!Answer, StressInv, StressCauses
  <2>3. step = "waves" /\ verdict = None
    BY <2>1 DEF StressInv, StressFlow
  <2>4. StressJudged'
    BY <1>b, <2>1, <2>3 DEF StressInv, StressJudged
  <2>5. StressFlow'
    BY <2>1, <2>3 DEF StressInv, StressFlow
  <2> QED BY <2>1, <2>2, <2>4, <2>5 DEF StressInv, StressCauses
<1>11. CASE Stress!NextWave
  <2>1. /\ UNCHANGED <<child, size, printed, monitor, failures, peak, unhandled, troubled, stuck>>
        /\ step = "waves" /\ waiting = {}
    BY <1>11 DEF Stress!NextWave, Stress!serverVars
  <2>2. /\ verdict = None /\ wave \in 1..Waves
        /\ rotated = IF wave - 1 < Rotations THEN wave - 1 ELSE Rotations
        /\ child # None
    BY <2>1 DEF StressInv, StressFlow
  <2>3. StressJudged'
    <3>1. verdict' \in {None, "blocked"} /\ step' # "end"
      BY <1>11, <2>2 DEF Stress!NextWave, Stress!Blocks, Stress!Goes
    <3> QED BY <1>b, <3>1 DEF StressJudged
  <2>4. \/ /\ step' = "cleanup" /\ verdict' = "blocked" /\ UNCHANGED <<wave, waiting, rotated>>
        \/ /\ step' = "waves" /\ wave < Waves /\ wave' = wave + 1 /\ verdict' = verdict
           /\ rotated' = IF wave <= Rotations THEN rotated + 1 ELSE rotated
        \/ /\ step' = "quiet" /\ ~(wave < Waves) /\ UNCHANGED <<wave, waiting, verdict>>
           /\ rotated' = IF wave <= Rotations THEN rotated + 1 ELSE rotated
    BY <1>11 DEF Stress!NextWave, Stress!Blocks, Stress!Goes
  <2>5. step' = "waves" =>
          wave' \in 1..Waves
          /\ rotated' = IF wave' - 1 < Rotations THEN wave' - 1 ELSE Rotations
    BY <1>a, <2>2, <2>4
  <2>6. step' = "quiet" => wave' = Waves /\ rotated' = Rotations
    BY <1>a, <2>2, <2>4
  <2>7. wave' \in Nat /\ rotated' \in Nat
    BY <1>a, <2>2, <2>4
  <2>8. StressFlow'
    BY <1>b, <2>1, <2>2, <2>4, <2>5, <2>6, <2>7 DEF StressInv, StressFlow
  <2>9. child' = "up" \/ troubled'
    BY <2>1 DEF StressInv, StressCauses
  <2> QED BY <2>1, <2>3, <2>8, <2>9 DEF StressInv, StressCauses
<1>12. CASE Stress!Terminate
  <2>1. /\ UNCHANGED <<size, wave, waiting, monitor, monitorRunning, failures, printed,
                       unhandled, verdict, rotated, troubled, stuck>>
        /\ step = "quiet" /\ step' = "exit" /\ Stress!Awaited /\ Stress!Sampled
        /\ child' = IF child \in {"starting", "up"} THEN "stopping" ELSE child
    BY <1>12 DEF Stress!Terminate, Stress!Goes
  <2>2. peak' \in Sizes \cup {None}
    BY <1>c, <2>1 DEF StressInv, StressCauses, Stress!Sampled
  <2>3. verdict = None /\ waiting = {} /\ child # None
    BY <2>1 DEF StressInv, StressFlow
  <2>4. StressJudged'
    BY <1>b, <2>1, <2>3 DEF StressJudged
  <2>5. StressFlow'
    BY <1>b, <2>1, <2>3 DEF StressInv, StressFlow
  <2>6. child' \in {"error", "signal"} => child' = child
    BY <2>1
  <2>7. StressCauses'
    BY <2>1, <2>2, <2>3, <2>6 DEF StressInv, StressCauses, Stress!Children
  <2> QED BY <2>4, <2>5, <2>7 DEF StressInv
<1>13. CASE Stress!Finish
  <2>1. /\ UNCHANGED <<child, size, printed, wave, waiting, monitor, monitorRunning, failures,
                       peak, unhandled, rotated, stuck>>
        /\ step \in {"exit", "judge"}
    BY <1>13 DEF Stress!Finish, Stress!serverVars, Stress!Ended, Stress!NotEnded, Stress!Judge
  <2>2. CASE Stress!Ended
    BY <2>1, <2>2 DEF Stress!Ended, Stress!Goes, StressInv, StressFlow, StressCauses, StressJudged
  <2>3. CASE Stress!NotEnded
    BY <1>b, <2>1, <2>3 DEF Stress!NotEnded, Stress!Throws, Stress!Goes, StressInv, StressFlow,
       StressCauses, StressJudged
  <2>4. CASE Stress!Judge
    <3>1. step = "judge" /\ step' = "cleanup" /\ troubled' = troubled
      BY <2>4 DEF Stress!Judge, Stress!Goes
    <3>2. /\ wave = Waves /\ waiting = {} /\ rotated = Rotations
          /\ Stress!Awaited /\ ~Stress!Running /\ child # None
      BY <3>1 DEF StressInv, StressFlow
    <3>3. child # "success" => troubled
      BY <1>d, <3>1, <3>2 DEF StressInv, StressCauses
    <3>4. verdict' \in {"passed", "failed"}
      BY <2>4 DEF Stress!Judge
    <3>5. verdict' = "passed" =>
            child = "success" /\ ~failures /\ peak # None /\ peak < HardLimit
      BY <2>4 DEF Stress!Judge
    <3>6. verdict' = "failed" =>
            \/ child # "success" \/ unhandled \/ failures
            \/ peak = None \/ ~(peak < HardLimit)
      BY <2>4 DEF Stress!Judge
    <3>7. peak # None => peak \in Sizes /\ peak \in Nat
      BY <1>a DEF StressInv, StressCauses
    <3>8. StressJudged'
      <4>1. unhandled \/ failures => troubled
        BY DEF StressInv, StressCauses
      <4>2. peak # None /\ ~(peak < HardLimit) => peak >= HardLimit
        BY <1>a, <3>7
      <4> QED BY <2>1, <3>1, <3>2, <3>3, <3>4, <3>5, <3>6, <3>7, <4>1, <4>2 DEF StressJudged
    <3>9. StressFlow'
      BY <1>b, <2>1, <3>1, <3>2, <3>4 DEF StressInv, StressFlow
    <3> QED BY <2>1, <3>1, <3>8, <3>9 DEF StressInv, StressCauses
  <2> QED BY <1>13, <2>2, <2>3, <2>4 DEF Stress!Finish
<1>14. CASE Stress!Cleanup
  <2>1. /\ UNCHANGED <<child, size, printed, wave, waiting, monitor, failures, peak, unhandled,
                       verdict, rotated, troubled, stuck>>
        /\ step = "cleanup" /\ step' = "kill"
    BY <1>14 DEF Stress!Cleanup, Stress!Goes, Stress!serverVars
  <2> QED BY <2>1 DEF StressInv, StressFlow, StressCauses, StressJudged
<1>15. CASE Stress!Kill
  <2>1. /\ UNCHANGED <<size, printed, wave, waiting, monitor, monitorRunning, failures, peak,
                       unhandled, verdict, rotated>>
        /\ step = "kill" /\ step' = "end" /\ Stress!Awaited
        /\ \/ ~Stress!Running /\ UNCHANGED <<child, stuck, troubled>>
           \/ Stress!Running /\ child' = "signal" /\ UNCHANGED <<stuck, troubled>>
           \/ Stress!Running /\ stuck' = TRUE /\ troubled' = TRUE /\ child' = child
    BY <1>15 DEF Stress!Kill, Stress!Goes
  <2>2. StressFlow'
    BY <2>1 DEF StressInv, StressFlow
  <2>3. waiting = {}
    BY <2>1 DEF StressInv, StressFlow
  <2>4. StressCauses'
    BY <2>1, <2>3 DEF StressInv, StressCauses, Stress!Children
  <2>5. StressJudged'
    BY <2>1 DEF StressInv, StressJudged
  <2> QED BY <2>2, <2>4, <2>5 DEF StressInv
<1> QED
  BY <1>1, <1>2, <1>3, <1>4, <1>5, <1>6, <1>7, <1>8, <1>9, <1>10, <1>11, <1>12, <1>13, <1>14,
     <1>15 DEF Stress!Next

LEMMA StressIsSafe ==
  ASSUME Stress!MemoryStressAssumption
  PROVE  Stress!Spec => []Stress!StressIsEarned
<1>a. None \notin {"starting", "up", "hung", "stopping", "success", "error", "signal"}
      /\ None \notin {"passed", "failed", "blocked"}
  BY DEF Stress!MemoryStressAssumption, Stress!Children, Stress!Verdicts
<1>1. Stress!Init => StressInv
  BY <1>a DEF Stress!Init, StressInv, StressFlow, StressCauses, StressJudged, Stress!Awaited,
     Going
<1>2. StressInv /\ [Stress!Next]_(Stress!stressVars) => StressInv'
  BY StressKept
<1>3. StressInv => Stress!StressIsEarned
  BY DEF StressInv, StressJudged, Stress!StressIsEarned
<1> QED BY <1>1, <1>2, <1>3, PTL DEF Stress!Spec

\* A behaviour of the composition is one of the part, or the part is at rest.
LEMMA StressAlone == PartsSpec => (part = "stress" /\ Stress!Spec) \/ []~(part = "stress")
<1>1. PartsInit => (part = "stress" => Stress!Init)
  BY DEF PartsInit
<1>2. [PartsNext]_partsVars => (part = "stress" => [Stress!Next]_(Stress!stressVars))
  BY PartAtWork
<1>3. [PartsNext]_partsVars => ((part = "stress") <=> (part = "stress")')
  BY PartAtWork
<1> QED BY <1>1, <1>2, <1>3, PTL DEF PartsSpec, Stress!Spec

-----------------------------------------------------------------------------
(* The rehearsal on a preview                                              *)

PreviewRows ==
    [name : 1..Chain, sum : {"checked in", "another"}, finished : BOOLEAN, rolledBack : BOOLEAN]

PreviewSteps ==
    {"idle", "baseline", "initial", "indexes", "hardening", "finals", "first", "repair",
     "resolve", "deploy", "apply", "finish", "ledger", "role", "revoke", "grant", "check",
     "roles", "acls", "passed"}

Jobs == [pc : PreviewSteps, next : Nat]

PreviewTyped ==
    /\ ledger \in Seq(PreviewRows)
    /\ effects \in [1..Chain -> Preview!Extents]
    /\ altered \subseteq 1..Chain
    /\ job \in Jobs

There(m) == effects[m] = "whole" \/ m \in altered

\* What the rehearsal has verified, or made, and not recorded yet.
PreviewVerified ==
    /\ job.pc = "indexes" => There(1)
    /\ job.pc = "hardening" => There(1) /\ There(2)
    /\ job.pc = "finals" => There(1) /\ There(2) /\ There(3)
    /\ job.pc \in {"first", "resolve"} => There(1) /\ There(2) /\ There(3) /\ There(4)
    /\ job.pc = "resolve" => job.next \in 1..4
    /\ job.pc \in {"apply", "finish"} => job.next \in 1..Chain
    /\ job.pc = "finish" => There(job.next)

\* What it has verified stands as long as nobody else is at work.
PreviewStands ==
    quiet =>
        /\ job.pc \in {"role", "revoke", "grant", "check", "roles", "acls", "passed"} =>
              Preview!Exact(Chain)
        /\ job.pc \in {"acls", "passed"} => Preview!RolesAreExact
        /\ job.pc = "passed" => Preview!NoGrants

PreviewInv == PreviewTyped /\ Preview!LedgerIsEarned /\ PreviewVerified /\ PreviewStands

\* A row more.
LEMMA RowIsAdded ==
  ASSUME NEW rows \in Seq(PreviewRows), NEW row \in PreviewRows
  PROVE  /\ Append(rows, row) \in Seq(PreviewRows)
         /\ \A i \in DOMAIN Append(rows, row) :
               \/ i \in DOMAIN rows /\ Append(rows, row)[i] = rows[i]
               \/ Append(rows, row)[i] = row
  OBVIOUS

\* What was changed by hand or made where nothing was leaves the rest as it was.
LEMMA EffectsKeep ==
  ASSUME PreviewInv, NEW m \in 1..Chain, NEW extent \in Preview!Extents,
         effects' = [effects EXCEPT ![m] = extent], altered \subseteq altered',
         m \in altered' \/ effects[m] = "absent"
  PROVE  /\ \A n \in 1..Chain : There(n) => There(n)'
         /\ \A i \in DOMAIN ledger :
               (/\ Preview!Applied(ledger[i]) /\ ledger[i].sum = "checked in"
                /\ ledger[i].name \notin altered')
               => effects'[ledger[i].name] = "whole"
<1>1. \A n \in 1..Chain : There(n) => There(n)'
  BY DEF There, PreviewInv, PreviewTyped
<1>2. \A i \in DOMAIN ledger : ledger[i].name \in 1..Chain
  <2>1. \A i \in DOMAIN ledger : ledger[i] \in PreviewRows
    BY DEF PreviewInv, PreviewTyped
  <2> QED BY <2>1 DEF PreviewRows
<1>3. ASSUME NEW i \in DOMAIN ledger, Preview!Applied(ledger[i]), ledger[i].sum = "checked in",
             ledger[i].name \notin altered'
      PROVE  effects'[ledger[i].name] = "whole"
  <2>1. effects[ledger[i].name] = "whole"
    BY <1>3 DEF PreviewInv, Preview!LedgerIsEarned
  <2> QED BY <1>1, <1>2, <1>3, <2>1 DEF There
<1> QED BY <1>1, <1>3

\* A step that changes nothing but where the rehearsal is.
LEMMA JobMoves ==
  ASSUME PreviewInv, UNCHANGED <<ledger, effects, altered>>,
         job' \in Jobs, PreviewVerified', PreviewStands'
  PROVE  PreviewInv'
  BY DEF PreviewInv, PreviewTyped, Preview!LedgerIsEarned

\* What was verified stays so while nothing that is there goes.
LEMMA VerifiedStays ==
  ASSUME Preview!PreviewAssumption, PreviewInv, UNCHANGED job,
         \A n \in 1..Chain : There(n) => There(n)'
  PROVE  PreviewVerified'
<1>1. Chain \in Nat /\ Chain > 5
  BY DEF Preview!PreviewAssumption, Preview!FirstUnapplied
<1>2. 1 \in 1..Chain /\ 2 \in 1..Chain /\ 3 \in 1..Chain /\ 4 \in 1..Chain
  BY <1>1
<1> QED BY <1>2 DEF PreviewInv, PreviewVerified

LEMMA PreviewKept ==
  ASSUME Preview!PreviewAssumption, PreviewInv, [Preview!Next]_(Preview!previewVars)
  PROVE  PreviewInv'
<1>a. Chain \in Nat /\ Chain > 5
  BY DEF Preview!PreviewAssumption, Preview!FirstUnapplied
<1>b. /\ UNCHANGED ledger => (Preview!Exact(Chain)' <=> Preview!Exact(Chain))
      /\ UNCHANGED roles => (Preview!RolesAreExact' <=> Preview!RolesAreExact)
      /\ UNCHANGED acl => (Preview!NoGrants' <=> Preview!NoGrants)
  BY DEF Preview!Exact, Preview!RolesAreExact, Preview!NoGrants, Preview!DefaultsAreSafe
<1>c. UNCHANGED <<effects, altered>> => \A m : There(m)' <=> There(m)
  BY DEF There
<1>d. job \in Jobs
  BY DEF PreviewInv, PreviewTyped
<1>e. /\ Preview!Stopped = [pc |-> "idle", next |-> 1]
      /\ \A pc : Preview!Step(pc) = [pc |-> pc, next |-> 1]
  BY DEF Preview!Stopped, Preview!Step
<1>1. CASE UNCHANGED Preview!previewVars
  <2>1. UNCHANGED <<ledger, effects, roles, acl, job, altered, quiet>>
    BY <1>1 DEF Preview!previewVars
  <2> QED
    BY <1>b, <1>c, <1>d, <2>1, JobMoves DEF PreviewInv, PreviewVerified, PreviewStands
<1>2. CASE Preview!Begin
  <2>1. UNCHANGED <<ledger, effects, altered>> /\ job' = [pc |-> "baseline", next |-> 1]
    BY <1>2, <1>e DEF Preview!Begin
  <2> QED BY <2>1, JobMoves DEF Jobs, PreviewSteps, PreviewVerified, PreviewStands
<1>3. CASE Preview!Abort
  <2>1. UNCHANGED <<ledger, effects, altered>> /\ job' = [pc |-> "idle", next |-> 1]
    BY <1>3, <1>e DEF Preview!Abort
  <2> QED BY <2>1, JobMoves DEF Jobs, PreviewSteps, PreviewVerified, PreviewStands
<1>4. CASE Preview!ReadLedger
  <2>1. /\ UNCHANGED <<ledger, effects, altered, roles, acl, quiet>>
        /\ \E pc \in {"idle", "initial", "repair"} : job' = [pc |-> pc, next |-> 1]
    BY <1>4, <1>e DEF Preview!ReadLedger, Preview!Verify
  <2>2. job' \in Jobs
    BY <2>1 DEF Jobs, PreviewSteps
  <2>3. job'.pc \in {"idle", "initial", "repair"}
    BY <2>1
  <2> QED BY <2>1, <2>2, <2>3, JobMoves DEF PreviewVerified, PreviewStands
<1>5. CASE Preview!VerifyInitialMigration
  <2>1. /\ UNCHANGED <<ledger, effects, altered, roles, acl, quiet>>
        /\ job.pc = "initial"
        /\ \/ job' = [pc |-> "idle", next |-> 1]
           \/ There(1) /\ job' = [pc |-> "indexes", next |-> 1]
    BY <1>5, <1>e DEF Preview!VerifyInitialMigration, Preview!Verify, Preview!At,
       Preview!InitialIsThere, There
  <2>2. job' \in Jobs
    BY <2>1 DEF Jobs, PreviewSteps
  <2>3. PreviewVerified'
    BY <1>c, <2>1 DEF PreviewInv, PreviewVerified
  <2>4. PreviewStands'
    BY <1>b, <2>1 DEF PreviewInv, PreviewStands
  <2> QED BY <2>1, <2>2, <2>3, <2>4, JobMoves
<1>6. CASE Preview!VerifyHotIndexes
  <2>1. /\ UNCHANGED <<ledger, effects, altered, roles, acl, quiet>>
        /\ job.pc = "indexes"
        /\ \/ job' = [pc |-> "idle", next |-> 1]
           \/ There(2) /\ job' = [pc |-> "hardening", next |-> 1]
    BY <1>6, <1>e DEF Preview!VerifyHotIndexes, Preview!Verify, Preview!At,
       Preview!HotIndexesAreThere, There
  <2>2. job' \in Jobs
    BY <2>1 DEF Jobs, PreviewSteps
  <2>3. PreviewVerified'
    BY <1>c, <2>1 DEF PreviewInv, PreviewVerified
  <2>4. PreviewStands'
    BY <1>b, <2>1 DEF PreviewInv, PreviewStands
  <2> QED BY <2>1, <2>2, <2>3, <2>4, JobMoves
<1>7. CASE Preview!VerifyPublicSchemaHardening
  <2>1. /\ UNCHANGED <<ledger, effects, altered, roles, acl, quiet>>
        /\ job.pc = "hardening"
        /\ \/ job' = [pc |-> "idle", next |-> 1]
           \/ There(3) /\ job' = [pc |-> "finals", next |-> 1]
    BY <1>7, <1>e DEF Preview!VerifyPublicSchemaHardening, Preview!Verify, Preview!At,
       Preview!HardeningIsThere, There
  <2>2. job' \in Jobs
    BY <2>1 DEF Jobs, PreviewSteps
  <2>3. PreviewVerified'
    BY <1>c, <2>1 DEF PreviewInv, PreviewVerified
  <2>4. PreviewStands'
    BY <1>b, <2>1 DEF PreviewInv, PreviewStands
  <2> QED BY <2>1, <2>2, <2>3, <2>4, JobMoves
<1>8. CASE Preview!VerifyFinalsColumns
  <2>1. /\ UNCHANGED <<ledger, effects, altered, roles, acl, quiet>>
        /\ job.pc = "finals"
        /\ \/ job' = [pc |-> "idle", next |-> 1]
           \/ There(4) /\ job' = [pc |-> "first", next |-> 1]
    BY <1>8, <1>e DEF Preview!VerifyFinalsColumns, Preview!Verify, Preview!At,
       Preview!FinalsAreThere, There
  <2>2. job' \in Jobs
    BY <2>1 DEF Jobs, PreviewSteps
  <2>3. PreviewVerified'
    BY <1>c, <2>1 DEF PreviewInv, PreviewVerified
  <2>4. PreviewStands'
    BY <1>b, <2>1 DEF PreviewInv, PreviewStands
  <2> QED BY <2>1, <2>2, <2>3, <2>4, JobMoves
<1>9. CASE Preview!VerifyMigrationEffectsAbsent
  <2>1. /\ UNCHANGED <<ledger, effects, altered, roles, acl, quiet>>
        /\ job.pc = "first"
        /\ \/ job' = [pc |-> "idle", next |-> 1]
           \/ TRUE /\ job' = [pc |-> "resolve", next |-> 1]
    BY <1>9, <1>e DEF Preview!VerifyMigrationEffectsAbsent, Preview!Verify, Preview!At
  <2>2. job' \in Jobs
    BY <2>1 DEF Jobs, PreviewSteps
  <2>3. PreviewVerified'
    BY <1>c, <2>1 DEF PreviewInv, PreviewVerified
  <2>4. PreviewStands'
    BY <1>b, <2>1 DEF PreviewInv, PreviewStands
  <2> QED BY <2>1, <2>2, <2>3, <2>4, JobMoves
<1>10. CASE Preview!VerifyRepairMigrationEffectsAbsent
  <2>1. /\ UNCHANGED <<ledger, effects, altered, roles, acl, quiet>>
        /\ job.pc = "repair"
        /\ \/ job' = [pc |-> "idle", next |-> 1]
           \/ TRUE /\ job' = [pc |-> "deploy", next |-> 1]
    BY <1>10, <1>e DEF Preview!VerifyRepairMigrationEffectsAbsent, Preview!Verify, Preview!At
  <2>2. job' \in Jobs
    BY <2>1 DEF Jobs, PreviewSteps
  <2>3. PreviewVerified'
    BY <1>c, <2>1 DEF PreviewInv, PreviewVerified
  <2>4. PreviewStands'
    BY <1>b, <2>1 DEF PreviewInv, PreviewStands
  <2> QED BY <2>1, <2>2, <2>3, <2>4, JobMoves
<1>11. CASE Preview!EndDeploy
  <2>1. /\ UNCHANGED <<ledger, effects, altered, roles, acl, quiet>>
        /\ job.pc = "deploy"
        /\ \/ job' = [pc |-> "idle", next |-> 1]
           \/ TRUE /\ job' = [pc |-> "ledger", next |-> 1]
    BY <1>11, <1>e DEF Preview!EndDeploy, Preview!Verify, Preview!At
  <2>2. job' \in Jobs
    BY <2>1 DEF Jobs, PreviewSteps
  <2>3. PreviewVerified'
    BY <1>c, <2>1 DEF PreviewInv, PreviewVerified
  <2>4. PreviewStands'
    BY <1>b, <2>1 DEF PreviewInv, PreviewStands
  <2> QED BY <2>1, <2>2, <2>3, <2>4, JobMoves
<1>12. CASE Preview!VerifyMigrations
  <2>1. /\ UNCHANGED <<ledger, effects, altered, roles, acl, quiet>>
        /\ job.pc = "ledger"
        /\ \/ job' = [pc |-> "idle", next |-> 1]
           \/ Preview!Exact(Chain) /\ job' = [pc |-> "role", next |-> 1]
    BY <1>12, <1>e DEF Preview!VerifyMigrations, Preview!Verify, Preview!At
  <2>2. job' \in Jobs
    BY <2>1 DEF Jobs, PreviewSteps
  <2>3. PreviewVerified'
    BY <1>c, <2>1 DEF PreviewInv, PreviewVerified
  <2>4. PreviewStands'
    BY <1>b, <2>1 DEF PreviewInv, PreviewStands
  <2> QED BY <2>1, <2>2, <2>3, <2>4, JobMoves
<1>13. CASE Preview!VerifyScopedRoles
  <2>1. /\ UNCHANGED <<ledger, effects, altered, roles, acl, quiet>>
        /\ job.pc = "roles"
        /\ \/ job' = [pc |-> "idle", next |-> 1]
           \/ Preview!RolesAreExact /\ job' = [pc |-> "acls", next |-> 1]
    BY <1>13, <1>e DEF Preview!VerifyScopedRoles, Preview!Verify, Preview!At
  <2>2. job' \in Jobs
    BY <2>1 DEF Jobs, PreviewSteps
  <2>3. PreviewVerified'
    BY <1>c, <2>1 DEF PreviewInv, PreviewVerified
  <2>4. PreviewStands'
    BY <1>b, <2>1 DEF PreviewInv, PreviewStands
  <2> QED BY <2>1, <2>2, <2>3, <2>4, JobMoves
<1>14. CASE Preview!VerifyDataApiAcls
  <2>1. /\ UNCHANGED <<ledger, effects, altered, roles, acl, quiet>>
        /\ job.pc = "acls"
        /\ \/ job' = [pc |-> "idle", next |-> 1]
           \/ Preview!NoGrants /\ job' = [pc |-> "passed", next |-> 1]
    BY <1>14, <1>e DEF Preview!VerifyDataApiAcls, Preview!Verify, Preview!At
  <2>2. job' \in Jobs
    BY <2>1 DEF Jobs, PreviewSteps
  <2>3. PreviewVerified'
    BY <1>c, <2>1 DEF PreviewInv, PreviewVerified
  <2>4. PreviewStands'
    BY <1>b, <2>1 DEF PreviewInv, PreviewStands
  <2> QED BY <2>1, <2>2, <2>3, <2>4, JobMoves
<1>15. CASE Preview!Resolve
  <2>1. /\ UNCHANGED <<effects, altered>>
        /\ job.pc = "resolve"
        /\ \/ /\ ledger' = Append(ledger, Preview!Row(job.next, "checked in", TRUE))
              /\ \/ job.next < 4 /\ job' = [job EXCEPT !.next = @ + 1]
                 \/ job' = [pc |-> "deploy", next |-> 1]
           \/ UNCHANGED ledger /\ job' = [pc |-> "idle", next |-> 1]
    BY <1>15, <1>e DEF Preview!Resolve, Preview!At, Preview!Baselined
  <2>2. job.next \in 1..4 /\ There(job.next)
    <3>1. job.next \in 1..4 /\ There(1) /\ There(2) /\ There(3) /\ There(4)
      BY <2>1 DEF PreviewInv, PreviewVerified
    <3>2. job.next = 1 \/ job.next = 2 \/ job.next = 3 \/ job.next = 4
      BY <3>1
    <3> QED BY <3>1, <3>2
  <2>3. /\ job' \in Jobs
        /\ job'.pc \in {"resolve", "deploy", "idle"}
        /\ job'.pc = "resolve" => job'.next \in 1..4
    <3>1. CASE job.next < 4 /\ job' = [job EXCEPT !.next = @ + 1]
      <4>1. job.pc \in PreviewSteps /\ job.next + 1 \in 1..4 /\ job.next + 1 \in Nat
        BY <1>d, <2>2, <3>1 DEF Jobs
      <4>2. job' = [pc |-> job.pc, next |-> job.next + 1]
        BY <1>d, <3>1 DEF Jobs
      <4> QED BY <2>1, <4>1, <4>2 DEF Jobs
    <3>2. CASE job' = [pc |-> "deploy", next |-> 1] \/ job' = [pc |-> "idle", next |-> 1]
      BY <3>2 DEF Jobs, PreviewSteps
    <3> QED BY <2>1, <3>1, <3>2
  <2>4. PreviewVerified' /\ PreviewStands'
    BY <1>c, <2>1, <2>3 DEF PreviewInv, PreviewVerified, PreviewStands
  <2>5. CASE UNCHANGED ledger
    BY <2>1, <2>3, <2>4, <2>5, JobMoves
  <2>6. CASE ledger' = Append(ledger, Preview!Row(job.next, "checked in", TRUE))
    <3> DEFINE row == Preview!Row(job.next, "checked in", TRUE)
    <3>1. row \in PreviewRows /\ row.name = job.next
      BY <1>a, <2>2 DEF PreviewRows, Preview!Row
    <3>2. ledger \in Seq(PreviewRows)
      BY DEF PreviewInv, PreviewTyped
    <3> HIDE DEF row
    <3>3. /\ ledger' \in Seq(PreviewRows)
          /\ \A i \in DOMAIN ledger' :
              (i \in DOMAIN ledger /\ ledger'[i] = ledger[i]) \/ ledger'[i] = row
      BY <2>6, <3>1, <3>2, RowIsAdded DEF row
    <3>4. Preview!LedgerIsEarned'
      BY <2>1, <2>2, <3>1, <3>3 DEF PreviewInv, Preview!LedgerIsEarned, Preview!Applied, There
    <3> QED BY <2>1, <2>3, <2>4, <3>3, <3>4 DEF PreviewInv, PreviewTyped
  <2> QED BY <2>1, <2>5, <2>6
<1>16. CASE Preview!StartMigration
  <2>1. PICK m \in 1..Chain :
            /\ ledger' = Append(ledger, Preview!Row(m, "checked in", FALSE))
            /\ job' = [pc |-> "apply", next |-> m]
            /\ UNCHANGED <<effects, altered>>
    BY <1>16 DEF Preview!StartMigration, Preview!Migrations
  <2> DEFINE row == Preview!Row(m, "checked in", FALSE)
  <2>2. row \in PreviewRows /\ ~row.finished
    BY <1>a DEF PreviewRows, Preview!Row
  <2>3. ledger \in Seq(PreviewRows)
    BY DEF PreviewInv, PreviewTyped
  <2>4. ledger' = Append(ledger, row)
    BY <2>1
  <2> HIDE DEF row
  <2>5. /\ ledger' \in Seq(PreviewRows)
        /\ \A i \in DOMAIN ledger' :
              (i \in DOMAIN ledger /\ ledger'[i] = ledger[i]) \/ ledger'[i] = row
    BY <2>2, <2>3, <2>4, RowIsAdded
  <2>6. Preview!LedgerIsEarned'
    BY <2>1, <2>2, <2>5 DEF PreviewInv, Preview!LedgerIsEarned, Preview!Applied
  <2>7. job' \in Jobs /\ job'.pc = "apply" /\ job'.next \in 1..Chain
    <3>1. m \in Nat
      BY <1>a
    <3> QED BY <2>1, <3>1 DEF Jobs, PreviewSteps
  <2>8. PreviewVerified' /\ PreviewStands'
    BY <2>7 DEF PreviewVerified, PreviewStands
  <2> QED BY <2>1, <2>5, <2>6, <2>7, <2>8 DEF PreviewInv, PreviewTyped
<1>17. CASE Preview!ApplyMigration
  <2>1. /\ UNCHANGED <<ledger, altered>>
        /\ job.pc = "apply"
        /\ \/ /\ effects[job.next] = "absent"
              /\ effects' = [effects EXCEPT ![job.next] = "whole"]
              /\ job' = [job EXCEPT !.pc = "finish"]
           \/ UNCHANGED effects /\ job' = [pc |-> "idle", next |-> 1]
    BY <1>17, <1>e DEF Preview!ApplyMigration, Preview!At
  <2>2. job.next \in 1..Chain
    BY <2>1 DEF PreviewInv, PreviewVerified
  <2>3. /\ job' \in Jobs
        /\ job'.pc = "idle" \/ (job'.pc = "finish" /\ job'.next = job.next)
    BY <1>d, <2>1 DEF Jobs, PreviewSteps
  <2>4. PreviewStands'
    BY <2>3 DEF PreviewStands
  <2>5. CASE UNCHANGED effects
    <3>1. CASE job'.pc = "idle"
      <4>1. PreviewVerified'
        BY <3>1 DEF PreviewVerified
      <4> QED BY <2>1, <2>3, <2>4, <2>5, <4>1, JobMoves
    <3>2. CASE job'.pc = "finish"
      <4>1. /\ effects[job.next] = "absent"
            /\ effects' = [effects EXCEPT ![job.next] = "whole"]
        BY <2>1, <3>2
      <4>2. effects'[job.next] = "whole"
        BY <2>2, <4>1 DEF PreviewInv, PreviewTyped
      <4> QED BY <2>5, <4>1, <4>2
    <3> QED BY <2>3, <3>1, <3>2
  <2>6. CASE /\ effects[job.next] = "absent"
             /\ effects' = [effects EXCEPT ![job.next] = "whole"]
             /\ job' = [job EXCEPT !.pc = "finish"]
    <3>1. "whole" \in Preview!Extents
      BY DEF Preview!Extents
    <3>2. Preview!LedgerIsEarned'
      BY <2>1, <2>2, <2>6, <3>1, EffectsKeep DEF Preview!LedgerIsEarned, Preview!Applied
    <3>3. effects' \in [1..Chain -> Preview!Extents] /\ effects'[job.next] = "whole"
      BY <2>2, <2>6, <3>1 DEF PreviewInv, PreviewTyped
    <3>4. job'.pc = "finish" /\ job'.next = job.next
      BY <1>d, <2>6 DEF Jobs
    <3>5. PreviewVerified'
      BY <2>2, <3>3, <3>4 DEF PreviewVerified, There
    <3> QED BY <2>1, <2>3, <2>4, <3>2, <3>3, <3>5 DEF PreviewInv, PreviewTyped
  <2> QED BY <2>1, <2>5, <2>6
<1>18. CASE Preview!FinishMigration
  <2>1. /\ UNCHANGED <<effects, altered>>
        /\ job.pc = "finish" /\ job' = [pc |-> "deploy", next |-> 1]
        /\ ledger' = [i \in DOMAIN ledger |->
                        IF ledger[i].name = job.next /\ ~ledger[i].rolledBack
                        THEN [ledger[i] EXCEPT !.finished = TRUE] ELSE ledger[i]]
    BY <1>18, <1>e DEF Preview!FinishMigration, Preview!At
  <2>2. ledger \in Seq(PreviewRows) /\ There(job.next)
    BY <2>1 DEF PreviewInv, PreviewTyped, PreviewVerified
  <2>3. \A i \in DOMAIN ledger :
            /\ ledger[i] \in PreviewRows
            /\ [ledger[i] EXCEPT !.finished = TRUE] \in PreviewRows
            /\ [ledger[i] EXCEPT !.finished = TRUE].name = ledger[i].name
    <3>1. \A i \in DOMAIN ledger : ledger[i] \in PreviewRows
      BY <2>2
    <3> QED BY <3>1 DEF PreviewRows
  <2>4. /\ DOMAIN ledger' = DOMAIN ledger
        /\ \A i \in DOMAIN ledger :
              /\ ledger'[i] \in PreviewRows
              /\ \/ ledger'[i] = ledger[i]
                 \/ ledger'[i].name = job.next
    BY <2>1, <2>3
  <2>5. ledger' \in Seq(PreviewRows)
    <3>1. Len(ledger) \in Nat /\ DOMAIN ledger = 1..Len(ledger)
      BY <2>2
    <3>2. ledger' \in [1..Len(ledger) -> PreviewRows]
      BY <2>1, <2>4, <3>1
    <3> QED BY <3>1, <3>2
  <2>6. Preview!LedgerIsEarned'
    <3> SUFFICES ASSUME NEW i \in DOMAIN ledger, Preview!Applied(ledger'[i]),
                        ledger'[i].sum = "checked in", ledger'[i].name \notin altered
                 PROVE  effects[ledger'[i].name] = "whole"
      BY <2>1, <2>4 DEF Preview!LedgerIsEarned, Preview!Applied
    <3>1. CASE ledger'[i] = ledger[i]
      BY <3>1 DEF PreviewInv, Preview!LedgerIsEarned
    <3>2. CASE ledger'[i].name = job.next
      BY <2>2, <3>2 DEF There
    <3> QED BY <2>4, <3>1, <3>2
  <2>7. job' \in Jobs /\ job'.pc = "deploy"
    BY <2>1 DEF Jobs, PreviewSteps
  <2>8. PreviewVerified' /\ PreviewStands'
    BY <2>7 DEF PreviewVerified, PreviewStands
  <2> QED BY <2>1, <2>5, <2>6, <2>7, <2>8 DEF PreviewInv, PreviewTyped
<1>19. CASE Preview!CreateRole \/ Preview!RevokeAll \/ Preview!GrantReviewed \/ Preview!CheckRole
  <2>1. /\ UNCHANGED <<ledger, effects, altered, quiet>>
        /\ job.pc \in {"role", "revoke", "grant", "check"}
        /\ \/ \E pc \in {"revoke", "grant", "check"} : job' = [job EXCEPT !.pc = pc]
           \/ job' = [pc |-> "role", next |-> job.next + 1]
           \/ job' = [pc |-> "roles", next |-> 1]
    BY <1>19, <1>e DEF Preview!CreateRole, Preview!RevokeAll, Preview!GrantReviewed,
       Preview!CheckRole, Preview!Provision, Preview!At
  <2>2. /\ job' \in Jobs
        /\ job'.pc \in {"role", "revoke", "grant", "check", "roles"}
    BY <1>d, <2>1 DEF Jobs, PreviewSteps
  <2>3. PreviewVerified' /\ PreviewStands'
    BY <1>b, <2>1, <2>2 DEF PreviewInv, PreviewVerified, PreviewStands
  <2> QED BY <2>1, <2>2, <2>3, JobMoves
<1>20. ASSUME NEW m \in 1..Chain, Preview!AlterSchema(m) PROVE PreviewInv'
  <2>1. PICK extent \in Preview!Extents : effects' = [effects EXCEPT ![m] = extent]
    BY <1>20 DEF Preview!AlterSchema
  <2>2. /\ UNCHANGED <<job, ledger>> /\ ~quiet' /\ altered' = altered \cup {m}
    BY <1>20 DEF Preview!AlterSchema, Preview!Handwork
  <2>3. /\ \A n \in 1..Chain : There(n) => There(n)'
        /\ Preview!LedgerIsEarned'
    BY <2>1, <2>2, EffectsKeep DEF Preview!LedgerIsEarned, Preview!Applied
  <2>4. effects' \in [1..Chain -> Preview!Extents] /\ altered' \subseteq 1..Chain
    BY <2>1, <2>2 DEF PreviewInv, PreviewTyped
  <2>5. PreviewVerified'
    BY <2>2, <2>3, VerifiedStays
  <2> QED BY <2>2, <2>3, <2>4, <2>5 DEF PreviewInv, PreviewTyped, PreviewStands
<1>21. ASSUME NEW m \in 1..Chain, Preview!DeployElsewhere(m) PROVE PreviewInv'
  <2>1. PICK sum \in {"checked in", "another"} :
            /\ ledger' = Append(ledger, Preview!Row(m, sum, TRUE))
            /\ effects' = [effects EXCEPT ![m] = IF sum = "another" THEN "some" ELSE "whole"]
    BY <1>21 DEF Preview!DeployElsewhere
  <2>2. /\ UNCHANGED <<job, altered>> /\ ~quiet' /\ effects[m] = "absent"
    BY <1>21 DEF Preview!DeployElsewhere, Preview!Handwork
  <2> DEFINE row == Preview!Row(m, sum, TRUE)
             extent == IF sum = "another" THEN "some" ELSE "whole"
  <2>3. row \in PreviewRows /\ row.name = m /\ row.sum = sum
    BY <1>a DEF PreviewRows, Preview!Row
  <2>4. extent \in Preview!Extents /\ (sum = "checked in" => extent = "whole")
    BY DEF Preview!Extents
  <2>5. ledger' = Append(ledger, row) /\ effects' = [effects EXCEPT ![m] = extent]
    BY <2>1
  <2> HIDE DEF row, extent
  <2>6. ledger \in Seq(PreviewRows) /\ effects \in [1..Chain -> Preview!Extents]
    BY DEF PreviewInv, PreviewTyped
  <2>7. /\ ledger' \in Seq(PreviewRows)
        /\ \A i \in DOMAIN ledger' :
              (i \in DOMAIN ledger /\ ledger'[i] = ledger[i]) \/ ledger'[i] = row
    BY <2>3, <2>5, <2>6, RowIsAdded
  <2>8. /\ \A n \in 1..Chain : There(n) => There(n)'
        /\ \A i \in DOMAIN ledger :
              (/\ Preview!Applied(ledger[i]) /\ ledger[i].sum = "checked in"
               /\ ledger[i].name \notin altered')
              => effects'[ledger[i].name] = "whole"
    BY <2>2, <2>4, <2>5, EffectsKeep
  <2>9. Preview!LedgerIsEarned'
    <3>1. row.sum = "checked in" => effects'[row.name] = "whole"
      BY <2>3, <2>4, <2>5, <2>6
    <3> QED BY <2>7, <2>8, <3>1 DEF Preview!LedgerIsEarned, Preview!Applied
  <2>10. effects' \in [1..Chain -> Preview!Extents]
    BY <2>4, <2>5, <2>6
  <2>11. PreviewVerified'
    BY <2>2, <2>8, VerifiedStays
  <2> QED BY <2>2, <2>7, <2>9, <2>10, <2>11 DEF PreviewInv, PreviewTyped, PreviewStands
<1>22. CASE Preview!MarkRolledBack
  <2>1. PICK i \in DOMAIN ledger : ledger' = [ledger EXCEPT ![i].rolledBack = TRUE]
    BY <1>22 DEF Preview!MarkRolledBack
  <2>2. UNCHANGED <<job, altered, effects>> /\ ~quiet'
    BY <1>22 DEF Preview!MarkRolledBack, Preview!Handwork
  <2> DEFINE row == [ledger[i] EXCEPT !.rolledBack = TRUE]
  <2>3. ledger \in Seq(PreviewRows) /\ row \in PreviewRows /\ row.rolledBack
    <3>1. ledger \in Seq(PreviewRows) /\ ledger[i] \in PreviewRows
      BY DEF PreviewInv, PreviewTyped
    <3> QED BY <3>1 DEF PreviewRows
  <2>4. ledger' = [ledger EXCEPT ![i] = row]
    BY <2>1
  <2> HIDE DEF row
  <2>5. /\ ledger' \in Seq(PreviewRows) /\ DOMAIN ledger' = DOMAIN ledger
        /\ \A k \in DOMAIN ledger : ledger'[k] = ledger[k] \/ ledger'[k] = row
    BY <2>3, <2>4
  <2>6. Preview!LedgerIsEarned'
    BY <2>2, <2>3, <2>5 DEF PreviewInv, Preview!LedgerIsEarned, Preview!Applied
  <2>7. PreviewVerified'
    BY <1>c, <2>2 DEF PreviewInv, PreviewVerified
  <2> QED BY <2>2, <2>5, <2>6, <2>7 DEF PreviewInv, PreviewTyped, PreviewStands
<1>23. CASE (\E r \in Preview!Names : Preview!AlterRole(r)) \/ Preview!AlterGrants
  <2>1. UNCHANGED <<job, ledger, effects, altered>> /\ ~quiet'
    BY <1>23 DEF Preview!AlterRole, Preview!AlterGrants, Preview!Handwork
  <2>2. PreviewVerified'
    BY <1>c, <2>1 DEF PreviewInv, PreviewVerified
  <2> QED BY <1>d, <2>1, <2>2, JobMoves DEF PreviewStands
<1> QED
  BY <1>1, <1>2, <1>3, <1>4, <1>5, <1>6, <1>7, <1>8, <1>9, <1>10, <1>11, <1>12, <1>13, <1>14,
     <1>15, <1>16, <1>17, <1>18, <1>19, <1>20, <1>21, <1>22, <1>23
  DEF Preview!Next, Preview!Migrations

LEMMA PreviewIsSafe ==
  ASSUME Preview!PreviewAssumption
  PROVE  Preview!Spec => []Preview!RehearsalIsEarned
<1>1. Preview!Init => PreviewInv
  <2> SUFFICES ASSUME Preview!Init PROVE PreviewInv
    OBVIOUS
  <2>1. /\ job = [pc |-> "idle", next |-> 1] /\ altered = {}
        /\ effects \in [1..Chain -> Preview!Extents]
    BY DEF Preview!Init, Preview!Stopped, Preview!Step, Preview!PreviewAssumption,
       Preview!Migrations
  <2>2. CASE ledger = <<>>
    BY <2>1, <2>2 DEF PreviewInv, PreviewTyped, PreviewVerified, PreviewStands,
       Preview!LedgerIsEarned, Jobs, PreviewSteps
  <2>3. CASE /\ \A m \in 1..Chain - 1 : effects[m] = "whole"
             /\ ledger = [m \in 1..Chain - 1 |-> Preview!Row(m, "checked in", TRUE)]
    <3>1. Chain \in Nat /\ Chain > 5
      BY DEF Preview!PreviewAssumption, Preview!FirstUnapplied
    <3>2. \A m \in 1..Chain - 1 :
              /\ Preview!Row(m, "checked in", TRUE) \in PreviewRows
              /\ Preview!Row(m, "checked in", TRUE).name = m
      BY <3>1 DEF Preview!Row, PreviewRows
    <3>3. PICK n \in Nat : n = Chain - 1
      BY <3>1
    <3>4. ledger \in Seq(PreviewRows)
      <4>1. ledger = [m \in 1..n |-> Preview!Row(m, "checked in", TRUE)]
        BY <2>3, <3>3
      <4>2. ledger \in [1..n -> PreviewRows]
        BY <3>2, <3>3, <4>1
      <4> QED BY <4>2
    <3>5. Preview!LedgerIsEarned
      BY <2>3, <3>2 DEF Preview!LedgerIsEarned
    <3> QED
      BY <2>1, <3>4, <3>5 DEF PreviewInv, PreviewTyped, PreviewVerified, PreviewStands,
         Jobs, PreviewSteps
  <2> QED BY <2>2, <2>3 DEF Preview!Init
<1>2. PreviewInv /\ [Preview!Next]_(Preview!previewVars) => PreviewInv'
  BY PreviewKept
<1>3. PreviewInv => Preview!RehearsalIsEarned
  <2> SUFFICES ASSUME PreviewInv, job.pc = "passed", quiet,
                      NEW m \in (1..Chain) \ altered
               PROVE  effects[m] = "whole"
    BY DEF PreviewInv, PreviewStands, Preview!RehearsalIsEarned, Preview!PassedIsSound,
       Preview!At, Preview!Migrations
  <2>1. PICK i \in DOMAIN ledger : ledger[i].name = m
    BY DEF PreviewInv, PreviewStands, Preview!Exact
  <2>2. ledger[i].sum = "checked in" /\ Preview!Applied(ledger[i])
    BY DEF PreviewInv, PreviewStands, Preview!Exact
  <2> QED BY <2>1, <2>2 DEF PreviewInv, Preview!LedgerIsEarned
<1> QED BY <1>1, <1>2, <1>3, PTL DEF Preview!Spec

\* A behaviour of the composition is one of the part, or the part is at rest.
LEMMA PreviewAlone == PartsSpec => (part = "preview" /\ Preview!Spec) \/ []~(part = "preview")
<1>1. PartsInit => (part = "preview" => Preview!Init)
  BY DEF PartsInit
<1>2. [PartsNext]_partsVars => (part = "preview" => [Preview!Next]_(Preview!previewVars))
  BY PartAtWork
<1>3. [PartsNext]_partsVars => ((part = "preview") <=> (part = "preview")')
  BY PartAtWork
<1> QED BY <1>1, <1>2, <1>3, PTL DEF PartsSpec, Preview!Spec

-----------------------------------------------------------------------------
(* The properties that several parts share                                 *)

\* AnswersAreEarned, for any questions, clients, limit, texts and names: an answer to a
\* question, from the cache or by a query, is never of data older than the question, no
\* scope that the parser kept is left out of the query, and no more questions of a
\* client are parsed in a minute than its limit, each recorded once at most (route.ts
\* and lib/stat-query); the search box shows what its text has found, or waits for it
\* (GlobalSearch.tsx); and the answer on the page of Ask CentrePass is that of its
\* address (ExploreClient.tsx).
THEOREM AnswersFollow == PartsSpec => []AnswersAreEarned
<1>1. Asked!Spec => []Asked!AnswersAreEarned
  BY AskedIsSafe, PartsAssumption
<1>2. Reader!SearchSpec => []Reader!SearchIsSettled
  BY SearchIsSafe, PartsAssumption
<1>3. Reader!AskSpec => []Reader!AnswerIsOfTheAddress
  BY AskIsSafe, PartsAssumption
<1>4. /\ part = "stats" => Asked!AnswersAreEarned
      /\ part = "search" => Reader!SearchIsSettled
      /\ part = "ask" => Reader!AnswerIsOfTheAddress
      => AnswersAreEarned
  BY DEF AnswersAreEarned
<1> QED BY <1>1, <1>2, <1>3, <1>4, AskedAlone, SearchedAlone, AskAlone, PTL

\* AccountsAreSound, for any number of overlapping requests, any limits and any things
\* to save: the limit of what a user saves holds whenever no request is under way, what
\* was answered with 201 is there or was removed on request, an account keeps the
\* password of the first who made it, and no span as long as a window holds twice as
\* many uses as its limit (user-resource-route.ts, signup/route.ts, auth.ts,
\* request-security.ts); and of an item whose requests met no other, a page shows what
\* is saved, whatever was refused or taken back for others (settings/page.tsx,
\* MatchActions.tsx).
THEOREM AccountsFollow == PartsSpec => []AccountsAreSound
<1>1. User!Spec => []User!AccountsAreSound
  <2>1. User!LimitHolds /\ User!SavedIsKept /\ User!AccountsAreTheirs /\ User!RatesAreKept
          => User!AccountsAreSound
    BY DEF User!AccountsAreSound
  <2> QED BY <2>1, AccountsAreSafe, RatesAreSafe, PartsAssumption, PTL
<1>2. Reader!SavedSpec => []Reader!ShownIsSaved
  BY SavedIsSafe, PartsAssumption
<1>3. (part = "user" => User!AccountsAreSound) /\ (part = "saved" => Reader!ShownIsSaved)
        => AccountsAreSound
  BY DEF AccountsAreSound
<1> QED BY <1>1, <1>2, <1>3, UserAlone, KeptAlone, PTL

\* ChecksAreEarned, for any life of a verdict longer than the timeout and any number of
\* retries, changes of the site, waves, advances, requests and sizes: a verdict on a
\* database role is not older than a probe and its life (scoped-database-boundary.ts); a
\* check of the smoke that passes found what was so during the run
\* (executeProductionSmoke); and a stress that passes sent all its waves to a server that
\* answered, stayed under the limit and ended by itself, one that fails had a cause that
\* is not its own stop, and none leaves a server behind that a signal could end
\* (stress-phase2-memory.ts); and for a chain of any length, any scoped roles, schemas and
\* grants and any changes by hand, a migration that is recorded as it is checked in is
\* there or was changed by hand, and a rehearsal that passes undisturbed leaves the chain,
\* the reviewed privileges and no others (the job glasgow-preview-rehearsal).
THEOREM ChecksFollow == PartsSpec => []ChecksAreEarned
<1>1. Scoped!Spec => []Scoped!VerdictsAreRecent
  BY ScopedIsSafe, PartsAssumption
<1>2. Smoke!Spec => []Smoke!SmokeIsEarned
  BY SmokeIsSafe, PartsAssumption
<1>3. Stress!Spec => []Stress!StressIsEarned
  BY StressIsSafe, PartsAssumption
<1>4. Preview!Spec => []Preview!RehearsalIsEarned
  BY PreviewIsSafe, PartsAssumption
<1>5. /\ part = "scoped" => Scoped!VerdictsAreRecent
      /\ part = "smoke" => Smoke!SmokeIsEarned
      /\ part = "stress" => Stress!StressIsEarned
      /\ part = "preview" => Preview!RehearsalIsEarned
      => ChecksAreEarned
  BY DEF ChecksAreEarned
<1> QED
  BY <1>1, <1>2, <1>3, <1>4, <1>5, ScopedAlone, SmokeAlone, StressAlone, PreviewAlone, PTL

=============================================================================
