----------------------------- MODULE Admission ------------------------------
(***************************************************************************)
(* From an HTTP request to a schedule that may be stored: the handler's    *)
(* checks, decodePayload with its normalisation, the digest, prepare,      *)
(* which normalises once more, and the recurrence calculator's parser and  *)
(* search.  A string is its text and whether white space surrounds it; a   *)
(* member of the request body may be absent.  A JSON payload is its kind,  *)
(* its content down to the literals of its numbers, and how that is        *)
(* spelled: white space, the order of members, escapes.                    *)
(***************************************************************************)
EXTENDS CronCalendar

CONSTANTS
  Requests,
  RunAt,       \* the instants that texts of run_at denote
  Duration,    \* the durations in the texts of @every rules: [s, ns]
  RuleItems    \* the weekday items that the cron rule of a request may have

VARIABLES
  req,      \* the request
  sched,    \* the schedule it becomes
  digest    \* Command.RequestDigest

admitVars == <<req, sched, digest>>

Str(t) == [text |-> t, pad |-> FALSE]
Padded(t) == [text |-> t, pad |-> TRUE]
TrimSpace(s) == Str(s.text)

\* A member of a JSON object: given or not.
Member(s) == [given |-> TRUE, str |-> s]
Missing == [given |-> FALSE, str |-> Str("")]

NotGiven == -1

\* The headers, the path and the body of a request.
Strings == [text : STRING, pad : BOOLEAN]
Members == {m \in [given : BOOLEAN, str : Strings] : m.given \/ m = Missing}

ASSUME RequestAssumption ==
  Requests \subseteq
    [authorized : BOOLEAN, requestID : Strings, tenant : Strings, path : STRING, action : STRING,
     verb : STRING, key : Strings, query : BOOLEAN, ctype : STRING, body : STRING,
     name : Members, rule : Members, runAt : Members, tz : Members, url : Members, method : Members,
     payload : [kind : STRING, content : STRING, spelling : Nat],
     retry : [attempts : Int, backoff : Int, maxBackoff : Int, window : Int],
     misfire : Members, limit : Int, overlap : Members, paused : BOOLEAN]

ASSUME RuleAssumption == RuleItems \subseteq Items

-----------------------------------------------------------------------------
(* domain: RetryPolicy and Schedule.                                       *)

MaxRetryAttempts == 10
MaxRetryBackoffSeconds == 3600
MaxRetryWindowSeconds == 86400
MaxCatchUpOccurrences == 100

DefaultRetryPolicy == [attempts |-> 1, backoff |-> 1, maxBackoff |-> 3600, window |-> 3600]

\* Mutation: the ceiling of the backoff is not compared with its start.
RetryLoose(p) ==
  /\ p.attempts \in 1..MaxRetryAttempts /\ p.backoff \in 1..MaxRetryBackoffSeconds
  /\ p.maxBackoff \in 1..MaxRetryBackoffSeconds /\ p.window \in 1..MaxRetryWindowSeconds

RetryValid(p) ==
  /\ p.attempts \in 1..MaxRetryAttempts /\ p.backoff \in 1..MaxRetryBackoffSeconds
  /\ p.maxBackoff \in p.backoff..MaxRetryBackoffSeconds /\ p.window \in 1..MaxRetryWindowSeconds

ValueOr(x, none, default) == IF x = none THEN default ELSE x

\* The policy with the default in the place of every value that stands for none.
Defaulted(p, none) ==
  LET default == DefaultRetryPolicy IN
  [attempts |-> ValueOr(p.attempts, none, default.attempts),
   backoff |-> ValueOr(p.backoff, none, default.backoff),
   maxBackoff |-> ValueOr(p.maxBackoff, none, default.maxBackoff),
   window |-> ValueOr(p.window, none, default.window)]

WithDefaults(p) == Defaulted(p, 0)

OrElse(s, fallback) == IF s = Str("") THEN Str(fallback) ELSE s

EmptyObject == [kind |-> "object", content |-> "{}", spelling |-> 0]

\* The assignments of Normalized before it validates: trimmed texts, defaults.
Filled(s) ==
  [tenant |-> TrimSpace(s.tenant), name |-> TrimSpace(s.name), rule |-> TrimSpace(s.rule),
   runAt |-> s.runAt, tz |-> OrElse(TrimSpace(s.tz), "UTC"),
   url |-> TrimSpace(s.url), method |-> OrElse(s.method, "POST"),
   payload |-> IF s.payload.kind = "missing" THEN EmptyObject ELSE s.payload,
   retry |-> WithDefaults(s.retry), misfire |-> OrElse(s.misfire, "fire_once"),
   limit |-> IF s.limit = 0 THEN 1 ELSE s.limit, overlap |-> OrElse(s.overlap, "forbid"),
   status |-> IF s.status = "" THEN "active" ELSE s.status]

\* A URL by what is wrong with it: no host, another scheme, credentials or a fragment,
\* an empty or impossible port, a local or zoned host, digits that are no address, an
\* address that IsSafeTargetAddress refuses.
UnsafeTargets == {"", "relative", "ftp", "credentials", "fragment", "port", "localhost", "digits", "literal"}
ValidateTargetURL(s) == s.text \notin UnsafeTargets

\* Tenants are bounded and have no control characters.
ValidateTenantID(t) == t \notin {"", "long", "control"}
IsValidScheduleName(t) == t \in {"job", "other"}

\* The zero time.
NoInstant == 0

\* UTC and names that time.LoadLocation finds, some longer than 128 bytes: a path
\* like Area/./././City names the same file.
LongZone == "Area/././City"
Zones == {"UTC", "Europe/Paris", LongZone}

\* One recurrence: a rule that is not too long and names no zone, or an instant.
Valid(s) ==
  /\ ValidateTenantID(s.tenant.text) /\ IsValidScheduleName(s.name.text)
  /\ (s.rule = Str("")) # (s.runAt = NoInstant) /\ s.rule.text \notin {"long", "TZ="}
  /\ s.tz.text \in Zones
  /\ ValidateTargetURL(s.url)
  /\ s.method \in {Str("POST"), Str("PUT")}
  /\ s.payload.kind = "object"
  /\ RetryValid(s.retry)
  /\ \/ s.misfire \in {Str("skip"), Str("fire_once")} /\ s.limit = 1
     \/ s.misfire = Str("catch_up_bounded") /\ s.limit \in 1..MaxCatchUpOccurrences
  /\ s.overlap \in {Str("allow"), Str("forbid")}
  /\ s.status \in {"active", "paused", "exhausted"}
  /\ s.status = "exhausted" => s.runAt # NoInstant

\* Mutation: the payload stays as it was spelled.
KeepsSpelling(s) == Filled(s)

\* canonicalizeJSON forgets how the payload was spelled; it keeps the literals of
\* numbers (UseNumber), so that 1 and 1.0 are different contents.
CanonicalizeJSON(p) == [kind |-> p.kind, content |-> p.content, spelling |-> 0]
NormalizedSchedule(s) == [Filled(s) EXCEPT !.payload = CanonicalizeJSON(@)]

-----------------------------------------------------------------------------
(* The request body: decodePayload and toDomain.                           *)

\* A member that is given is not blank, and a limit that is given is not zero.
GivenIsFilled(r) ==
  /\ \A m \in {r.name, r.tz, r.method, r.runAt, r.rule, r.misfire, r.overlap} : m.given => m.str.text # ""
  /\ r.limit # 0

RetryToDomain(r) == Defaulted(r.retry, NotGiven)

\* time.Parse and runAtPattern: at most milliseconds, Z, nothing around it.  An
\* instant has several spellings, because trailing zeros may be left out.
IsInstant(s) == ~s.pad /\ s.text \in DOMAIN RunAt /\ RunAt[s.text] # NoInstant
ParseRunAt(r) == IF r.runAt.given THEN RunAt[r.runAt.str.text] ELSE NoInstant

ToDomain(r) ==
  [tenant |-> TrimSpace(r.tenant), name |-> Str(r.path),
   rule |-> r.rule.str, runAt |-> ParseRunAt(r), tz |-> r.tz.str, url |-> r.url.str,
   method |-> r.method.str, payload |-> r.payload, retry |-> RetryToDomain(r),
   misfire |-> r.misfire.str, limit |-> IF r.limit = NotGiven THEN 0 ELSE r.limit,
   overlap |-> r.overlap.str, status |-> IF r.paused THEN "paused" ELSE "active"]

\* One of rule and run_at is given; an empty object gives neither.
ScheduleAccepted(r) ==
  /\ r.rule.given # r.runAt.given /\ r.body # "braces"
  /\ GivenIsFilled(r)
  /\ r.name.given => r.name.str = Str(r.path)
  /\ RetryValid(RetryToDomain(r))
  /\ r.runAt.given => IsInstant(r.runAt.str)
  /\ \E s \in {Filled(ToDomain(r))} : Valid(s)

\* Actions and deletes take no body, or an empty object.
IsAction(r) == r.action # "" \/ r.verb = "DELETE"
ActionBody(r) == r.body = "empty" \/ (r.body = "braces" /\ r.ctype = "json")

\* A body by what is wrong with it: not JSON, another value than an object, the same
\* key twice in an object at any depth, data behind the value, null or unknown members.
Malformed == {"empty", "garbage", "array", "duplicate", "trailing", "null", "unknown"}
SingleObject(r) == r.body \notin Malformed

ScheduleBody(r) == r.ctype = "json" /\ SingleObject(r) /\ ScheduleAccepted(r)

ReadBody(r) == r.body \notin {"unreadable", "large"}

DecodePayload(r) == ReadBody(r) /\ IF IsAction(r) THEN ActionBody(r) ELSE ScheduleBody(r)

\* Mutation: the payload is digested as it was written.
WrittenPayload(r) == Filled(ToDomain(r))

CanonicalCommandPayload(r) == NormalizedSchedule(ToDomain(r))

-----------------------------------------------------------------------------
(* The handler.                                                            *)

NoSchedule == [status |-> "none"]
NoDigest == [scope |-> <<>>]
NoRequest == [verb |-> "none"]

\* Mutation: white space counts as an identifier.
AnyIdentifier(s) == s # Str("") /\ s.text \notin {"long", "control"}

\* Request and tenant identifiers: trimmed, not empty, bounded and visible.
IdentifierAccepted(s) == TrimSpace(s).text \notin {"", "long", "control"}

\* The idempotency key is taken as it is; blanks are a key.
KeyAccepted(s) == s # Str("") /\ s.text \notin {"long", "control"}

ParseSchedulePath(r) == IsValidScheduleName(r.path) /\ r.action \in {"", "pause", "resume"}

SupportedMethod(r) ==
  r.verb \in IF r.action = "" THEN {"GET", "POST", "PUT", "DELETE"} ELSE {"POST"}

OperationFor(r) ==
  IF r.action # "" THEN r.action
  ELSE CASE r.verb = "POST" -> "create" [] r.verb = "PUT" -> "update" [] r.verb = "DELETE" -> "delete"

\* readSchedule takes neither a body nor a query.
ReadSchedule(r) == r.body = "empty" /\ ~r.query

Fingerprint(r) ==
  [scope |-> <<r.verb, r.path, r.action>>,
   payload |-> IF IsAction(r) THEN NoSchedule ELSE CanonicalCommandPayload(r)]

\* The checks of ServeHTTP; which of them answers is left out.
Checks(r) ==
  /\ r.authorized /\ IdentifierAccepted(r.requestID) /\ IdentifierAccepted(r.tenant)
  /\ ParseSchedulePath(r) /\ SupportedMethod(r)
  /\ IF r.verb = "GET" THEN ReadSchedule(r) ELSE KeyAccepted(r.key) /\ DecodePayload(r)

ServeHTTP ==
  /\ pc = "head"
  /\ IF ~Checks(req) THEN pc' = "refused" /\ UNCHANGED <<sched, digest>>
     ELSE IF req.verb = "GET" THEN pc' = "read" /\ UNCHANGED <<sched, digest>>
     ELSE /\ pc' = "prepare"
          /\ sched' = IF IsAction(req) THEN NoSchedule ELSE NormalizedSchedule(ToDomain(req))
          /\ digest' = Fingerprint(req)
  /\ UNCHANGED <<req, items, allowed, wildcard, fields, start, day>>

\* Command.Schedule with the tenant and the name of the command.
Addressed(s, r) == [s EXCEPT !.tenant = TrimSpace(r.tenant), !.name = Str(r.path)]

\* Service.prepare: identifiers once more, the schedule normalised once more; a
\* rule goes on to the recurrence calculator.
Prepare ==
  /\ pc = "prepare"
  /\ LET schedules == OperationFor(req) \in {"create", "update"}
         given == Addressed(sched, req)
         normal == NormalizedSchedule(given)
     IN /\ sched' = IF schedules THEN normal ELSE sched
        /\ pc' = IF \/ ~ValidateTenantID(TrimSpace(req.tenant).text)
                    \/ ~IsValidScheduleName(req.path)
                    \/ TrimSpace(req.requestID).text \in {"", "long"}
                    \/ req.key = Str("") \/ req.key.text = "long"
                    \/ schedules /\ (~Valid(Filled(given)) \/ normal.status = "exhausted") THEN "late"
                 ELSE IF schedules /\ normal.runAt = NoInstant THEN "rule"
                 ELSE "prepared"
  /\ UNCHANGED <<req, digest, items, allowed, wildcard, fields, start, day>>

-----------------------------------------------------------------------------
(* The recurrence calculator, called by prepare with the rule of a request *)
(* and by the planner and resume with stored rules.                        *)

MinimumInterval == [s |-> 1, ns |-> 0]
MaximumInterval == [s |-> 366 * 24 * 3600, ns |-> 0]
Shorter(a, b) == a.s < b.s \/ (a.s = b.s /\ a.ns < b.ns)

\* @every: between a second and 366 days, at millisecond precision.  A text without
\* a duration stands in Duration with no time at all.
ParseInterval(text) ==
  LET interval == Duration[text] IN
  /\ ~Shorter(interval, MinimumInterval) /\ ~Shorter(MaximumInterval, interval)
  /\ interval.ns % 1000000 = 0

\* Calculator.Validate for the rule of a request.  What a cron rule says is chosen
\* here.  Bound: its weekday field has one item.
Validate ==
  /\ pc = "rule"
  /\ LET rule == sched.rule.text
         zoned == rule # "TZ=" /\ sched.tz.text \in Zones
     IN IF zoned /\ rule \notin DOMAIN Duration
        THEN pc' = "next" /\ \E i \in RuleItems : list' = {i} /\ left' = {i}
        ELSE /\ pc' = IF zoned /\ ParseInterval(rule) THEN "prepared" ELSE "invalid"
             /\ UNCHANGED <<list, left>>
  /\ UNCHANGED <<admitVars, item, value, allowed, wildcard, fields, start, day>>

\* parseCron returns to Validate, and Validate to prepare.
RuleReturns ==
  /\ req # NoRequest /\ pc \in {"search", "error", "rejected"}
  /\ pc' = IF pc = "search" THEN "prepared" ELSE "invalid"
  /\ UNCHANGED <<admitVars, items, allowed, wildcard, fields, start, day>>

Field == ParseField /\ UNCHANGED admitVars

Parse == ParseCron /\ UNCHANGED admitVars

Find == req = NoRequest /\ Search /\ UNCHANGED admitVars

\* A request, or a stored rule with every two items for the weekday field.
Init ==
  /\ \/ pc = "head" /\ req \in Requests /\ list = {}
     \/ pc = "next" /\ req = NoRequest /\ \E i, j \in Items : list = {i, j}
  /\ CalendarInit
  /\ sched = NoSchedule /\ digest = NoDigest

Next == ServeHTTP \/ Prepare \/ Validate \/ RuleReturns \/ Field \/ Parse \/ Find

vars == <<calendarVars, admitVars>>

Spec == Init /\ [][Next]_vars /\ WF_vars(Next)

-----------------------------------------------------------------------------
(* Correctness.                                                            *)

WithSchedule == pc = "prepared" /\ ~IsAction(req)

\* What prepare stores is what the handler digested: prepare normalises a second
\* time, and a normalisation that is not idempotent (a default that is trimmed, a
\* payload spelled anew) would keep a receipt whose digest describes another
\* schedule than the stored one.
DigestDescribesStored == WithSchedule => digest.payload = sched

\* What recurrence.Validate has against the rule of a request: an interval out of
\* bounds, a weekday item out of range, or fields without a date in any year.
RuleRefused ==
  IF sched.rule.text \in DOMAIN Duration THEN ~ParseInterval(sched.rule.text)
  ELSE (\E i \in list : Rejected(i)) \/ Dateless

\* The handler and prepare check the same things in two places, and prepare answers
\* every refusal with one message, "schedule or recurrence rule is invalid".  Of
\* what the handler let through prepare refuses nothing but recurrence rules, and
\* those exactly when the rule yields no instant; a request that is accepted with a
\* rule has a rule that yields one.
PrepareRefusesOnlyRules ==
  /\ pc # "late"
  /\ pc = "invalid" => ~IsAction(req) /\ sched.runAt = NoInstant /\ RuleRefused
  /\ WithSchedule /\ sched.runAt = NoInstant => ~RuleRefused

\* The defaults of a retry policy, as the API documents them.
DocumentedRetry == [attempts |-> 1, backoff |-> 1, maxBackoff |-> 3600, window |-> 3600]

\* What a request means, member by member: as given, or the documented default.
Meaning(r) ==
  LET Or(m, fallback) == IF m.given THEN m.str.text ELSE fallback IN
  [tenant |-> r.tenant.text, name |-> r.path, rule |-> r.rule.str.text,
   runAt |-> IF r.runAt.given THEN RunAt[r.runAt.str.text] ELSE NoInstant,
   tz |-> Or(r.tz, "UTC"), url |-> r.url.str.text,
   body |-> IF r.payload.kind = "missing" THEN "{}" ELSE r.payload.content,
   method |-> Or(r.method, "POST"), misfire |-> Or(r.misfire, "fire_once"),
   limit |-> IF r.limit = NotGiven THEN 1 ELSE r.limit, overlap |-> Or(r.overlap, "forbid"),
   attempts |-> ValueOr(r.retry.attempts, NotGiven, DocumentedRetry.attempts),
   backoff |-> ValueOr(r.retry.backoff, NotGiven, DocumentedRetry.backoff),
   maxBackoff |-> ValueOr(r.retry.maxBackoff, NotGiven, DocumentedRetry.maxBackoff),
   window |-> ValueOr(r.retry.window, NotGiven, DocumentedRetry.window), paused |-> r.paused]

\* What the digested schedule says.
Reading(d) ==
  [tenant |-> d.tenant.text, name |-> d.name.text, rule |-> d.rule.text, runAt |-> d.runAt,
   tz |-> d.tz.text, url |-> d.url.text, body |-> d.payload.content,
   method |-> d.method.text, misfire |-> d.misfire.text, limit |-> d.limit,
   overlap |-> d.overlap.text, attempts |-> d.retry.attempts, backoff |-> d.retry.backoff,
   maxBackoff |-> d.retry.maxBackoff, window |-> d.retry.window, paused |-> d.status = "paused"]

\* A retry of a request spelled differently (defaults written out, white space, an
\* instant with or without trailing zeros, members of the payload in another order)
\* has the digest of the first, so it replays the receipt and is no conflict; two
\* requests that mean different schedules never share one: the digest is a function
\* of the meaning and determines it.  The numbers of a payload mean their literals:
\* a retry with 1.0 for 1 is another request.
DigestIsMeaning ==
  WithSchedule =>
    LET d == digest.payload IN
    /\ Reading(d) = Meaning(req)
    /\ \A s \in {d.tenant, d.name, d.rule, d.tz, d.url, d.method, d.misfire, d.overlap} : ~s.pad
    /\ d.payload.kind = "object" /\ d.payload.spelling = 0

\* CHECK constraints of scheduler_schedule.
Between(x, low, high) == low <= x /\ x <= high

CheckRetry(p) ==
  /\ Between(p.attempts, 1, 10) /\ Between(p.backoff, 1, 3600)
  /\ Between(p.maxBackoff, p.backoff, 3600) /\ Between(p.window, 1, 86400)

CheckCatchUp(s) ==
  \/ s.misfire = Str("catch_up_bounded") /\ Between(s.limit, 1, 100)
  \/ s.misfire \in {Str("skip"), Str("fire_once")} /\ s.limit = 1

CheckRule(s) ==
  \/ s.rule.text \notin {"", "long"} /\ s.runAt = NoInstant
  \/ s.rule.text = "" /\ s.runAt # NoInstant

CheckTimezone(s) == s.tz.text \notin {"", LongZone}

\* jsonb has no place for the character U+0000.
CheckPayload(p) == p.kind = "object" /\ p.content # "U+0000"

\* The columns that take every accepted schedule.
FitsOtherColumns(s) ==
  /\ s.tenant.text \notin {"", "long"} /\ IsValidScheduleName(s.name.text)
  /\ CheckRule(s) /\ CheckCatchUp(s) /\ CheckRetry(s.retry)
  /\ s.method \in {Str("POST"), Str("PUT")} /\ s.overlap \in {Str("allow"), Str("forbid")}
  /\ s.status \in {"active", "paused"}

\* A schedule that is accepted fits the constraints of its table, which are written
\* down a second time in database/schema.sql, but for two things the domain does not
\* look at: a time zone name of more than 128 bytes, and U+0000 in a payload.  With
\* these a command fails in its INSERT, as an internal error; no other accepted
\* command does.
StoredFitsSchema ==
  WithSchedule =>
    /\ FitsOtherColumns(sched)
    /\ CheckTimezone(sched) <=> sched.tz.text # LongZone
    /\ CheckPayload(sched.payload) <=> sched.payload.content # "U+0000"
=============================================================================
