------------------------------- MODULE MCCron -------------------------------
(***************************************************************************)
(* Instance of Admission for TLC: requests that differ from a plain one in *)
(* at most two members; weekday items with both ends of the                *)
(* field, an inner day, values outside of it and steps up to the largest   *)
(* int; days of the month at the ends of months that differ in length,     *)
(* searched from before and after the leap days around 2100.               *)
(***************************************************************************)
EXTENDS Admission, TLC

EdgeValues == {0, 1, 5, 7, 8}
EdgeSteps == {0, 1, 2, 3, 7, 8, MaxInt}

SomeFields ==
  {[dom |-> doms, month |-> months, anyDom |-> doms = 1..31] :
     doms \in {{29}, {30, 31}, {31}, 1..31}, months \in {{2}, {4}, {2, 4}}}

\* Thursday 1 March 2096, Sunday 15 November 2026, Tuesday 29 February 2000.
SomeStarts == {[y |-> 2096, m |-> 3, d |-> 1, w |-> 4], [y |-> 2026, m |-> 11, d |-> 15, w |-> 0],
               [y |-> 2000, m |-> 2, d |-> 29, w |-> 2]}

\* A millisecond apart, two spellings of one instant, and the zero time.
SomeInstants == ("12:00:00Z" :> 2 @@ "12:00:00.000Z" :> 2 @@ "12:00:00.001Z" :> 3 @@ "0001-01-01Z" :> NoInstant)

\* Both bounds and just outside, a microsecond too many, and no duration.
SomeDurations ==
  ("@every 1s" :> [s |-> 1, ns |-> 0] @@ "@every 999ms" :> [s |-> 0, ns |-> 999000000]
   @@ "@every 366d" :> [s |-> 31622400, ns |-> 0] @@ "@every 366d1ms" :> [s |-> 31622400, ns |-> 1000000]
   @@ "@every 1s1us" :> [s |-> 1, ns |-> 1000] @@ "@every soon" :> [s |-> 0, ns |-> 0])

\* Every day, Friday, and a step of zero.
SomeItems ==
  {[kind |-> "star", from |-> Minimum, to |-> Maximum, slash |-> FALSE, step |-> 1],
   [kind |-> "value", from |-> 5, to |-> 5, slash |-> FALSE, step |-> 1],
   [kind |-> "star", from |-> Minimum, to |-> Maximum, slash |-> TRUE, step |-> 0]}

NoRetry == [attempts |-> NotGiven, backoff |-> NotGiven, maxBackoff |-> NotGiven, window |-> NotGiven]

SomePlainRequest ==
  [authorized |-> TRUE, requestID |-> Str("id"), tenant |-> Str("t"), path |-> "job", action |-> "",
   verb |-> "POST", key |-> Str("k"), query |-> FALSE, ctype |-> "json", body |-> "object",
   name |-> Missing, rule |-> Member(Str("cron")), runAt |-> Missing, tz |-> Missing,
   url |-> Member(Str("https")), method |-> Missing, payload |-> [kind |-> "missing", content |-> "", spelling |-> 0],
   retry |-> NoRetry, misfire |-> Missing, limit |-> NotGiven, overlap |-> Missing, paused |-> FALSE]

\* A text, with white space around it, blank, white space only, or not there.
Written(texts) ==
  {Member(Str(t)) : t \in texts} \cup {Member(Padded(t)) : t \in texts} \cup {Missing}

Identifiers == {Str("id"), Padded("id"), Str(""), Padded(""), Str("long"), Str("control")}

Vary ==
  [authorized |-> BOOLEAN, requestID |-> Identifiers, tenant |-> Identifiers, path |-> {"job", "other", "Job!"},
   action |-> {"", "pause", "resume", "other"}, verb |-> {"GET", "POST", "PUT", "DELETE", "PATCH"},
   key |-> Identifiers, query |-> BOOLEAN, ctype |-> {"json", "text"},
   body |-> {"empty", "braces", "object", "large", "unreadable"} \cup Malformed,
   name |-> Written({"job", "other", ""}), rule |-> Written({"cron", "", "long", "TZ="} \cup DOMAIN SomeDurations),
   runAt |-> Written({"nanoseconds", ""} \cup DOMAIN SomeInstants),
   tz |-> Written({"UTC", "Europe/Paris", LongZone, "Local", "No/Where", ""}), url |-> Written({"https"} \cup UnsafeTargets),
   method |-> Written({"POST", "PUT", "GET", ""}),
   payload |-> {[kind |-> "missing", content |-> "", spelling |-> 0]}
     \cup [kind : {"object", "array"}, content : {"{}", "1", "1.0", "U+0000"}, spelling : {0, 1}],
   retry |-> [attempts : {NotGiven, 0, 10, 11}, backoff : {NotGiven, 2, 3600, 3601},
              maxBackoff : {NotGiven, 1, 3601}, window : {NotGiven, 86400, 86401}],
   misfire |-> Written({"skip", "fire_once", "catch_up_bounded", "later", ""}),
   limit |-> {NotGiven, 0, 1, 2, 100, 101}, overlap |-> Written({"allow", "forbid", "queue", ""}),
   paused |-> BOOLEAN]

HeadMembers == {"authorized", "requestID", "tenant", "path", "action", "verb", "key", "query", "ctype", "body"}

Changes == UNION {{<<f, v>> : v \in Vary[f]} : f \in DOMAIN Vary}

\* Members that change together: two of the head or two of the body; the retry
\* numbers change with each other only.
Group(f) == IF f \in HeadMembers THEN "head" ELSE IF f = "retry" THEN f ELSE "body"

Pairs == {p \in Changes \X Changes : p[1] = p[2] \/ (p[1][1] # p[2][1] /\ Group(p[1][1]) = Group(p[2][1]))}

SomeRequests == {[SomePlainRequest EXCEPT ![p[1][1]] = p[1][2], ![p[2][1]] = p[2][2]] : p \in Pairs}
=============================================================================
