---------------------------- MODULE TargetClient ----------------------------
(***************************************************************************)
(* One HTTP attempt, from the environment the client was configured with   *)
(* to the dispatcher's verdict: configuration, payload check, resolution   *)
(* under the address policy, request, response body, classification,       *)
(* normalisation with the attempt's context and the choice between         *)
(* success, retry and permanent failure.  The context may be cancelled or  *)
(* run into its deadline between any two steps of the attempt.             *)
(***************************************************************************)
EXTENDS Configuration, FiniteSetsExt

CONSTANTS
  Environments,   \* environments the process may be started with
  Hosts,          \* hosts of target URLs
  Answers,        \* sequences of addresses a host may have
  Statuses        \* HTTP statuses the target may answer with

\* The transport returns final statuses of three digits only, whatever they are;
\* netip parses prefixes and addresses, nothing else.
ASSUME TargetAssumption ==
  /\ Statuses \subseteq 0..99 \cup {101} \cup 200..999
  /\ Answers \subseteq Seq(Addresses)
  /\ \A e \in Environments : \A i \in DOMAIN e.allow.list : e.allow.list[i].cidrs \in Seq(Prefixes)

VARIABLES
  env,      \* the environment, until the client is built
  policy,   \* Client.allowlist
  host,     \* the host of the target URL
  pinned,   \* the address the request is sent to
  pc,       \* the next step
  ctx,      \* the attempt's context: live, cancelled or deadline
  seen,     \* what attemptCtx.Err() said
  status,   \* DispatchResult.Status, 0 without a response
  code,     \* DispatchResult.Code, "" when unset
  err,      \* DispatchResult.Err is set
  fault,    \* history: what went wrong outside the context
  verdict   \* what persistResult decides

loaded == <<env, policy, host>>
vars == <<env, policy, host, pinned, pc, ctx, seen, status, code, err, fault, verdict>>

NoEnvironment == [allow |-> Blank]
Init ==
  /\ env \in Environments /\ policy = NoPolicy /\ host = NoHost /\ pinned = NoAddress
  /\ pc = "load" /\ ctx = "live" /\ seen = "live"
  /\ status = 0 /\ code = "" /\ err = FALSE
  /\ fault = "none" /\ verdict = "none"

attempt == <<ctx, seen, status, code, err, fault, verdict>>

Load ==
  /\ pc = "load"
  /\ \/ ~LoadAccepts(env) /\ pc' = "refused" /\ UNCHANGED policy
     \/ /\ LoadAccepts(env) /\ pc' = "construct"
        /\ policy' = ParseInternalTargetAllowlist(env.allow)
  /\ UNCHANGED <<env, host, pinned, attempt>>

\* The constructors; what they were given is not read again.  Then a cycle
\* dispatches a row with some target.
Begin ==
  /\ pc = "construct" /\ ConstructAccepts(env) /\ pc' = "payload"
  /\ env' = NoEnvironment
  /\ host' \in Hosts
  /\ UNCHANGED <<policy, pinned, attempt>>

\* Dispatch returns with an error.
ReturnError(c, what) ==
  /\ pc' = "normalize"
  /\ code' = c /\ err' = TRUE /\ fault' = what

\* The runtime stops, or DispatchTimeout passes.
ContextEnds ==
  /\ ctx = "live" /\ pc \notin {"load", "refused", "construct", "done"}
  /\ ctx' \in {"cancelled", "deadline"}
  /\ UNCHANGED <<loaded, pinned, pc, seen, status, code, err, fault, verdict>>

CheckPayload ==
  /\ pc = "payload"
  /\ \/ pc' = "resolve" /\ UNCHANGED <<code, err, fault>>
     \/ ReturnError("rejected", "payload")
  /\ UNCHANGED <<loaded, pinned, ctx, seen, status, verdict>>

\* The codes a failure may get.  While the context is live, a network error may
\* still be one of the client's or the dialer's own timeouts.
ClassifyTransportError(what) ==
  CASE ctx = "cancelled" -> {"cancelled"}
    [] ctx = "deadline" -> {"timeout"}
    [] ctx = "live" -> IF what = "policy" THEN {"rejected"} ELSE {"timeout", "unavailable"}

Permitted(answer) == {k \in DOMAIN answer : TargetAddressAllowed(policy, host, Unmap(answer[k]))}

\* The first address the policy allows.
Pin(answer) == Unmap(answer[Min(Permitted(answer))])

\* resolveTarget: the URL is refused, the name does not resolve, none of the
\* addresses is allowed, or one is pinned.
ResolveTarget ==
  /\ pc = "resolve"
  /\ \/ \E answer \in Answers :
          \/ Permitted(answer) # {} /\ pc' = "send" /\ pinned' = Pin(answer) /\ UNCHANGED <<code, err, fault>>
          \/ /\ Permitted(answer) = {} /\ UNCHANGED pinned
             /\ \E c \in ClassifyTransportError("policy") : ReturnError(c, "policy")
     \/ /\ \E what \in {"network", "policy"} :
             \E c \in ClassifyTransportError(what) : ReturnError(c, what)
        /\ UNCHANGED pinned
  /\ UNCHANGED <<loaded, ctx, seen, status, verdict>>

\* No request can be built, or it is sent.  Redirects are answers like others.
\* A context that has ended may still lose the race against the response.
DoResolved ==
  /\ pc = "send"
  /\ \/ pc' = "read" /\ status' \in Statuses /\ UNCHANGED <<code, err, fault>>
     \/ ReturnError("rejected", "payload") /\ UNCHANGED status
     \/ /\ \E c \in ClassifyTransportError("network") : ReturnError(c, "network")
        /\ UNCHANGED status
  /\ UNCHANGED <<loaded, pinned, ctx, seen, verdict>>

Succeeded == ~err /\ status \in 200..299
RetryableStatus == status \in {408, 425, 429} \/ status >= 500

\* The body is discarded; one that is too long or breaks off is an error.
ReadBody ==
  /\ pc = "read"
  /\ \/ ReturnError("rejected", "body")
     \/ ReturnError("unavailable", "network")
     \/ /\ Succeeded
        /\ pc' = "normalize" /\ UNCHANGED <<code, err, fault>>
     \/ /\ ~Succeeded
        /\ ReturnError(IF RetryableStatus THEN "unavailable" ELSE "permanent", "none")
  /\ UNCHANGED <<loaded, pinned, ctx, seen, status, verdict>>

NormalizeAttemptResult ==
  /\ pc = "normalize" /\ pc' = "persist"
  /\ seen' = ctx
  /\ IF ctx = "live" THEN UNCHANGED <<code, err>>
     ELSE err' = TRUE /\ code' = IF ctx = "cancelled" THEN "cancelled" ELSE "timeout"
  /\ UNCHANGED <<loaded, pinned, ctx, status, fault, verdict>>

\* Mutation: the status is looked at before the code.
RetryableByStatus ==
  \/ RetryableStatus
  \/ err /\ code \in {"unavailable", "timeout", ""}

RetryableDispatch ==
  /\ code \notin {"rejected", "permanent", "cancelled"}
  /\ \/ RetryableStatus
     \/ err /\ code \in {"unavailable", "timeout"}
     \/ status = 0 /\ err /\ code = ""

\* persistResult of an attempt that is neither the last nor out of its window.
PersistResult ==
  /\ pc = "persist" /\ pc' = "done"
  /\ verdict' = IF Succeeded THEN "succeeded" ELSE IF RetryableDispatch THEN "retry" ELSE "failed"
  /\ UNCHANGED <<loaded, pinned, ctx, seen, status, code, err, fault>>

Next ==
  \/ Load \/ Begin
  \/ ContextEnds \/ CheckPayload \/ ResolveTarget \/ DoResolved \/ ReadBody
  \/ NormalizeAttemptResult \/ PersistResult

Spec == Init /\ [][Next]_vars

-----------------------------------------------------------------------------
(* Correctness.                                                            *)

\* The classification table of the retry policy, whatever the context does
\* between the steps of the attempt: a cancellation is permanent, a deadline is
\* retried, and otherwise the first thing that went wrong decides.  One
\* exception to the table: a status above 599 is retried like 5xx, where the table
\* has "other HTTP" as permanent.
ClassifiedAsDocumented ==
  pc = "done" =>
    verdict = CASE seen = "cancelled" -> "failed"
                [] seen = "deadline" -> "retry"
                [] seen = "live" /\ fault \in {"payload", "policy", "body"} -> "failed"
                [] seen = "live" /\ fault = "network" -> "retry"
                [] seen = "live" /\ fault = "none" ->
                     IF status \in 200..299 THEN "succeeded"
                     ELSE IF status \in {408, 425, 429} \cup 500..999 THEN "retry" ELSE "failed"

\* The configured duration of a claim is longer than the configured duration of an
\* attempt, for every environment that Load accepts and after every default has been
\* filled in; the planner and the dispatcher work with the same numbers.  (At run
\* time a claim may still end during the attempt: NoReclaimDuringAttempt.)
ClaimOutlivesAttempt ==
  pc = "construct" =>
    LET built == Construct(env) IN
    /\ built.dispatcherTTL > built.attempt /\ built.attempt > 0 /\ built.client = built.attempt
    /\ built.plannerTTL = built.dispatcherTTL /\ built.plannerBatch = built.dispatcherBatch
    /\ ConstructAccepts(env)

\* A configured allowlist lets through internal addresses only, whichever
\* family and form its prefixes were written in; the default policy, which asks
\* netip and not the list of internal blocks, lets none of them through.  So a
\* request goes to an internal address, in its unmapped form, exactly when an
\* allowlist is configured, whatever the name resolved to and in whichever order.
PolicyNeverCrosses ==
  /\ pc = "construct" =>
       \A a \in Addresses :
         /\ \A h \in Hosts : policy.on /\ Allows(policy, h, a) => InBlock(InternalTargetPrefixes, Unmap(a))
         /\ IsSafeTargetAddress(a) => ~InBlock(InternalTargetPrefixes, Unmap(a))
  /\ pinned # NoAddress => (InBlock(InternalTargetPrefixes, pinned) <=> policy.on)
=============================================================================
