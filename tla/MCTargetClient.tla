--------------------------- MODULE MCTargetClient ---------------------------
(***************************************************************************)
(* Instance of TargetClient for TLC: statuses on both sides of every edge  *)
(* of the classification and outside the range of HTTP, and a plain        *)
(* environment with one part of it varied at a time.                       *)
(***************************************************************************)
EXTENDS TargetClient

EdgeStatuses == {0, 99, 101, 200, 299, 300, 302, 404, 407, 408, 409, 424, 425, 426, 428, 429, 430, 499, 500, 503, 599, 600, 999}

Plain == [database |-> "well_formed", redis |-> "",
          wakeup |-> Unset, claim |-> Unset, dispatch |-> Unset, batch |-> Unset, worker |-> "",
          allow |-> Blank]

Durations == {Unset, Bad, 0, 1, 29, 30, 31, 119, 120, 121, 86400, 86401}
Svc(caps, dots) == Host("svc", caps, dots)
Private == Prefix(4, 8, 2)
Loopback == Prefix(6, 1, 6)

SomeEnvironments ==
  {[Plain EXCEPT !.database = d, !.redis = r, !.worker = w] :
     d, r, w \in {"", "well_formed", "malformed"}}
  \cup {[Plain EXCEPT !.claim = c, !.dispatch = d] : c, d \in Durations}
  \cup {[Plain EXCEPT !.wakeup = w, !.batch = b] : w \in Durations, b \in {Unset, Bad, 0, 1, 1000, 1001}}
  \cup {[Plain EXCEPT !.allow = Malformed]}
  \cup {[Plain EXCEPT !.allow = AllowJSON(<<Entry(Svc(FALSE, 0), <<p>>)>>)] : p \in Prefixes}
  \cup {[Plain EXCEPT !.allow = AllowJSON(<<Entry(h, c), Entry(Svc(TRUE, 1), <<Private>>)>>)] :
          h \in {Svc(FALSE, 0), Svc(FALSE, 2), Host("db", TRUE, 1)}
                  \cup {Host(n, FALSE, 0) : n \in {"", "padded", "wildcard", "literal", "bad_label"}},
          c \in {<<>>, <<Loopback>>, <<Loopback, Loopback>>, <<Private, Loopback>>}}

SomeHosts == {Svc(FALSE, 0), Svc(TRUE, 1), Svc(FALSE, 2), Host("db", FALSE, 0), Host("literal", FALSE, 0)}

\* Public, private, the private address and a public one in their mapped form, the
\* loopback, and addresses with a zone.
SomeAnswers ==
  LET some == {Addr(4, 5), Addr(4, 9), Addr(6, MappedBase + 9), Addr(6, MappedBase + 13), Addr(6, 1),
               Zoned(33), Zoned(MappedBase + 5), Zoned(50)}
  IN {<<>>} \cup {<<a>> : a \in some} \cup {<<a, b>> : a, b \in some}
=============================================================================
