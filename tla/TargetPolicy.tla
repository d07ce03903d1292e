---------------------------- MODULE TargetPolicy ----------------------------
(***************************************************************************)
(* Which addresses an attempt may be sent to.  The shape of netip: an      *)
(* address has a family and a number, a prefix an address and a length,    *)
(* IPv6 holds a mapped copy of IPv4 and addresses with a zone, and a       *)
(* prefix of one family contains no address of the other and none with a   *)
(* zone.  IPv4 has four bits here and IPv6 six, and each kind of block the *)
(* code lists has one representative.                                      *)
(***************************************************************************)
EXTENDS Integers, Sequences, FiniteSets

Width(fam) == IF fam = 4 THEN 4 ELSE 6
Addr(f, k) == [fam |-> f, n |-> k, zone |-> "none"]
Zoned(k) == [fam |-> 6, n |-> k, zone |-> "eth0"]
NoAddress == Addr(0, 0)
Addresses ==
  {NoAddress} \cup {Addr(4, k) : k \in 0..15} \cup {Addr(6, k) : k \in 0..63} \cup {Zoned(k) : k \in 0..63}

\* The mapped addresses are 01xxxx.  Unmapping drops the zone.
MappedBase == 16
Unmap(a) == IF a.fam = 6 /\ a.n \in MappedBase..MappedBase + 15 THEN Addr(4, a.n - MappedBase) ELSE a

Prefix(f, k, b) == [fam |-> f, n |-> k, bits |-> b]
Prefixes == {Prefix(4, k, b) : k \in 0..15, b \in 0..4} \cup {Prefix(6, k, b) : k \in 0..63, b \in 0..6}
BlockSize(p) == 2 ^ (Width(p.fam) - p.bits)
Masked(p) == [p EXCEPT !.n = @ - (@ % BlockSize(p))]
Contains(p, a) == a.zone = "none" /\ p.fam = a.fam /\ a.n \div BlockSize(p) = p.n \div BlockSize(p)

\* The predicates on addresses.
IsUnspecified(a) == a.fam \in {4, 6} /\ a.n = 0
IsLoopback(a) == (a.fam = 4 /\ a.n = 7) \/ (a.fam = 6 /\ a.n = 1)
IsPrivate(a) == (a.fam = 4 /\ a.n \in 8..11) \/ (a.fam = 6 /\ a.n \in 48..63)
IsLinkLocalUnicast(a) == (a.fam = 4 /\ a.n = 12) \/ (a.fam = 6 /\ a.n = 40)
IsMulticast(a) == (a.fam = 4 /\ a.n = 14) \/ (a.fam = 6 /\ a.n = 44)
IsBroadcast(a) == a.fam = 4 /\ a.n = 15
IsGlobalUnicast(a) ==
  a.fam \in {4, 6} /\ ~IsUnspecified(a) /\ ~IsBroadcast(a) /\ ~IsLoopback(a) /\ ~IsMulticast(a)
  /\ ~IsLinkLocalUnicast(a)

-----------------------------------------------------------------------------
(* The lists of blocks.                                                    *)

\* Private, v4 loopback, unique local and v6 loopback.
InternalTargetPrefixes ==
  {Prefix(4, 8, 2), Prefix(4, 7, 4), Prefix(6, 48, 2), Prefix(6, 1, 6)}

ReservedTargetPrefixes == {Prefix(4, 0, 3), Prefix(4, 15, 4), Prefix(6, 36, 5)}

InBlock(blocks, a) == \E p \in blocks : Contains(p, a)

\* netip's notion of private and loopback, not the configuration's list.
IsSafeTargetAddress(a) ==
  LET u == Unmap(a) IN
  /\ a # NoAddress /\ a.zone = "none"
  /\ IsGlobalUnicast(u) /\ ~IsLoopback(u) /\ ~IsPrivate(u)
  /\ ~IsUnspecified(u) /\ ~IsLinkLocalUnicast(u) /\ ~IsMulticast(u)
  /\ ~InBlock(ReservedTargetPrefixes, u)

\* The prefix's own length is compared, not that of the unmapped prefix.
IsInternalTargetPrefix(p) ==
  LET a == Unmap(Addr(p.fam, p.n)) IN
  \E q \in InternalTargetPrefixes : p.bits >= q.bits /\ Contains(q, a)

-----------------------------------------------------------------------------
(* Hosts: a name in some capitalisation with some trailing dots.           *)

Host(name, caps, dots) == [name |-> name, upper |-> caps, dots |-> dots]
NoHost == Host("", FALSE, 0)

\* Lower case, without one trailing dot.
NormalizeAllowlistHostForLookup(h) ==
  [h EXCEPT !.upper = FALSE, !.dots = IF @ = 0 THEN 0 ELSE @ - 1]

\* Not empty, not padded, not a pattern or an address, and every label filled.
HostAccepted(h) ==
  h.name \notin {"", "padded", "wildcard", "literal", "bad_label"}
  /\ NormalizeAllowlistHostForLookup(h).dots = 0

-----------------------------------------------------------------------------
(* ParseInternalTargetAllowlist.                                           *)

\* What the variable holds: nothing, JSON that is refused (syntax, duplicate
\* keys, unknown members, trailing data, null), or a list of entries.
AllowJSON(entries) == [kind |-> "list", list |-> entries]
Blank == [kind |-> "blank", list |-> <<>>]
Malformed == [kind |-> "malformed", list |-> <<>>]
Entry(host, cidrs) == [host |-> host, cidrs |-> cidrs]

Distinct(s) == \A i, j \in DOMAIN s : s[i] = s[j] => i = j

EntryAccepted(e) ==
  /\ HostAccepted(e.host)
  /\ e.cidrs # <<>> /\ Distinct(e.cidrs)
  /\ \A i \in DOMAIN e.cidrs : e.cidrs[i] = Masked(e.cidrs[i]) /\ IsInternalTargetPrefix(e.cidrs[i])

\* Duplicate hosts are found after normalisation.
AllowlistAccepted(raw) ==
  /\ raw.kind # "malformed"
  /\ \A i \in DOMAIN raw.list : EntryAccepted(raw.list[i])
  /\ Distinct([i \in DOMAIN raw.list |-> NormalizeAllowlistHostForLookup(raw.list[i].host)])

\* No policy, or the entries under their normalised hosts.
ParseInternalTargetAllowlist(raw) ==
  [on |-> raw.kind = "list",
   entries |-> UNION {{<<NormalizeAllowlistHostForLookup(raw.list[i].host), raw.list[i].cidrs[k]>> :
                         k \in DOMAIN raw.list[i].cidrs} : i \in DOMAIN raw.list}]

NoPolicy == ParseInternalTargetAllowlist(Blank)

\* Mutation: the address is matched in the form it has.
AllowsAsGiven(policy, host, a) ==
  \E e \in policy.entries : e[1] = NormalizeAllowlistHostForLookup(host) /\ Contains(e[2], a)

Allows(policy, host, a) ==
  \E e \in policy.entries : e[1] = NormalizeAllowlistHostForLookup(host) /\ Contains(e[2], Unmap(a))

TargetAddressAllowed(policy, host, a) ==
  IF policy.on THEN Allows(policy, host, a) ELSE IsSafeTargetAddress(a)
=============================================================================
