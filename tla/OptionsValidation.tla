-------------------------- MODULE OptionsValidation --------------------------
(***************************************************************************)
(* Options.Validate (pkg/operator/options.go): the operator checks its    *)
(* flags once at startup and refuses to start on the first rule a flag     *)
(* breaks.  The rules are checked in the order of the code, each an early  *)
(* return, and are compared with the rules of the design:                  *)
(*   - EdgePodCIDR must not overlap the connector's subnets;               *)
(*   - leaseDuration > renewDeadline > retryPeriod * 1.2 >= 1s.            *)
(*                                                                         *)
(* Data abstraction: a string flag is the class of its value (empty,       *)
(* valid, invalid); an address has AddrBits bits; a CIDR is the address   *)
(* written before the slash and the prefix length; a duration is counted  *)
(* in units of 100ms.                                                      *)
(***************************************************************************)
EXTENDS Naturals, SequencesExt

CONSTANTS
    AddrBits,    \* width of an address
    MaxUnits,    \* durations range over 0..MaxUnits units of 100ms
    BadCIDR      \* a string net.ParseCIDR rejects

Addr == 0..(2^AddrBits - 1)
CIDR == [ip : Addr, len : 0..AddrBits] \cup {BadCIDR}
Second == 10                      \* time.Second in units of 100ms

\* net.ParseCIDR keeps the address written and masks it for the network;
\* IPNet.Contains compares the masked prefixes.
HostBits(c) == 2^(AddrBits - c.len)
NetContains(c, a) == a \div HostBits(c) = c.ip \div HostBits(c)

VARIABLES
    opts,     \* the parsed flags, and EnableEdgeIPAM as Complete set it
    result    \* "pending", "ok", or the error Validate returned

vars == <<opts, result>>

-----------------------------------------------------------------------------
(* The flag values enumerated.  Three families vary one group of flags    *)
(* each and keep the others at a valid value, so that the checks of that  *)
(* group are reached.                                                      *)

Valid ==
    [cluster |-> "dns1123", role |-> "member", token |-> TRUE,
     keyFile |-> TRUE, certFile |-> TRUE, edgeLabels |-> TRUE,
     connectorLabels |-> TRUE, publicAddresses |-> TRUE,
     subnets |-> {}, ipam |-> FALSE, edgePodCIDR |-> BadCIDR,
     pullPolicy |-> "IfNotPresent",
     lease |-> 15 * Second, renew |-> 10 * Second, retry |-> 2 * Second]

FlagOptions ==
    { [Valid EXCEPT !.cluster = c, !.role = r, !.token = t, !.keyFile = k,
                    !.certFile = f, !.edgeLabels = e, !.connectorLabels = l,
                    !.publicAddresses = a, !.pullPolicy = p] :
        c \in {"", "dns1123", "invalid"}, r \in {"host", "member", "other"},
        t \in BOOLEAN, k \in BOOLEAN, f \in BOOLEAN, e \in BOOLEAN,
        l \in BOOLEAN, a \in BOOLEAN, p \in {"IfNotPresent", "Sometimes"} }

SubnetOptions ==
    { [Valid EXCEPT !.subnets = s, !.ipam = i, !.edgePodCIDR = e] :
        s \in {{a, b} : a, b \in CIDR} \cup {{}},
        i \in BOOLEAN, e \in CIDR }

DurationOptions ==
    { [Valid EXCEPT !.lease = l, !.renew = n, !.retry = t] :
        l \in 0..MaxUnits, n \in 0..MaxUnits, t \in 0..MaxUnits }

Options == FlagOptions \cup SubnetOptions \cup DurationOptions

-----------------------------------------------------------------------------
\* Mutant: only the connector subnet's address is tested against EdgePodCIDR.
OverlappedOneWay(o) ==
    \E s \in o.subnets \ {BadCIDR} : NetContains(o.edgePodCIDR, s.ip)

\* Validate, with EnableEdgeIPAM: each connector subnet is parsed again and
\* EdgePodCIDR's network contains its address, or its network contains
\* EdgePodCIDR's address.
Overlapped(o) ==
    \E s \in o.subnets \ {BadCIDR} :
        NetContains(o.edgePodCIDR, s.ip) \/ NetContains(s, o.edgePodCIDR.ip)

\* The leader-election checks, in order; the second compares renewDeadline
\* with time.Duration(1.2 * float64(retryPeriod)), which is exact for
\* multiples of 100ms.
LeaderElectionChecks(o) ==
    << o.lease <= o.renew, 5 * o.renew <= 6 * o.retry,
       o.lease < Second, o.renew < Second, o.retry < Second >>

LeaderElectionErrors ==
    << "leaseNotAboveRenew", "renewNotAboveRetryJitter", "leaseTooShort",
       "renewTooShort", "retryTooShort" >>

\* Validate: the rules in the order they are checked, each with the error
\* that the early return reports when the rule is broken.
Checks(o) ==
    LET le == LeaderElectionChecks(o) IN
    << <<o.cluster = "", "noCluster">>,
       <<o.cluster = "invalid", "invalidCluster">>,
       <<o.role \notin {"host", "member"}, "unknownRole">>,
       <<o.role = "member" /\ ~o.token, "noInitToken">>,
       <<o.role = "host" /\ ~o.keyFile, "noKeyFile">>,
       <<o.role = "host" /\ ~o.certFile, "noCertFile">>,
       <<~o.edgeLabels, "noEdgeLabels">>,
       <<~o.connectorLabels, "noConnectorLabels">>,
       <<~o.publicAddresses, "noPublicAddresses">>,
       <<BadCIDR \in o.subnets, "invalidSubnet">>,
       <<o.ipam /\ o.edgePodCIDR = BadCIDR, "invalidEdgePodCIDR">>,
       <<o.ipam /\ o.edgePodCIDR # BadCIDR /\ Overlapped(o), "overlap">>,
       <<o.pullPolicy \notin {"Always", "IfNotPresent", "Never"},
         "badPullPolicy">> >>
    \o [i \in 1..5 |-> <<le[i], LeaderElectionErrors[i]>>]

Broken(check) == check[1]

ValidateResult(o) ==
    LET i == SelectInSeq(Checks(o), Broken) IN
    IF i = 0 THEN "ok" ELSE Checks(o)[i][2]

-----------------------------------------------------------------------------
Init ==
    /\ opts \in Options
    /\ result = "pending"

\* Validate runs once and returns nil or its first error.
Validate ==
    /\ result = "pending"
    /\ result' = ValidateResult(opts)
    /\ UNCHANGED opts

Spec == Init /\ [][Validate]_vars

-----------------------------------------------------------------------------
(* Reference definitions, from the design.                                *)

\* The addresses of a CIDR, as the range from its network address.
Block(c) ==
    LET base == c.ip - (c.ip % HostBits(c))
    IN  base..(base + HostBits(c) - 1)

OverlapsByDesign(o) ==
    \E s \in o.subnets \ {BadCIDR} : Block(s) \cap Block(o.edgePodCIDR) # {}

\* With edge IPAM on, Validate refuses exactly the configurations whose
\* EdgePodCIDR shares an address with a connector subnet, whichever of the
\* two is the larger and whatever host bits the flags carry.
OverlapCheckExact ==
    (result \in {"ok", "overlap"} /\ opts.ipam)
        => (result = "overlap" <=> OverlapsByDesign(opts))
=============================================================================
