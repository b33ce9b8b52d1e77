------------------------------- MODULE NetBase -------------------------------
(***************************************************************************)
(* Network bring-up (netbase.c, dhcp_request.c).  The configuration's      *)
(* 'setup network' statement fills a struct nb_conf and calls             *)
(* nb_conf_enable: in DHCP mode it runs dhcpcd up to DHCP_MAX_RETRIES + 1 *)
(* times with a doubling timeout and copies the lease into the nb_conf,   *)
(* then appends to /etc/resolv.conf, configures the loopback device, the  *)
(* interface and the default route.  A 'system' section may test a MAC    *)
(* address with nb_test_mac.                                               *)
(*                                                                         *)
(* Strings are sequences of characters.  A lease is the dhcpcd-<if>.info  *)
(* file, a sequence of KEY=value lines as <<key, value>>.  A field of     *)
(* struct dhcp_request is None (NULL) or Some(value); dns is the list, <<>>*)
(* for NULL.  The commands cfg_system runs are records of what they set.   *)
(***************************************************************************)
EXTENDS Integers, Sequences, SequencesExt

CONSTANTS
    Confs,            \* nb_conf structures the configuration may build
    Leases,           \* info files a successful dhcpcd may leave
    IfLists,          \* interface lists if_nameindex may return
    Macs,             \* MAC addresses a configuration may test
    DHCP_MAX_RETRIES  \* dhcp.h

VARIABLES
    pc,         \* where nb_conf_enable is
    retries,    \* its retries
    timeout,    \* its timeout, the int passed to dhcpcd -t
    req,        \* my_request
    lease,      \* the info file read, a history variable
    netconf,    \* the struct nb_conf
    resolv,     \* lines appended to /etc/resolv.conf
    cmds,       \* commands run through cfg_system
    macTest     \* nb_test_mac: the list and MAC tested, and the result

vars == <<pc, retries, timeout, req, lease, netconf, resolv, cmds, macTest>>

None == <<>>
Some(v) == <<v>>

\* int timeout = timeout*2 as the build computes it: modulo 2^32, signed.
Double32(x) ==
    CASE x >= 2^30     -> ((x - 2^30) - 2^30) * 2
      [] x < -(2^30)   -> ((x + 2^30) + 2^30) * 2
      [] OTHER         -> x * 2

\* dhcp_req_init: memset to 0.
NoRequest == [ipaddr |-> None, netmask |-> None, network |-> None,
              gateway |-> None, domain |-> None, dns |-> <<>>]

\* Fault variant of SplitDns: the length of an entry counts its ','.
RECURSIVE SplitDnsWithSep(_)
SplitDnsWithSep(t) ==
    LET v == SelectInSeq(t, LAMBDA c : c = ",") IN
    IF v = 0 THEN <<t>>
    ELSE <<SubSeq(t, 1, v)>> \o SplitDnsWithSep(SubSeq(t, v + 1, Len(t)))

\* The do-while of the DNS branch: each entry up to the next ',', and the
\* last up to the end of the value.
RECURSIVE SplitDns(_)
SplitDns(t) ==
    LET v == SelectInSeq(t, LAMBDA c : c = ",") IN
    IF v = 0 THEN <<t>>
    ELSE <<SubSeq(t, 1, v - 1)>> \o SplitDns(SubSeq(t, v + 1, Len(t)))

\* The fields of struct dhcp_request that a key's branch fills and
\* nb_conf_enable reads; the branches of the other keys store what nothing
\* reads.
KeyField == ("IPADDR" :> "ipaddr") @@ ("NETMASK" :> "netmask")
            @@ ("NETWORK" :> "network") @@ ("GATEWAY" :> "gateway")
            @@ ("DOMAIN" :> "domain")

\* One pass of the fgets loop of dhcpcd: the key before '=' selects the
\* branch, a later line of the same key replaces the field, and DNS lines
\* add to the list (counter is not reset).
ParseLine(r, line) ==
    LET k == line[1]
        v == line[2]
    IN  IF k \in DOMAIN KeyField THEN [r EXCEPT ![KeyField[k]] = Some(v)]
        ELSE IF k = "DNS" THEN [r EXCEPT !.dns = @ \o SplitDns(v)]
        ELSE r

ParseInfo(r, l) == FoldLeft(ParseLine, r, l)

\* cfg_strcpy calls strlen on its source, and dns[0] reads through dns:
\* the copies after a successful request only return with every field set.
Copyable(r) ==
    \A f \in {"ipaddr", "netmask", "gateway", "domain"} : r[f] # None
    /\ r.dns # <<>>

\* nb_conf_init
NbConfInit == [mode |-> "STATIC", interface |-> <<>>, address |-> <<>>,
               mask |-> <<>>, gateway |-> <<>>, nameserver |-> <<>>,
               domain |-> <<>>]

Str == Seq(STRING)

TypeOK ==
    /\ pc \in {"enable", "request", "resolv", "configure", "done", "crashed"}
    /\ retries \in 0..(DHCP_MAX_RETRIES + 1)
    /\ timeout \in Int
    /\ req.dns \in Seq(Str)
    /\ \A f \in {"ipaddr", "netmask", "network", "gateway", "domain"} :
           req[f] = None \/ (Len(req[f]) = 1 /\ req[f][1] \in Str)
    /\ lease \in {None} \cup {Some(l) : l \in Leases}
    /\ resolv \in Seq(STRING \X Str)
    /\ macTest.result \in {"none", "ok", "error"}

Init ==
    /\ pc = "enable"
    /\ retries = 0
    /\ timeout = 10
    /\ req = NoRequest
    /\ lease = None
    /\ netconf \in Confs
    /\ resolv = <<>>
    /\ cmds = <<>>
    /\ macTest = [ifs |-> <<>>, mac |-> "none", failed |-> FALSE, result |-> "none"]

-----------------------------------------------------------------------------
(***************************************************************************)
(* nb_conf_enable                                                          *)
(***************************************************************************)
Enable ==
    /\ pc = "enable"
    /\ pc' = IF netconf.mode = "DHCP" THEN "request" ELSE "resolv"
    /\ req' = NoRequest
    /\ UNCHANGED <<retries, timeout, lease, netconf, resolv, cmds, macTest>>

\* Fault variant of Request: the loop runs once more than
\* DHCP_MAX_RETRIES allows.
RequestExtraRetry ==
    /\ pc = "request"
    /\ retries' = retries + 1
    /\ timeout' = Double32(timeout)
    /\ pc' = IF retries + 1 <= DHCP_MAX_RETRIES + 1 THEN "request" ELSE "resolv"
    /\ UNCHANGED <<req, lease, netconf, resolv, cmds, macTest>>

\* Fault variant of Request: retries is not counted, so a request that
\* keeps failing is repeated for ever.
RequestNoCount ==
    /\ pc = "request"
    /\ timeout' = Double32(timeout)
    /\ pc' = "request"
    /\ UNCHANGED <<retries, req, lease, netconf, resolv, cmds, macTest>>

\* One pass of the do-while: dhcpcd returns NULL when the dhcpcd command
\* fails or its info file cannot be opened, and the timeout doubles;
\* otherwise it parses the info file into my_request, and the lease is
\* copied into the nb_conf.
Request ==
    /\ pc = "request"
    /\ retries' = retries + 1
    /\ \/ /\ timeout' = Double32(timeout)
          /\ pc' = IF retries + 1 <= DHCP_MAX_RETRIES THEN "request" ELSE "resolv"
          /\ UNCHANGED <<req, lease, netconf>>
       \/ \E l \in Leases :
            LET r == ParseInfo(req, l) IN
            /\ req' = r
            /\ lease' = Some(l)
            /\ IF Copyable(r)
               THEN /\ netconf' = [netconf EXCEPT !.address = r.ipaddr[1],
                                     !.mask = r.netmask[1],
                                     !.gateway = r.gateway[1],
                                     !.nameserver = r.dns[1],
                                     !.domain = r.domain[1]]
                    /\ pc' = "resolv"
               ELSE /\ pc' = "crashed"
                    /\ UNCHANGED netconf
            /\ UNCHANGED timeout
    /\ UNCHANGED <<resolv, cmds, macTest>>

\* fopen("/etc/resolv.conf", "a+") may fail; otherwise the domain and the
\* nameserver that are not empty are appended.
WriteResolv ==
    /\ pc = "resolv"
    /\ \/ UNCHANGED resolv
       \/ resolv' = resolv
              \o (IF netconf.domain # <<>> THEN <<<<"domain", netconf.domain>>>>
                  ELSE <<>>)
              \o (IF netconf.nameserver # <<>>
                  THEN <<<<"nameserver", netconf.nameserver>>>> ELSE <<>>)
    /\ pc' = "configure"
    /\ UNCHANGED <<retries, timeout, req, lease, netconf, cmds, macTest>>

\* The loopback device, then, with an interface and an address, the
\* interface with 255.255.255.0 for a missing mask, and the default route
\* when there is a gateway.
DefaultMask == <<"2", "5", "5", ".", "2", "5", "5", ".", "2", "5", "5", ".", "0">>

Configure ==
    /\ pc = "configure"
    /\ LET lo == [cmd |-> "ifconfig", dev |-> <<"l", "o">>]
           mask == IF netconf.mask = <<>> THEN DefaultMask ELSE netconf.mask
           up == [cmd |-> "ifconfig", dev |-> netconf.interface,
                  address |-> netconf.address, mask |-> mask]
           route == IF netconf.gateway # <<>>
                    THEN <<[cmd |-> "route", gw |-> netconf.gateway]>> ELSE <<>>
       IN IF netconf.interface = <<>> \/ netconf.address = <<>>
          THEN /\ cmds' = Append(cmds, lo)
               /\ UNCHANGED netconf
          ELSE /\ netconf' = [netconf EXCEPT !.mask = mask]
               /\ cmds' = cmds \o <<lo, up>> \o route
    /\ pc' = "done"
    /\ UNCHANGED <<retries, timeout, req, lease, resolv, macTest>>

-----------------------------------------------------------------------------
(***************************************************************************)
(* nb_test_mac: the loop over if_nameindex() ends at the element whose    *)
(* first byte is 0, read through a char pointer: the first byte of the    *)
(* unsigned int if_index; on big-endian s390 that is its high byte.  An  *)
(* interface whose SIOCGIFHWADDR ioctl fails (hw = "none") is skipped;     *)
(* the others' "%02x:..." address is compared with the MAC.               *)
(***************************************************************************)
FirstByte(index) == index \div 2^24

RECURSIVE MacLoop(_, _)
MacLoop(ifs, mac) ==
    IF ifs = <<>> \/ FirstByte(Head(ifs).index) = 0 THEN "error"
    ELSE IF Head(ifs).hw = mac THEN "ok"
    ELSE MacLoop(Tail(ifs), mac)

\* socket() or if_nameindex() may fail, and nb_test_mac returns an error
\* (failed records which of the two results it was).
TestMac ==
    /\ macTest.result = "none"
    /\ \E ifs \in IfLists, mac \in Macs, failed \in BOOLEAN :
         macTest' = [ifs |-> ifs, mac |-> mac, failed |-> failed,
                     result |-> IF failed THEN "error" ELSE MacLoop(ifs, mac)]
    /\ UNCHANGED <<pc, retries, timeout, req, lease, netconf, resolv, cmds>>

Next ==
    \/ Enable \/ Request \/ WriteResolv \/ Configure
    \/ TestMac

\* nb_conf_enable runs in sysload's single thread while the configuration
\* is parsed, and every command it runs returns (dhcpcd gives up after its
\* -t timeout); whether and when a MAC is tested is up to the configuration.
Fairness == WF_vars(Enable \/ Request \/ WriteResolv \/ Configure)

Spec == Init /\ [][Next]_vars /\ Fairness

-----------------------------------------------------------------------------
(***************************************************************************)
(* What the lease means, stated without the code's loops: the value of a  *)
(* key is that of its last line, and the nameserver is the first of the   *)
(* comma-separated entries of the first DNS line.                         *)
(***************************************************************************)
CommaFields(v) ==
    FoldLeft(LAMBDA acc, c : IF c = "," THEN Append(acc, <<>>)
                             ELSE [acc EXCEPT ![Len(acc)] = Append(@, c)],
             <<<<>>>>, v)

LastValue(l, k) ==
    LET i == SelectLastInSeq(l, LAMBDA line : line[1] = k) IN
    IF i = 0 THEN <<>> ELSE l[i][2]

FirstDns(l) ==
    LET i == SelectInSeq(l, LAMBDA line : line[1] = "DNS") IN
    IF i = 0 THEN <<>> ELSE CommaFields(l[i][2])[1]

MacPresent(ifs, mac) == \E i \in 1..Len(ifs) : ifs[i].hw = mac

\* After a successful dhcpcd, the nb_conf that resolv.conf, ifconfig and
\* route are written from holds the lease: the address, gateway and domain
\* of its last IPADDR, GATEWAY and DOMAIN lines, its netmask unless that
\* was empty, and the first DNS server, as dhcpcd's line parsing, the DNS
\* splitting loop and the copies of nb_conf_enable must together give.
ConfFromLease ==
    (lease # None /\ pc \in {"resolv", "configure", "done"}) =>
        LET l == lease[1] IN
        /\ netconf.address = LastValue(l, "IPADDR")
        /\ netconf.gateway = LastValue(l, "GATEWAY")
        /\ netconf.domain = LastValue(l, "DOMAIN")
        /\ LastValue(l, "NETMASK") # <<>> => netconf.mask = LastValue(l, "NETMASK")
        /\ netconf.nameserver = FirstDns(l)

\* nb_conf_enable returns: the DHCP retry loop ends after at most
\* DHCP_MAX_RETRIES + 1 requests however often dhcpcd fails (or the
\* process dies in the attempt).
EnableTerminates == <>(pc \in {"done", "crashed"})

\* nb_conf_enable never dies: whatever lease dhcpcd leaves, sysload goes on
\* to parse the rest of its configuration.
NeverCrashes == pc # "crashed"

\* nb_test_mac reports success exactly when an interface whose hardware
\* address could be read has the MAC, unless socket() or if_nameindex()
\* failed.
MacFound ==
    (macTest.result # "none" /\ ~macTest.failed) =>
        (macTest.result = "ok" <=> MacPresent(macTest.ifs, macTest.mac))

=============================================================================
