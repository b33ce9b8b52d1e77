------------------------------ MODULE MCNetBase ------------------------------
(***************************************************************************)
(* NetBase for TLC: the nb_conf structures of static and DHCP statements,  *)
(* three info files dhcpcd may leave, and two interface lists.            *)
(***************************************************************************)
EXTENDS NetBase

Line(k, v) == <<k, v>>

\* Every key dhcpcd writes that nb_conf_enable reads, DNS with two servers.
FullLease ==
    << Line("IPADDR", <<"i">>), Line("NETMASK", <<"m">>),
       Line("NETWORK", <<"n">>), Line("GATEWAY", <<"g">>),
       Line("DOMAIN", <<"d">>), Line("DNS", <<"a", ",", "b">>) >>

\* A server that sends no domain name.
NoDomainLease ==
    << Line("IPADDR", <<"i">>), Line("NETMASK", <<"m">>),
       Line("GATEWAY", <<"g">>), Line("DNS", <<"a">>) >>

\* Keys repeated, an empty netmask and a key nb_conf_enable does not read.
RepeatedLease ==
    << Line("IPADDR", <<"i">>), Line("NETMASK", <<>>),
       Line("GATEWAY", <<"g">>), Line("DOMAIN", <<"d">>),
       Line("DNS", <<"b">>), Line("DNS", <<"a">>),
       Line("IPADDR", <<"j">>), Line("LEASETIME", <<"7">>) >>

MCLeases == {FullLease, NoDomainLease, RepeatedLease}

MCConfs ==
    {[NbConfInit EXCEPT !.mode = m, !.interface = i, !.address = a,
                        !.gateway = g, !.nameserver = n] :
        m \in {"STATIC", "DHCP"}, i \in {<<>>, <<"e">>}, a \in {<<>>, <<"s">>},
        g \in {<<>>, <<"h">>}, n \in {<<>>, <<"x">>}}

\* The list of if_nameindex, without its {0, NULL} end: interface 1 with
\* MAC m1 and interface 2 whose ioctl fails, or interface 2 with m2.
MCIfLists ==
    { << [index |-> 1, hw |-> "m1"], [index |-> 2, hw |-> "none"] >>,
      << [index |-> 2, hw |-> "m2"] >> }

MCMacs == {"m1", "m2"}
=============================================================================
