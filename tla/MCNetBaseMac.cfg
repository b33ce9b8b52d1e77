CONSTANTS
    Confs <- MCConfs
    Leases <- MCLeases
    IfLists <- MCIfLists
    Macs <- MCMacs
    DHCP_MAX_RETRIES = 5
SPECIFICATION Spec
INVARIANT MacFound
\* nb_conf_enable returns to the parser, or sysload has died; the MAC test
\* is one call.
CHECK_DEADLOCK FALSE
