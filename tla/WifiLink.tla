------------------------------ MODULE WifiLink ------------------------------
(***************************************************************************)
(* The radio link and the address that everything else on the network      *)
(* rests on: set_up_network_stack joins once, rejoin_wifi_routine whenever *)
(* the link goes down, and the MQTT task looks up its broker over it.  The *)
(* access point comes and goes; the driver and the network stack are       *)
(* external.                                                               *)
(***************************************************************************)
EXTENDS Naturals

CONSTANT MaxOutages  \* bound: how often a link is lost

VARIABLES
  pc,         \* where set_up_network_stack, and rejoin_wifi_routine after it, waits:
              \* "joining", "retrying", "config", "link", "stack" or "watching"
  spawned,    \* whether set_up_network_stack is done and the other tasks run
  available,  \* the access point answers
  link,       \* stack.is_link_up
  config,     \* stack.is_config_up: there is an address
  resolver,   \* where resolve_mqtt_broker_address is: "querying", "waiting" or "resolved"
  outages     \* links lost so far

vars == <<pc, spawned, available, link, config, resolver, outages>>

Init ==
  /\ pc = "joining"
  /\ spawned = FALSE
  /\ available \in BOOLEAN
  /\ link = FALSE
  /\ config = FALSE
  /\ resolver = "querying"
  /\ outages = 0

-----------------------------------------------------------------------------
\* After a first join the address is asked for every 100 ms, after another it is
\* waited for.
JoinSucceeds ==
  /\ pc = "joining"
  /\ available
  /\ link' = TRUE
  /\ pc' = IF spawned THEN "stack" ELSE "config"
  /\ UNCHANGED <<spawned, available, config, resolver, outages>>

JoinFails ==
  /\ pc = "joining"
  /\ ~available
  /\ pc' = "retrying"
  /\ UNCHANGED <<spawned, available, link, config, resolver, outages>>

\* WIFI_JOIN_RETRY_DELAY is over.
JoinAgain ==
  /\ pc = "retrying"
  /\ pc' = "joining"
  /\ UNCHANGED <<spawned, available, link, config, resolver, outages>>

ConfigIsUp ==
  /\ pc = "config"
  /\ config
  /\ pc' = "link"
  /\ UNCHANGED <<spawned, available, link, config, resolver, outages>>

LinkIsUp ==
  /\ pc = "link"
  /\ link
  /\ pc' = "stack"
  /\ UNCHANGED <<spawned, available, link, config, resolver, outages>>

\* wait_config_up: the first time it ends, rejoin_wifi_routine is spawned.
StackIsUp ==
  /\ pc = "stack"
  /\ config
  /\ spawned' = TRUE
  /\ pc' = "watching"
  /\ UNCHANGED <<available, link, config, resolver, outages>>

\* The link is looked at every WIFI_LINK_CHECK_INTERVAL.
NoticesLinkDown ==
  /\ pc = "watching"
  /\ ~link
  /\ pc' = "joining"
  /\ UNCHANGED <<spawned, available, link, config, resolver, outages>>

-----------------------------------------------------------------------------
\* A query ends with addresses, with an error, or with none; then there is another
\* after 25 s or 500 ms.
QuerySucceeds ==
  /\ spawned
  /\ resolver = "querying"
  /\ config
  /\ resolver' = "resolved"
  /\ UNCHANGED <<pc, spawned, available, link, config, outages>>

QueryFails ==
  /\ spawned
  /\ resolver = "querying"
  /\ ~config
  /\ resolver' = "waiting"
  /\ UNCHANGED <<pc, spawned, available, link, config, outages>>

QueryAgain ==
  /\ resolver = "waiting"
  /\ resolver' = "querying"
  /\ UNCHANGED <<pc, spawned, available, link, config, outages>>

\* A session over a link that is gone ends, and the next attempt starts with a query.
SessionEnds ==
  /\ resolver = "resolved"
  /\ ~config
  /\ resolver' = "querying"
  /\ UNCHANGED <<pc, spawned, available, link, config, outages>>

-----------------------------------------------------------------------------
\* DHCP.
AddressGiven ==
  /\ link
  /\ ~config
  /\ config' = TRUE
  /\ UNCHANGED <<pc, spawned, available, link, resolver, outages>>

\* The stack drops its address with the link.
AccessPointGoes ==
  /\ available
  /\ outages < MaxOutages
  /\ outages' = outages + 1
  /\ available' = FALSE
  /\ link' = FALSE
  /\ config' = FALSE
  /\ UNCHANGED <<pc, spawned, resolver>>

AccessPointReturns ==
  /\ ~available
  /\ available' = TRUE
  /\ UNCHANGED <<pc, spawned, link, config, resolver, outages>>

-----------------------------------------------------------------------------
Routine ==
  \/ JoinSucceeds \/ JoinFails \/ JoinAgain
  \/ ConfigIsUp \/ LinkIsUp \/ StackIsUp \/ NoticesLinkDown

Resolve == QuerySucceeds \/ QueryFails \/ QueryAgain \/ SessionEnds

Network == AddressGiven \/ AccessPointGoes \/ AccessPointReturns

Next == Routine \/ Resolve \/ Network

Spec == Init /\ [][Next]_vars

\* The tasks run, and an access point that answers gives addresses.
FairSpec == Spec /\ WF_vars(Routine) /\ WF_vars(Resolve) /\ WF_vars(AddressGiven)

-----------------------------------------------------------------------------
\* Once rejoin_wifi_routine runs, an access point that is back for good is joined again,
\* and the broker looked up over it, however often and whenever the link was lost.
JoinsAgain == <>spawned /\ <>[]available => <>[](resolver = "resolved")
=============================================================================
