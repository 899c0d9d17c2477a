--------------------------- MODULE EndpointPairing ---------------------------
(***************************************************************************)
(* How an endpoint comes to the node: the registry of heartbeats, offers   *)
(* of discovery, and onboarding over BLE (endpoint/service.py,             *)
(* discovery.py, ble_onboarding.py, ble_wifi_credentials.py), up to the    *)
(* firmware handed to a minimal image (main.py's firmware-handoff).        *)
(*                                                                         *)
(* The onboarding calls Core and the supervisor synchronously: while such  *)
(* a job runs the event loop does nothing else, but Core and the devices   *)
(* move.  Only the handoff waits for the device and lets others run.       *)
(* Core's pairing sessions and the devices are external.  A device's       *)
(* endpoint_id is its device_id; fleet calls, which need no lease, change  *)
(* nothing here and are left out.                                          *)
(***************************************************************************)
EXTENDS Naturals

CONSTANTS Devices, NoDevice, PairingSessions, NoSession, Addresses, NoAddress,
          Networks, NoNetwork,
          MaxLeases,    \* bound: leases granted by Core
          MaxOffers     \* bound: nonces of a device

ASSUME PairingAssumption ==
  /\ NoDevice \notin Devices /\ NoSession \notin PairingSessions /\ NoAddress \notin Addresses
  /\ NoNetwork \notin Networks /\ MaxLeases \in Nat /\ MaxOffers \in Nat \ {0}

Unregistered == [state |-> "none", seen |-> "stale", ip |-> NoAddress, device |-> NoDevice, session |-> NoSession,
                 minimal |-> FALSE, audience |-> "general"]
NoIdentity == [device |-> NoDevice, nonce |-> 0]
NoJob == [kind |-> "none", device |-> NoDevice, key |-> NoIdentity, lease |-> 0, password |-> NoNetwork]
NoHandoff == [device |-> NoDevice, address |-> NoAddress]

VARIABLES
  endpoints,     \* the endpoint registry, a file
  pairings,      \* by session: Core's [status, approved, identity]
  job,           \* the blocking call under way
  leases, stray, \* leases Core has granted; those whose release failed
  credentials,   \* the saved Wi-Fi settings, a file: [ssid, password]
  handoff,       \* by session, the install under way
  nonces,        \* of the devices
  wifi,          \* by device, the network whose password it was given
  home           \* by address, the device that has it

pvars == <<endpoints, pairings, job, leases, stray, credentials, handoff, nonces, wifi, home>>
theDevices == <<nonces, wifi, home>>
access == <<job, leases, stray>>

PairingInit ==
  /\ endpoints = [d \in Devices |-> Unregistered]
  /\ pairings = [s \in PairingSessions |-> [status |-> "none", approved |-> NoDevice, identity |-> NoIdentity]]
  /\ job = NoJob /\ leases = {} /\ stray = {}
  /\ credentials = [ssid |-> NoNetwork, password |-> NoNetwork]
  /\ handoff = [s \in PairingSessions |-> NoHandoff]
  /\ nonces = [d \in Devices |-> 1] /\ wifi = [d \in Devices |-> NoNetwork]
  /\ home \in [Addresses -> Devices]

Free == job.kind = "none"

ConnectionState(record) ==
  IF record.state = "offline" THEN "offline" ELSE IF record.seen = "stale" THEN "stale" ELSE "online"

(* The registry calls a minimal image stale after 15 s already.            *)
HandoffState(record) ==
  IF record.state # "offline" /\ record.minimal THEN "firmware_update_needed"
  ELSE IF ConnectionState(record) = "online" /\ ~ record.minimal THEN "endpoint_online" ELSE "waiting_for_endpoint_online"

-----------------------------------------------------------------------------
(* The registry.                                                           *)

Put(d, record) == endpoints' = [endpoints EXCEPT ![d] = record]

(* record_heartbeat: the capabilities are the sender's; a heartbeat without *)
(* them, or without an address, keeps those known.                         *)
Heartbeat ==
  \E d \in Devices, a \in Addresses \cup {NoAddress}, state \in {"idle", "offline"}, s \in PairingSessions \cup {NoSession}, minimal, told \in BOOLEAN :
    LET known == endpoints[d]
        kept == [known EXCEPT !.state = state, !.seen = "fresh", !.ip = IF a = NoAddress THEN @ ELSE a]
    IN
    /\ Free /\ (a # NoAddress => home[a] = d)
    /\ Put(d, IF told THEN [kept EXCEPT !.device = d, !.session = s, !.minimal = minimal] ELSE kept)
    /\ UNCHANGED <<pairings, access, credentials, handoff, theDevices>>

(* pairing_session_approval_status.                                        *)
Approved(s, d) ==
  /\ pairings[s].status \in {"approved", "consumed"}
  /\ pairings[s].approved = d /\ pairings[s].identity.device = d

DuplicateOnline(d, a) == ConnectionState(endpoints[d]) = "online" /\ endpoints[d].ip \notin {NoAddress, a}

(* offer, over HTTP or UDP.  The record is made anew from the offer and    *)
(* from what it keeps of the one known, which the audience is not part of. *)
Offer ==
  \E d \in Devices, a \in Addresses, s \in PairingSessions \cup {NoSession}, minimal \in BOOLEAN :
    LET known == endpoints[d] IN
    /\ Free /\ (s # NoSession => Approved(s, d)) /\ ~ DuplicateOnline(d, a)
    /\ Put(d, [state |-> IF known.state = "none" THEN "idle" ELSE known.state, seen |-> "fresh", ip |-> a, device |-> d,
               session |-> IF s = NoSession THEN known.session ELSE s, minimal |-> minimal, audience |-> "general"])
    /\ UNCHANGED <<pairings, access, credentials, handoff, theDevices>>

UpdateMetadata ==
  \E d \in Devices, mode \in {"general", "child_safe"} :
    /\ Free /\ endpoints[d].state # "none"
    /\ Put(d, [endpoints[d] EXCEPT !.audience = mode])
    /\ UNCHANGED <<pairings, access, credentials, handoff, theDevices>>

Delete ==
  \E d \in Devices :
    /\ Free /\ endpoints[d].state # "none" /\ Put(d, Unregistered)
    /\ UNCHANGED <<pairings, access, credentials, handoff, theDevices>>

GrowOld ==
  \E d \in Devices :
    /\ endpoints[d].seen = "fresh" /\ Put(d, [endpoints[d] EXCEPT !.seen = "stale"])
    /\ UNCHANGED <<pairings, access, credentials, handoff, theDevices>>

-----------------------------------------------------------------------------
(* Pairing sessions, of which Core decides.                                *)

Pair(s, pairing) ==
  /\ pairings' = [pairings EXCEPT ![s] = pairing]
  /\ UNCHANGED <<endpoints, access, credentials, handoff, theDevices>>

StartPairing ==
  \E s \in PairingSessions :
    /\ Free /\ pairings[s].status = "none" /\ Pair(s, [pairings[s] EXCEPT !.status = "waiting"])

(* The freshest identity a supervisor has read for the session.            *)
IdentityIsRead ==
  \E s \in PairingSessions, d \in Devices :
    /\ pairings[s].status \in {"waiting", "found", "approved"}
    /\ Pair(s, [pairings[s] EXCEPT !.identity = [device |-> d, nonce |-> nonces[d]], !.status = IF @ = "waiting" THEN "found" ELSE @])

ApprovePairing ==
  \E s \in PairingSessions, d \in Devices :
    /\ Free /\ pairings[s].status = "found" /\ Pair(s, [pairings[s] EXCEPT !.status = "approved", !.approved = d])

EndPairing ==
  \E s \in PairingSessions, status \in {"consumed", "expired", "canceled"} :
    /\ pairings[s].status \notin {"none", "consumed", "expired", "canceled"}
    /\ status = "consumed" => pairings[s].status = "approved"
    /\ status = "canceled" => Free
    /\ Pair(s, [pairings[s] EXCEPT !.status = status])

-----------------------------------------------------------------------------
(* Jobs: a lease of Bluetooth from Core, a call of the supervisor, and the *)
(* lease given back.                                                       *)

(* Mutant: the freshest key, whosever it is.                               *)
FreshestKey(s, given) == IF pairings[s].identity.device # NoDevice THEN pairings[s].identity ELSE given

(* _payload_with_latest_pairing_identity: the key the request came with is *)
(* replaced by a fresher one of the same device.                           *)
FreshKey(s, given) ==
  LET identity == pairings[s].identity IN
  IF identity.device = given.device /\ pairings[s].approved \in {NoDevice, given.device} THEN identity ELSE given

(* BleWifiCredentialStore.save: no password given keeps the one there.     *)
Saved(ssid, password) == [ssid |-> ssid, password |-> IF password = NoNetwork THEN credentials.password ELSE password]
SavedPassword(ssid) == IF credentials.ssid = ssid THEN credentials.password ELSE NoNetwork

SaveCredentials ==
  \E ssid \in Networks, password \in Networks \cup {NoNetwork} :
    /\ Free /\ password \in {ssid, NoNetwork} /\ credentials' = Saved(ssid, password)
    /\ UNCHANGED <<endpoints, pairings, access, handoff, theDevices>>

Granted(j) ==
  LET lease == CHOOSE l \in 1 .. MaxLeases : l \notin leases \cup stray IN
  job' = [j EXCEPT !.lease = lease] /\ leases' = leases \cup {lease}

(* Core may also leave the request pending or deny it: then nothing is     *)
(* changed but the credentials saved before.                               *)
RequestAccess(j) ==
  /\ Free
  /\ \/ (leases \cup stray # 1 .. MaxLeases /\ Granted(j))
     \/ UNCHANGED <<job, leases>>
  /\ UNCHANGED <<endpoints, pairings, stray, handoff, theDevices>>

Scan == RequestAccess([NoJob EXCEPT !.kind = "scan"]) /\ UNCHANGED credentials
ReadIdentity == RequestAccess([NoJob EXCEPT !.kind = "identity"]) /\ UNCHANGED credentials

ProvisionWifi ==
  \E s \in PairingSessions, d \in Devices, n \in 1 .. MaxOffers, ssid \in Networks, password \in Networks \cup {NoNetwork}, save \in BOOLEAN :
    LET used == IF password = NoNetwork THEN SavedPassword(ssid) ELSE password IN
    /\ n <= nonces[d] /\ password \in {ssid, NoNetwork}
    /\ credentials' = IF save THEN Saved(ssid, password) ELSE credentials
    /\ RequestAccess([kind |-> "provision", device |-> d, key |-> FreshKey(s, [device |-> d, nonce |-> n]), lease |-> 0, password |-> used])

(* A device takes what is encrypted with its last nonce.                   *)
SupervisorCall ==
  /\ ~ Free /\ job.kind = "provision" /\ job.key.nonce = nonces[job.key.device]
  /\ wifi' = [wifi EXCEPT ![job.key.device] = job.password]
  /\ job' = [job EXCEPT !.kind = "done"]
  /\ UNCHANGED <<endpoints, pairings, leases, stray, credentials, handoff, nonces, home>>

(* Mutant: only the end of a call that succeeded gives the lease back.     *)
ReleaseWhenDone ==
  /\ ~ Free /\ job' = NoJob /\ leases' = IF job.kind = "done" THEN leases \ {job.lease} ELSE leases
  /\ UNCHANGED <<endpoints, pairings, stray, credentials, handoff, theDevices>>

(* Whatever the call has come to: the release is in a finally.             *)
ReleaseLease ==
  \E reached \in BOOLEAN :
    /\ ~ Free /\ job' = NoJob /\ leases' = leases \ {job.lease}
    /\ stray' = IF reached THEN stray ELSE stray \cup {job.lease}
    /\ UNCHANGED <<endpoints, pairings, credentials, handoff, theDevices>>

StrayExpires ==
  \E l \in stray : stray' = stray \ {l} /\ UNCHANGED <<endpoints, pairings, job, leases, credentials, handoff, theDevices>>

-----------------------------------------------------------------------------
(* The firmware handoff.                                                   *)

(* _pairing_handoff: what the registry says of the session's device.       *)
Reported(s, d) == endpoints[d].session = s /\ endpoints[d].device = d

(* Mutant: an endpoint that reports the session is enough.                 *)
BeginUnapproved ==
  \E s \in PairingSessions, d \in Devices :
    /\ Free /\ handoff[s] = NoHandoff /\ Reported(s, d)
    /\ HandoffState(endpoints[d]) = "firmware_update_needed" /\ endpoints[d].ip # NoAddress
    /\ handoff' = [handoff EXCEPT ![s] = [device |-> d, address |-> endpoints[d].ip]]
    /\ UNCHANGED <<endpoints, pairings, access, credentials, theDevices>>

BeginHandoff ==
  \E s \in PairingSessions :
    LET d == pairings[s].identity.device IN
    /\ Free /\ handoff[s] = NoHandoff /\ pairings[s].status = "approved"
    /\ d \in Devices /\ Approved(s, d) /\ Reported(s, d)
    /\ HandoffState(endpoints[d]) = "firmware_update_needed" /\ endpoints[d].ip # NoAddress
    /\ handoff' = [handoff EXCEPT ![s] = [device |-> d, address |-> endpoints[d].ip]]
    /\ UNCHANGED <<endpoints, pairings, access, credentials, theDevices>>

(* The image is installed by whoever has the address, or is refused.       *)
FinishHandoff ==
  \E s \in PairingSessions :
    /\ Free /\ handoff[s] # NoHandoff /\ handoff' = [handoff EXCEPT ![s] = NoHandoff]
    /\ UNCHANGED <<endpoints, pairings, access, credentials, theDevices>>

-----------------------------------------------------------------------------
(* The devices, external.                                                  *)

OffersAgain ==
  \E d \in Devices :
    /\ nonces[d] < MaxOffers /\ nonces' = [nonces EXCEPT ![d] = @ + 1]
    /\ UNCHANGED <<endpoints, pairings, access, credentials, handoff, wifi, home>>

Moves ==
  \E d \in Devices, a \in Addresses :
    /\ home[a] # d /\ home' = [home EXCEPT ![a] = d]
    /\ UNCHANGED <<endpoints, pairings, access, credentials, handoff, nonces, wifi>>

PairingNext ==
  \/ Heartbeat \/ Offer \/ UpdateMetadata \/ Delete \/ GrowOld
  \/ StartPairing \/ IdentityIsRead \/ ApprovePairing \/ EndPairing
  \/ SaveCredentials \/ Scan \/ ReadIdentity \/ ProvisionWifi \/ SupervisorCall \/ ReleaseLease \/ StrayExpires
  \/ BeginHandoff \/ FinishHandoff \/ OffersAgain \/ Moves

PairingSpec == PairingInit /\ [][PairingNext]_pvars

-----------------------------------------------------------------------------
(* The types of the variables.                                             *)
PairingTypeOK ==
  /\ \A d \in Devices : endpoints[d].ip \in Addresses \cup {NoAddress} /\ endpoints[d].seen \in {"fresh", "stale"}
  /\ \A s \in PairingSessions : pairings[s].approved \in Devices \cup {NoDevice}
  /\ leases \cup stray \subseteq 1 .. MaxLeases /\ job.key.nonce \in 0 .. MaxOffers
  /\ credentials.ssid \in Networks \cup {NoNetwork} /\ wifi \in [Devices -> Networks \cup {NoNetwork}]

(* A lease of the Bluetooth adapter that Core has out belongs to the call  *)
(* that is running: whatever way a scan, an identity read or provisioning  *)
(* ends, its lease was given back, or the release was tried and failed.    *)
LeasesAreReturned == leases \subseteq (IF Free THEN {} ELSE {job.lease})

(* Wi-Fi credentials are encrypted for the device the operator asked for,  *)
(* even when the pairing session meanwhile holds another's identity.       *)
SentToTheOneAsked == job.kind \in {"provision", "done"} => job.key.device = job.device

(* A firmware install under way is one of a device that the operator has   *)
(* approved in that session.                                               *)
InstallsWereApproved == \A s \in PairingSessions : handoff[s] # NoHandoff => pairings[s].approved = handoff[s].device

=============================================================================
