-------------------------------- MODULE Services --------------------------------
(***************************************************************************)
(* The Registry of service.go, and the blob operations that resolve their  *)
(* service through it: a blob keeps the name of its service, not the       *)
(* service, and looks it up again in every call.                           *)
(*                                                                         *)
(* Nothing guards the registry's map, so a host configures it between      *)
(* calls and never beside one: an operation is one step here.  Blobs are   *)
(* numbered as they are built, and the number is also the storage key.     *)
(***************************************************************************)
EXTENDS Integers

CONSTANTS
    Disks,       \* services a host may register
    Name,        \* Name[s]: what s.Name() answers
    NoService,   \* ErrServiceNotFound
    MaxBlobs,    \* bound: blobs built
    MaxChanges,  \* bound: changes of the configuration
    MaxFaults    \* bound: service calls that fail

Names == {Name[s] : s \in Disks}

ASSUME NoServiceAssumption == NoService \notin Disks
ASSUME NamesAssumption == "" \notin Names
ASSUME ServiceBoundsAssumption == MaxBlobs \in Nat /\ MaxChanges \in Nat /\ MaxFaults \in Nat

VARIABLES
    services, def,   \* the fields of Registry
    rows,            \* blobs with a row
    objects,         \* objects[s]: the keys service s holds
    built,           \* number of blobs built
    serviceName,     \* serviceName[b]: b.ServiceName
    changes, faults, \* changes and failures so far
    handed,          \* history: blobs returned to the caller that no purge has touched
    purged,          \* history: blobs whose Purge returned nil
    chosen,          \* history: blobs whose creator named the service
    moved            \* history: names registered anew, for another service

registry == <<services, def, changes, moved>>
vars == <<registry, rows, objects, built, serviceName, faults, handed, purged, chosen>>

\* NewRegistry.
Init ==
    /\ services = [n \in Names |-> NoService] /\ def = ""
    /\ rows = {} /\ objects = [s \in Disks |-> {}]
    /\ built = 0 /\ serviceName = [b \in 1 .. MaxBlobs |-> ""]
    /\ changes = 0 /\ faults = 0
    /\ handed = {} /\ purged = {} /\ chosen = {} /\ moved = {}

-----------------------------------------------------------------------------
(* Registry.                                                                *)

Change == changes < MaxChanges /\ changes' = changes + 1

\* Faulty variant: a service goes under the default's name, once there is one.
UnderDefault(s) == IF def = "" THEN Name[s] ELSE def

\* The name a service is registered under.
Under(s) == Name[s]

\* The first service registered becomes the default.
Register == \E s \in Disks :
    /\ Change
    /\ services' = [services EXCEPT ![Under(s)] = s]
    /\ def' = IF def = "" THEN Name[s] ELSE def
    /\ moved' = IF services[Name[s]] \in {NoService, s} THEN moved
                ELSE moved \union {Name[s]}
    /\ UNCHANGED <<rows, objects, built, serviceName, faults, handed, purged, chosen>>

\* SetDefault takes any name, registered or not.
SetDefault == \E n \in Names \union {""} :
    /\ Change
    /\ def' = n
    /\ UNCHANGED <<services, moved, rows, objects, built, serviceName, faults,
                   handed, purged, chosen>>

Fetch(n) == IF n \in Names THEN services[n] ELSE NoService
Default == IF def = "" THEN NoService ELSE Fetch(def)

-----------------------------------------------------------------------------
(* Blobs.                                                                   *)

\* Faulty variant: a blob belongs to whatever is the default now.
ServiceOfDefault(b) == Default

\* Blob.Service.
ServiceOf(b) == Fetch(serviceName[b])

\* Faulty variant: the default's name is taken unseen.
BuildNameUnseen(n) == IF n = "" THEN def ELSE n

\* The service name buildBlob gives a blob that asks for n: its own wish, taken
\* unseen, or the name of the default service; "" where there is none, an error.
BuildName(n) ==
    CASE n # "" -> n
      [] n = "" /\ Default # NoService -> Name[Default]
      [] OTHER -> ""

Fail == faults < MaxFaults /\ faults' = faults + 1

\* CreateAndUpload (saves) and BuildAfterUpload: the row comes before the service
\* is looked up, and stays when that fails or the upload does.
Create == \E n \in Names \union {""}, saves \in BOOLEAN :
    LET b == built + 1
        s == Fetch(BuildName(n))
    IN  /\ built < MaxBlobs /\ BuildName(n) # ""
        /\ built' = b
        /\ serviceName' = [serviceName EXCEPT ![b] = BuildName(n)]
        /\ rows' = IF saves THEN rows \union {b} ELSE rows
        /\ chosen' = IF n # "" THEN chosen \union {b} ELSE chosen
        /\ \/ /\ s # NoService
              /\ objects' = [objects EXCEPT ![s] = @ \union {b}]
              /\ handed' = handed \union {b}
              /\ UNCHANGED faults
           \/ s = NoService /\ UNCHANGED <<objects, handed, faults>>
           \/ s # NoService /\ Fail /\ UNCHANGED <<objects, handed>>
        /\ UNCHANGED <<registry, purged>>

\* Blob.Purge: the object, then the row; without its service it changes nothing.
Purge == \E b \in handed \union rows :
    /\ ServiceOf(b) # NoService
    /\ \/ /\ objects' = [objects EXCEPT ![ServiceOf(b)] = @ \ {b}]
          /\ purged' = IF b \in rows THEN purged \union {b} ELSE purged
          /\ rows' = rows \ {b}
          /\ UNCHANGED faults
       \/ Fail /\ UNCHANGED <<rows, objects, purged>>
    /\ handed' = handed \ {b}
    /\ UNCHANGED <<registry, built, serviceName, chosen>>

Next == Register \/ SetDefault \/ Create \/ Purge

Spec == Init /\ [][Next]_vars

-----------------------------------------------------------------------------

RegistryTypeOK ==
    /\ services \in [Names -> Disks \union {NoService}]
    /\ def \in Names \union {""} /\ moved \subseteq Names

\* A service is registered under its own name.
OwnNames == \A n \in Names : services[n] # NoService => Name[services[n]] = n

BlobTypeOK ==
    /\ built \in 0 .. MaxBlobs
    /\ rows \subseteq 1 .. built /\ handed \subseteq 1 .. built
    /\ purged \subseteq 1 .. built /\ chosen \subseteq 1 .. built
    /\ objects \in [Disks -> SUBSET (1 .. built)]
    /\ serviceName \in [1 .. MaxBlobs -> Names \union {""}]

CountTypeOK == changes \in 0 .. MaxChanges /\ faults \in 0 .. MaxFaults

\* Every variable keeps its type, and services their names.
TypeOK == RegistryTypeOK /\ OwnNames /\ BlobTypeOK /\ CountTypeOK

\* A blob finds its bytes through its ServiceName however the default changes and
\* whatever else is registered, and a Purge that returns nil leaves them on no
\* service; until another service takes that very name.
BytesFollowName ==
    \A b \in handed \union purged : serviceName[b] \notin moved =>
        /\ b \in handed => ServiceOf(b) # NoService /\ b \in objects[ServiceOf(b)]
        /\ b \in purged => \A s \in Disks : b \notin objects[s]

\* A blob that took the default service can always be purged, and its row lacks
\* bytes only if a service failed; one whose creator named a service that was not
\* registered is a row nothing can use.
DefaultServiceServes ==
    \A b \in rows \ chosen :
        /\ ServiceOf(b) # NoService
        /\ faults = 0 => \E s \in Disks : b \in objects[s]
=============================================================================
