----------------------------- MODULE ServicesProofs -----------------------------
(***************************************************************************)
(* A blob and its bytes, for any number of services, names and blobs.      *)
(*                                                                         *)
(* The bytes of a blob are where its ServiceName leads (HomeOK): a name    *)
(* leads to no service, then to one, and to another only if it is in       *)
(* moved.  The blobs handed out and those purged are different ones        *)
(* (ApartOK), as a blob once purged is nobody's result again.              *)
(***************************************************************************)
EXTENDS Services, TLAPS

HomeOK == \A b \in 1 .. built, s \in Disks :
    b \in objects[s] /\ serviceName[b] \notin moved => s = ServiceOf(b)

ApartOK == handed \intersect purged = {}

NamedOK == \A b \in 1 .. built : serviceName[b] \in Names

Inv == TypeOK /\ NamedOK /\ HomeOK /\ ApartOK /\ BytesFollowName /\ DefaultServiceServes

-----------------------------------------------------------------------------

LEMMA InvInit == Init => Inv
  <1> SUFFICES ASSUME Init PROVE Inv
    OBVIOUS
  <1>1. built = 0 /\ changes = 0 /\ faults = 0
    BY DEF Init
  <1>2. built \in 0 .. MaxBlobs /\ CountTypeOK
    BY <1>1, ServiceBoundsAssumption DEF CountTypeOK
  <1>3. /\ rows = {} /\ handed = {} /\ purged = {} /\ chosen = {}
        /\ objects = [s \in Disks |-> {}]
        /\ serviceName \in [1 .. MaxBlobs -> Names \union {""}]
    BY DEF Init
  <1>4. RegistryTypeOK /\ OwnNames
    BY DEF Init, RegistryTypeOK, OwnNames
  <1>5. TypeOK
    BY <1>2, <1>3, <1>4 DEF TypeOK, BlobTypeOK
  <1>6. 1 .. built = {}
    BY <1>1
  <1> QED BY <1>3, <1>5, <1>6 DEF Inv, NamedOK, HomeOK, ApartOK, BytesFollowName,
                                  DefaultServiceServes

\* What a name leads to.
LEMMA FetchOK ==
  ASSUME RegistryTypeOK, NEW n \in Names
  PROVE  Fetch(n) = services[n] /\ Fetch(n) \in Disks \union {NoService}
  BY DEF RegistryTypeOK, Fetch

\* The name a blob is built with leads to a service, if it was taken from the default.
LEMMA BuildNameOK ==
  ASSUME RegistryTypeOK, OwnNames, NEW n \in Names \union {""}, BuildName(n) # ""
  PROVE  /\ BuildName(n) \in Names
         /\ n = "" => Fetch(BuildName(n)) # NoService
  <1>1. CASE n # ""
    BY <1>1 DEF BuildName
  <1>2. CASE n = ""
    <2>1. Default # NoService /\ BuildName(n) = Name[Default]
      BY <1>2 DEF BuildName
    <2>2. def \in Names /\ Default = services[def]
      BY <2>1 DEF Default, Fetch, RegistryTypeOK
    <2>3. Name[Default] = def
      BY <2>1, <2>2 DEF OwnNames
    <2> QED BY <1>2, <2>1, <2>2, <2>3, FetchOK
  <1> QED BY <1>1, <1>2

-----------------------------------------------------------------------------
(* One lemma for each action.                                               *)

LEMMA ChangeCounts ==
  ASSUME CountTypeOK, Change, UNCHANGED faults
  PROVE  CountTypeOK'
  BY ServiceBoundsAssumption DEF CountTypeOK, Change

LEMMA BlobTypesKept ==
  ASSUME BlobTypeOK, UNCHANGED <<rows, objects, built, serviceName, handed, purged, chosen>>
  PROVE  BlobTypeOK'
  <1>1. serviceName' \in [1 .. MaxBlobs -> Names \union {""}]
    BY Zenon DEF BlobTypeOK
  <1>2. /\ built' \in 0 .. MaxBlobs /\ objects' \in [Disks -> SUBSET (1 .. built')]
        /\ rows' \subseteq 1 .. built' /\ handed' \subseteq 1 .. built'
        /\ purged' \subseteq 1 .. built' /\ chosen' \subseteq 1 .. built'
    BY Zenon DEF BlobTypeOK
  <1> QED BY <1>1, <1>2, Zenon DEF BlobTypeOK

LEMMA RegisterStep == Inv /\ Register => Inv'
  <1> SUFFICES ASSUME Inv, Register PROVE Inv'
    OBVIOUS
  <1>1. PICK s \in Disks :
          /\ Change
          /\ services' = [services EXCEPT ![Name[s]] = s]
          /\ def' = IF def = "" THEN Name[s] ELSE def
          /\ moved' = IF services[Name[s]] \in {NoService, s} THEN moved
                      ELSE moved \union {Name[s]}
    BY DEF Register, Under
  <1>2. UNCHANGED <<rows, objects, built, serviceName, faults, handed, purged, chosen>>
    BY DEF Register
  <1>3. Name[s] \in Names
    BY DEF Names
  <1>4. RegistryTypeOK'
    BY <1>1, <1>3 DEF Inv, TypeOK, RegistryTypeOK
  <1>5. OwnNames'
    BY <1>1, <1>3 DEF Inv, TypeOK, RegistryTypeOK, OwnNames
  <1>6. BlobTypeOK'
    BY <1>2, BlobTypesKept DEF Inv, TypeOK
  <1>7. CountTypeOK'
    BY <1>1, <1>2, ChangeCounts DEF Inv, TypeOK
  <1>8. NamedOK' /\ ApartOK'
    BY <1>2 DEF Inv, NamedOK, ApartOK
  <1>9. ASSUME NEW b \in 1 .. built
        PROVE  /\ ServiceOf(b) # NoService => ServiceOf(b)' # NoService
               /\ serviceName[b] \notin moved' /\ ServiceOf(b) # NoService =>
                    serviceName[b] \notin moved /\ ServiceOf(b)' = ServiceOf(b)
    <2> DEFINE n == serviceName[b]
    <2>1. n \in Names
      BY DEF Inv, NamedOK
    <2>2. ServiceOf(b) = services[n] /\ ServiceOf(b)' = services'[n]
      BY <1>2, <2>1 DEF ServiceOf, Fetch
    <2>3. services'[n] = IF n = Name[s] THEN s ELSE services[n]
      BY <1>1, <2>1 DEF Inv, TypeOK, RegistryTypeOK
    <2> HIDE DEF n
    <2>4. /\ services[n] # NoService => services'[n] # NoService
          /\ n \notin moved' /\ services[n] # NoService =>
               n \notin moved /\ services'[n] = services[n]
      BY <1>1, <2>3, NoServiceAssumption
    <2> QED BY <2>2, <2>4 DEF n
  <1>10. rows \subseteq 1 .. built /\ handed \subseteq 1 .. built /\ purged \subseteq 1 .. built
    BY DEF Inv, TypeOK, BlobTypeOK
  <1>11. moved \subseteq moved'
    BY <1>1
  <1>12. HomeOK'
    BY <1>2, <1>9, <1>11, NoServiceAssumption DEF Inv, HomeOK
  <1>13. BytesFollowName'
    BY <1>2, <1>9, <1>10, <1>11 DEF Inv, BytesFollowName
  <1>14. DefaultServiceServes'
    BY <1>2, <1>9, <1>10 DEF Inv, DefaultServiceServes
  <1> QED BY <1>4, <1>5, <1>6, <1>7, <1>8, <1>12, <1>13, <1>14 DEF Inv, TypeOK

LEMMA SetDefaultStep == Inv /\ SetDefault => Inv'
  <1> SUFFICES ASSUME Inv, SetDefault PROVE Inv'
    OBVIOUS
  <1>1. def' \in Names \union {""} /\ Change
    BY DEF SetDefault
  <1>2. UNCHANGED <<services, moved, rows, objects, built, serviceName, faults,
                    handed, purged, chosen>>
    BY DEF SetDefault
  <1>3. TypeOK'
    <2>1. CountTypeOK'
      BY <1>1, <1>2, ChangeCounts DEF Inv, TypeOK
    <2>2. BlobTypeOK'
      BY <1>2, BlobTypesKept DEF Inv, TypeOK
    <2> QED BY <1>1, <1>2, <2>1, <2>2 DEF Inv, TypeOK, RegistryTypeOK, OwnNames
  <1> QED BY <1>2, <1>3 DEF Inv, NamedOK, HomeOK, ApartOK, BytesFollowName,
                            DefaultServiceServes, ServiceOf, Fetch

\* What a step of Create does, without the names: b is built, and s is the service
\* its name leads to.
LEMMA CreateEffect ==
  ASSUME Inv, Create
  PROVE  \E m, s, b :
           /\ m \in Names /\ s \in Disks \union {NoService} /\ b = built + 1
           /\ s = Fetch(m) /\ built < MaxBlobs /\ built' = b
           /\ serviceName' = [serviceName EXCEPT ![b] = m]
           /\ rows' = rows \/ rows' = rows \union {b}
           /\ chosen' = chosen \/ chosen' = chosen \union {b}
           /\ s = NoService => b \in chosen'
           /\ \/ /\ s # NoService
                 /\ objects' = [objects EXCEPT ![s] = @ \union {b}]
                 /\ handed' = handed \union {b}
                 /\ faults' = faults
              \/ s = NoService /\ UNCHANGED <<objects, handed, faults>>
              \/ s # NoService /\ Fail /\ UNCHANGED <<objects, handed>>
           /\ UNCHANGED <<registry, purged>>
  <1>1. PICK n \in Names \union {""}, saves \in BOOLEAN :
          LET b == built + 1
              s == Fetch(BuildName(n))
          IN  /\ built < MaxBlobs /\ BuildName(n) # ""
              /\ built' = b
              /\ serviceName' = [serviceName EXCEPT ![b] = BuildName(n)]
              /\ rows' = IF saves THEN rows \union {b} ELSE rows
              /\ chosen' = IF n # "" THEN chosen \union {b} ELSE chosen
              /\ \/ /\ s # NoService
                    /\ objects' = [objects EXCEPT ![s] = @ \union {b}]
                    /\ handed' = handed \union {b}
                    /\ UNCHANGED faults
                 \/ s = NoService /\ UNCHANGED <<objects, handed, faults>>
                 \/ s # NoService /\ Fail /\ UNCHANGED <<objects, handed>>
              /\ UNCHANGED <<registry, purged>>
    BY Zenon DEF Create
  <1> DEFINE m == BuildName(n)
             s == Fetch(m)
             b == built + 1
  <1>2. m \in Names /\ (n = "" => s # NoService) /\ s \in Disks \union {NoService}
    BY <1>1, BuildNameOK, FetchOK DEF Inv, TypeOK
  <1>3. s = NoService => b \in chosen'
    BY Zenon, <1>1, <1>2
  <1> QED BY Zenon, <1>1, <1>2, <1>3

LEMMA FailCounts ==
  ASSUME CountTypeOK, Fail, UNCHANGED changes
  PROVE  CountTypeOK' /\ faults' # 0
  BY ServiceBoundsAssumption DEF CountTypeOK, Fail

\* What storing the key b on service s changes, and what leaving everything does.
LEMMA StoreOne ==
  ASSUME NEW old, NEW b, b \notin old, NEW s \in Disks,
         NEW f \in [Disks -> SUBSET old], NEW g, g = [f EXCEPT ![s] = @ \union {b}]
  PROVE  /\ g \in [Disks -> SUBSET (old \union {b})]
         /\ b \in g[s]
         /\ \A t \in Disks : /\ f[t] \subseteq g[t]
                             /\ g[t] \subseteq f[t] \union {b}
                             /\ b \in g[t] => t = s
  OBVIOUS

LEMMA StoreNone ==
  ASSUME NEW old, NEW b, b \notin old, NEW f \in [Disks -> SUBSET old]
  PROVE  /\ f \in [Disks -> SUBSET (old \union {b})]
         /\ \A t \in Disks : b \notin f[t]
  OBVIOUS

LEMMA CreateStep == Inv /\ Create => Inv'
  <1> SUFFICES ASSUME Inv, Create PROVE Inv'
    OBVIOUS
  <1>1. PICK m, s, b :
           /\ m \in Names /\ s \in Disks \union {NoService} /\ b = built + 1
           /\ s = Fetch(m) /\ built < MaxBlobs /\ built' = b
           /\ serviceName' = [serviceName EXCEPT ![b] = m]
           /\ rows' = rows \/ rows' = rows \union {b}
           /\ chosen' = chosen \/ chosen' = chosen \union {b}
           /\ s = NoService => b \in chosen'
           /\ \/ /\ s # NoService
                 /\ objects' = [objects EXCEPT ![s] = @ \union {b}]
                 /\ handed' = handed \union {b}
                 /\ faults' = faults
              \/ s = NoService /\ UNCHANGED <<objects, handed, faults>>
              \/ s # NoService /\ Fail /\ UNCHANGED <<objects, handed>>
           /\ UNCHANGED <<registry, purged>>
    BY CreateEffect
  <1>2. UNCHANGED <<services, def, changes, moved, purged>>
    BY <1>1 DEF registry
  <1>3. /\ rows \subseteq 1 .. built /\ handed \subseteq 1 .. built
        /\ purged \subseteq 1 .. built /\ chosen \subseteq 1 .. built
        /\ objects \in [Disks -> SUBSET (1 .. built)]
        /\ serviceName \in [1 .. MaxBlobs -> Names \union {""}]
        /\ built \in 0 .. MaxBlobs
    BY Zenon DEF Inv, TypeOK, BlobTypeOK
  <1>4. /\ built' \in 0 .. MaxBlobs /\ b \in 1 .. MaxBlobs /\ b \notin 1 .. built
        /\ 1 .. built' = (1 .. built) \union {b} /\ 1 .. built \subseteq 1 .. MaxBlobs
    <2>1. b = built + 1 /\ built' = b /\ built < MaxBlobs /\ built \in 0 .. MaxBlobs
      BY Zenon, <1>1, <1>3
    <2> QED BY <2>1, ServiceBoundsAssumption
  <1>5. /\ serviceName' \in [1 .. MaxBlobs -> Names \union {""}]
        /\ serviceName'[b] = m
        /\ \A c \in 1 .. built : serviceName'[c] = serviceName[c]
    <2> HIDE DEF Names
    <2> QED BY Zenon, <1>1, <1>3, <1>4
  <1>6. ServiceOf(b)' = s /\ \A c \in 1 .. built : ServiceOf(c)' = ServiceOf(c)
    <2>1. s = Fetch(m) /\ services' = services
      BY <1>1, <1>2
    <2> QED BY Zenon, <1>5, <2>1 DEF ServiceOf, Fetch
  <1>7. /\ objects' \in [Disks -> SUBSET (1 .. built')]
        /\ \A t \in Disks : /\ objects[t] \subseteq objects'[t]
                            /\ objects'[t] \subseteq objects[t] \union {b}
                            /\ b \in objects'[t] => t = s
        /\ handed' = handed \/ handed' = handed \union {b}
        /\ b \in handed' => s # NoService /\ b \in objects'[s]
    <2>1. /\ b \notin 1 .. built /\ handed \subseteq 1 .. built
          /\ objects \in [Disks -> SUBSET (1 .. built)]
          /\ 1 .. built' = (1 .. built) \union {b}
      BY Zenon, <1>3, <1>4
    <2>2. CASE UNCHANGED <<objects, handed>>
      BY Zenon, <2>1, <2>2, StoreNone
    <2>3. CASE /\ s # NoService
               /\ objects' = [objects EXCEPT ![s] = @ \union {b}]
               /\ handed' = handed \union {b}
      <3>1. s \in Disks
        BY Zenon, <1>1, <2>3
      <3> DEFINE old == 1 .. built
      <3> HIDE DEF old
      <3>2. b \notin old /\ objects \in [Disks -> SUBSET old]
        BY Zenon, <2>1 DEF old
      <3>3. /\ objects' \in [Disks -> SUBSET (old \union {b})]
            /\ b \in objects'[s]
            /\ \A t \in Disks : /\ objects[t] \subseteq objects'[t]
                                /\ objects'[t] \subseteq objects[t] \union {b}
                                /\ b \in objects'[t] => t = s
        BY <2>3, <3>1, <3>2, StoreOne
      <3> QED BY Zenon, <2>1, <2>3, <3>3 DEF old
    <2> QED BY Zenon, <1>1, <2>2, <2>3
  <1>8. CountTypeOK' /\ (faults' = 0 => faults = 0)
    <2>1. CASE Fail
      BY <1>2, <2>1, FailCounts DEF Inv, TypeOK
    <2>2. CASE faults' = faults
      BY <1>2, <2>2 DEF Inv, TypeOK, CountTypeOK
    <2> QED BY <1>1, <2>1, <2>2
  <1>9. faults' = 0 /\ s # NoService => b \in objects'[s]
    <2>1. Fail => faults' # 0
      BY <1>2, FailCounts DEF Inv, TypeOK
    <2> QED BY <1>1, <1>3, <2>1
  <1>10. TypeOK'
    <2>1. BlobTypeOK'
      <3>1. /\ rows' \subseteq 1 .. built' /\ handed' \subseteq 1 .. built'
            /\ purged' \subseteq 1 .. built' /\ chosen' \subseteq 1 .. built'
        BY <1>1, <1>2, <1>3, <1>4, <1>7
      <3> QED BY Zenon, <1>4, <1>5, <1>7, <3>1 DEF BlobTypeOK
    <2>2. RegistryTypeOK' /\ OwnNames'
      BY <1>2 DEF Inv, TypeOK, RegistryTypeOK, OwnNames
    <2> QED BY <1>8, <2>1, <2>2 DEF TypeOK
  <1>11. NamedOK'
    BY Zenon, <1>1, <1>4, <1>5 DEF Inv, NamedOK
  <1>12. HomeOK'
    <2> SUFFICES ASSUME NEW c \in 1 .. built', NEW t \in Disks, c \in objects'[t],
                        serviceName'[c] \notin moved
                 PROVE  t = ServiceOf(c)'
      BY <1>2 DEF HomeOK
    <2>1. CASE c = b
      BY Zenon, <1>6, <1>7, <2>1
    <2>2. CASE c # b
      <3>1. c \in 1 .. built /\ c \in objects[t]
        BY Zenon, <1>4, <1>7, <2>2
      <3> QED BY Zenon, <1>5, <1>6, <3>1 DEF Inv, HomeOK
    <2> QED BY <2>1, <2>2
  <1>13. ApartOK'
    BY <1>2, <1>3, <1>4, <1>7 DEF Inv, ApartOK
  <1>14. BytesFollowName'
    <2> SUFFICES ASSUME NEW c \in handed' \union purged, serviceName'[c] \notin moved
                 PROVE  /\ c \in handed' => ServiceOf(c)' # NoService
                                           /\ c \in objects'[ServiceOf(c)']
                        /\ c \in purged => \A t \in Disks : c \notin objects'[t]
      BY <1>2 DEF BytesFollowName
    <2>1. CASE c = b
      BY <1>3, <1>4, <1>6, <1>7, <2>1
    <2>2. CASE c # b
      <3>1. c \in handed \union purged /\ c \in 1 .. built /\ (c \in handed' => c \in handed)
        BY <1>3, <1>7, <2>2
      <3>2. ServiceOf(c)' = ServiceOf(c) /\ serviceName[c] \notin moved
        BY <1>5, <1>6, <3>1
      <3>3. /\ c \in handed => ServiceOf(c) # NoService /\ c \in objects[ServiceOf(c)]
            /\ c \in purged => \A t \in Disks : c \notin objects[t]
        BY <3>1, <3>2 DEF Inv, BytesFollowName
      <3>4. c \in handed => ServiceOf(c) \in Disks
        BY <3>1, <3>3, FetchOK DEF ServiceOf, Inv, TypeOK, NamedOK
      <3> QED BY <1>7, <2>2, <3>1, <3>2, <3>3, <3>4
    <2> QED BY <2>1, <2>2
  <1>15. DefaultServiceServes'
    <2> SUFFICES ASSUME NEW c \in rows' \ chosen'
                 PROVE  /\ ServiceOf(c)' # NoService
                        /\ faults' = 0 => \E t \in Disks : c \in objects'[t]
      BY DEF DefaultServiceServes
    <2>1. CASE c = b
      BY <1>1, <1>6, <1>9, <2>1
    <2>2. CASE c # b
      <3>1. c \in rows \ chosen /\ c \in 1 .. built
        BY <1>1, <1>3, <2>2
      <3> QED BY <1>6, <1>7, <1>8, <3>1 DEF Inv, DefaultServiceServes
    <2> QED BY <2>1, <2>2
  <1> QED BY <1>10, <1>11, <1>12, <1>13, <1>14, <1>15 DEF Inv

\* What Purge leaves of the objects: only b goes, and only from where its name leads.
LEMMA RemoveOne ==
  ASSUME NEW old, NEW b, NEW u \in Disks,
         NEW f \in [Disks -> SUBSET old], NEW g, g = [f EXCEPT ![u] = @ \ {b}]
  PROVE  /\ g \in [Disks -> SUBSET old]
         /\ b \notin g[u]
         /\ \A t \in Disks : g[t] \subseteq f[t] /\ f[t] \subseteq g[t] \union {b}
  OBVIOUS

LEMMA PurgeStep == Inv /\ Purge => Inv'
  <1> SUFFICES ASSUME Inv, Purge PROVE Inv'
    OBVIOUS
  <1>1. PICK b \in handed \union rows :
          /\ ServiceOf(b) # NoService
          /\ \/ /\ objects' = [objects EXCEPT ![ServiceOf(b)] = @ \ {b}]
                /\ purged' = IF b \in rows THEN purged \union {b} ELSE purged
                /\ rows' = rows \ {b}
                /\ UNCHANGED faults
             \/ Fail /\ UNCHANGED <<rows, objects, purged>>
          /\ handed' = handed \ {b}
          /\ UNCHANGED <<registry, built, serviceName, chosen>>
    BY Zenon DEF Purge
  <1>2. UNCHANGED <<services, def, changes, moved, built, serviceName, chosen>>
    BY <1>1 DEF registry
  <1>3. /\ rows \subseteq 1 .. built /\ handed \subseteq 1 .. built
        /\ purged \subseteq 1 .. built /\ chosen \subseteq 1 .. built
        /\ objects \in [Disks -> SUBSET (1 .. built)]
        /\ built \in 0 .. MaxBlobs
        /\ serviceName \in [1 .. MaxBlobs -> Names \union {""}]
    BY Zenon DEF Inv, TypeOK, BlobTypeOK
  <1>4. b \in 1 .. built /\ ServiceOf(b) \in Disks
    <2>1. b \in 1 .. built
      BY Zenon, <1>3
    <2>2. serviceName[b] \in Names
      BY Zenon, <2>1 DEF Inv, NamedOK
    <2> QED BY Zenon, <1>1, <2>1, <2>2, FetchOK DEF ServiceOf, Inv, TypeOK
  <1>5. \A c : ServiceOf(c)' = ServiceOf(c)
    BY Zenon, <1>2 DEF ServiceOf, Fetch
  <1>6. /\ objects' \in [Disks -> SUBSET (1 .. built)]
        /\ \A t \in Disks : objects'[t] \subseteq objects[t] /\ objects[t] \subseteq objects'[t] \union {b}
    <2> DEFINE old == 1 .. built
    <2>1. objects \in [Disks -> SUBSET old]
      BY <1>3
    <2> HIDE DEF old
    <2>2. CASE UNCHANGED objects
      BY <2>1, <2>2 DEF old
    <2>3. CASE objects' = [objects EXCEPT ![ServiceOf(b)] = @ \ {b}]
      <3>1. ServiceOf(b) \in Disks
        BY Zenon, <1>4
      <3>2. /\ objects' \in [Disks -> SUBSET old]
            /\ \A t \in Disks : /\ objects'[t] \subseteq objects[t]
                                /\ objects[t] \subseteq objects'[t] \union {b}
        BY <2>1, <2>3, <3>1, RemoveOne
      <3> QED BY Zenon, <3>2 DEF old
    <2> QED BY Zenon, <1>1, <2>2, <2>3
  <1>7. b \notin purged' \/ UNCHANGED purged \/ b \notin objects'[ServiceOf(b)]
    <2>1. CASE objects' = [objects EXCEPT ![ServiceOf(b)] = @ \ {b}]
      BY Zenon, <1>3, <1>4, <2>1, RemoveOne
    <2>2. CASE UNCHANGED purged
      BY <2>2
    <2> QED BY Zenon, <1>1, <2>1, <2>2
  <1>8. /\ rows' \subseteq rows /\ handed' = handed \ {b}
        /\ purged \subseteq purged' /\ purged' \subseteq purged \union {b}
    BY Zenon, <1>1
  <1>9. CountTypeOK' /\ (faults' = 0 => faults = 0 /\ b \notin rows')
    <2>1. CASE Fail
      BY <1>2, <2>1, FailCounts DEF Inv, TypeOK
    <2>2. CASE UNCHANGED faults /\ rows' = rows \ {b}
      BY <1>2, <2>2 DEF Inv, TypeOK, CountTypeOK
    <2> QED BY Zenon, <1>1, <2>1, <2>2
  <1>10. TypeOK'
    <2>1. /\ rows' \subseteq 1 .. built /\ handed' \subseteq 1 .. built
          /\ purged' \subseteq 1 .. built
      BY Zenon, <1>3, <1>4, <1>8
    <2>2. BlobTypeOK'
      BY Zenon, <1>2, <1>3, <1>6, <2>1 DEF BlobTypeOK
    <2>3. RegistryTypeOK' /\ OwnNames'
      BY <1>2 DEF Inv, TypeOK, RegistryTypeOK, OwnNames
    <2> QED BY <1>9, <2>2, <2>3 DEF TypeOK
  <1>11. NamedOK'
    BY Zenon, <1>2 DEF Inv, NamedOK
  <1>12. HomeOK'
    BY Zenon, <1>2, <1>5, <1>6 DEF Inv, HomeOK
  <1>13. ApartOK'
    BY Zenon, <1>8 DEF Inv, ApartOK
  <1>14. BytesFollowName'
    <2> SUFFICES ASSUME NEW c \in handed' \union purged', serviceName[c] \notin moved
                 PROVE  /\ c \in handed' => ServiceOf(c) # NoService
                                           /\ c \in objects'[ServiceOf(c)]
                        /\ c \in purged' => \A t \in Disks : c \notin objects'[t]
      BY Zenon, <1>2, <1>5 DEF BytesFollowName
    <2>1. ASSUME c \in handed'
          PROVE  ServiceOf(c) # NoService /\ c \in objects'[ServiceOf(c)]
      <3>1. c \in handed /\ c # b
        BY Zenon, <1>8, <2>1
      <3>2. ServiceOf(c) # NoService /\ c \in objects[ServiceOf(c)]
        BY Zenon, <3>1 DEF Inv, BytesFollowName
      <3>3. ServiceOf(c) \in Disks
        BY Zenon, <1>3, <3>1, <3>2, FetchOK DEF ServiceOf, Inv, TypeOK, NamedOK
      <3> QED BY Zenon, <1>6, <3>1, <3>2, <3>3
    <2>2. ASSUME c \in purged', NEW t \in Disks PROVE c \notin objects'[t]
      <3>1. CASE c \in purged
        <4>1. c \notin objects[t]
          BY Zenon, <3>1 DEF Inv, BytesFollowName
        <4> QED BY Zenon, <1>6, <4>1
      <3>2. CASE c \notin purged
        <4>1. c = b /\ b \notin objects'[ServiceOf(b)]
          BY Zenon, <1>7, <1>8, <2>2, <3>2
        <4>2. b \in objects[t] => t = ServiceOf(b)
          BY Zenon, <1>4, <4>1 DEF Inv, HomeOK
        <4> QED BY Zenon, <1>6, <4>1, <4>2
      <3> QED BY <3>1, <3>2
    <2> QED BY <2>1, <2>2
  <1>15. DefaultServiceServes'
    <2> SUFFICES ASSUME NEW c \in rows' \ chosen
                 PROVE  /\ ServiceOf(c) # NoService
                        /\ faults' = 0 => \E t \in Disks : c \in objects'[t]
      BY Zenon, <1>2, <1>5 DEF DefaultServiceServes
    <2>1. c \in rows \ chosen
      BY Zenon, <1>8
    <2>2. /\ ServiceOf(c) # NoService
          /\ faults = 0 => \E t \in Disks : c \in objects[t]
      BY Zenon, <2>1 DEF Inv, DefaultServiceServes
    <2>3. faults' = 0 => faults = 0 /\ c # b
      BY Zenon, <1>9
    <2> QED BY Zenon, <1>6, <2>2, <2>3
  <1> QED BY <1>10, <1>11, <1>12, <1>13, <1>14, <1>15 DEF Inv

LEMMA StutterStep == Inv /\ UNCHANGED vars => Inv'
  BY DEF Inv, TypeOK, RegistryTypeOK, OwnNames, BlobTypeOK, CountTypeOK, NamedOK, HomeOK,
         ApartOK, BytesFollowName, DefaultServiceServes, ServiceOf, Fetch, vars, registry

LEMMA InvStep == Inv /\ [Next]_vars => Inv'
  BY RegisterStep, SetDefaultStep, CreateStep, PurgeStep, StutterStep DEF Next

LEMMA Invariance == Spec => []Inv
  <1>1. Init => Inv
    BY InvInit
  <1>2. Inv /\ [Next]_vars => Inv'
    BY InvStep
  <1> QED BY <1>1, <1>2, PTL DEF Spec

\* Every variable keeps its type, and every name of the registry leads to a service
\* of that name, in every history of registrations and of blobs.
THEOREM ServicesTypeCorrect == Spec => []TypeOK
  <1>1. Inv => TypeOK
    BY DEF Inv
  <1> QED BY <1>1, Invariance, PTL

\* Blob.Service finds the bytes of every blob handed out, and a Purge that returned nil
\* has left them on no service, however the registry's default changes, for any number
\* of services, blobs and failures.
THEOREM BytesFollow == Spec => []BytesFollowName
  <1>1. Inv => BytesFollowName
    BY DEF Inv
  <1> QED BY <1>1, Invariance, PTL

\* A row buildBlob made for the default service can always be purged, and is without its
\* bytes only after a failed upload or delete.
THEOREM DefaultServes == Spec => []DefaultServiceServes
  <1>1. Inv => DefaultServiceServes
    BY DEF Inv
  <1> QED BY <1>1, Invariance, PTL
=============================================================================
