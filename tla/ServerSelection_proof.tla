------------------------ MODULE ServerSelection_proof ------------------------
(***************************************************************************)
(* Proofs about ServerSelection, for every set of names, namespaces,       *)
(* Services and Secrets and every bound on faults and edits.               *)
(***************************************************************************)
EXTENDS ServerSelection, TLAPS

(* A server is found from the items of its name, so more items find no     *)
(* fewer names.                                                            *)
LEMMA NamesOfItems ==
  ASSUME NEW items \in SUBSET Items
  PROVE  /\ NamesOf(items) = {n \in Names :
               \/ \E i \in OfKind(items, "registered") : i.name = n
               \/ JenkinsURLs # {} /\ \E i \in OfKind(items, "service"), j \in OfKind(items, "secret") :
                                        i.name = n /\ j.name = n}
         /\ \A s \in Servers(items) :
              s \in [name : Names, registered : BOOLEAN, ns : Namespaces, auth : Namespaces,
                     url : Namespaces \cup JenkinsURLs]
<1>1. Items \subseteq [kind : ItemKinds, ns : Namespaces, name : Names]
  BY SelectionAssumption
<1>2. \A i \in InScope(items) : i \in [kind : ItemKinds, ns : Namespaces, name : Names]
  BY <1>1 DEF InScope
<1>3. \A s \in Servers(items) :
        s \in [name : Names, registered : BOOLEAN, ns : Namespaces, auth : Namespaces,
               url : Namespaces \cup JenkinsURLs]
  <2>1. ASSUME NEW i \in OfKind(items, "registered")
        PROVE  [name |-> i.name, registered |-> TRUE, ns |-> i.ns, auth |-> i.ns, url |-> i.ns]
                 \in [name : Names, registered : BOOLEAN, ns : Namespaces, auth : Namespaces,
                      url : Namespaces \cup JenkinsURLs]
    BY <1>2 DEF OfKind
  <2>2. Discovered(items) \subseteq [name : Names, registered : BOOLEAN, ns : Namespaces,
                                    auth : Namespaces, url : Namespaces \cup JenkinsURLs]
    <3>1. FALSE \in BOOLEAN
      OBVIOUS
    <3> QED
      BY <3>1 DEF Discovered
  <2> QED
    BY <2>1, <2>2 DEF Servers, Registered
<1>4. ASSUME NEW n \in NamesOf(items)
      PROVE  /\ n \in Names
             /\ \/ \E i \in OfKind(items, "registered") : i.name = n
                \/ JenkinsURLs # {} /\ \E i \in OfKind(items, "service"), j \in OfKind(items, "secret") :
                                         i.name = n /\ j.name = n
  <2>1. PICK s \in Servers(items) : s.name = n
    BY DEF NamesOf
  <2>2. CASE s \in Registered(items)
    BY <1>3, <2>1, <2>2 DEF Registered
  <2>3. CASE s \in Discovered(items)
    BY <1>3, <2>1, <2>3 DEF Discovered, OfKind
  <2> QED
    BY <2>2, <2>3 DEF Servers
<1>5. ASSUME NEW i \in OfKind(items, "registered") PROVE i.name \in NamesOf(items)
  <2> DEFINE r == [name |-> i.name, registered |-> TRUE, ns |-> i.ns, auth |-> i.ns, url |-> i.ns]
  <2>1. r \in Registered(items)
    BY DEF Registered
  <2>2. r \in Servers(items) /\ r.name = i.name
    BY <2>1 DEF Servers
  <2> QED
    BY <2>2 DEF NamesOf
<1>6. ASSUME NEW i \in OfKind(items, "service"), NEW j \in OfKind(items, "secret"),
             i.name = j.name, NEW u \in JenkinsURLs
      PROVE  i.name \in NamesOf(items)
  <2> DEFINE d == [name |-> i.name, registered |-> FALSE, ns |-> i.ns, auth |-> j.ns, url |-> u]
  <2>a. i \in InScope(items) /\ j \in InScope(items) /\ i.kind = "service" /\ j.kind = "secret"
    BY DEF OfKind
  <2>b. /\ i \in [kind : ItemKinds, ns : Namespaces, name : Names]
        /\ j \in [kind : ItemKinds, ns : Namespaces, name : Names]
    BY <1>2, <2>a
  <2>c. i = [kind |-> "service", ns |-> i.ns, name |-> i.name]
    BY <2>a, <2>b
  <2>d. j = [kind |-> "secret", ns |-> j.ns, name |-> i.name]
    BY <1>6, <2>a, <2>b
  <2>1. d \in [name : Names, registered : {FALSE}, ns : Namespaces, auth : Namespaces, url : JenkinsURLs]
    BY <2>b
  <2>2. d \in Discovered(items)
    BY <2>a, <2>c, <2>d, <2>1 DEF Discovered
  <2>3. CASE d \in Servers(items)
    BY <2>3 DEF NamesOf
  <2>4. CASE \E r \in Registered(items) : r.name = d.name
    BY <2>4 DEF NamesOf, Servers
  <2> QED
    BY <2>2, <2>3, <2>4 DEF Servers
<1>7. \A n \in Names :
        /\ \/ \E i \in OfKind(items, "registered") : i.name = n
           \/ JenkinsURLs # {} /\ \E i \in OfKind(items, "service"), j \in OfKind(items, "secret") :
                                    i.name = n /\ j.name = n
        => n \in NamesOf(items)
  BY <1>5, <1>6
<1> QED
  BY <1>3, <1>4, <1>7

LEMMA NamesAreMonotone ==
  ASSUME NEW few \in SUBSET Items, NEW many \in SUBSET Items,
         \A kind \in ItemKinds : OfKind(few, kind) \subseteq OfKind(many, kind)
  PROVE  NamesOf(few) \subseteq NamesOf(many)
BY NamesOfItems DEF ItemKinds

(* What FindJenkinsServers found is made of listed items.                   *)
LEMMA MadeOfItems ==
  ASSUME NEW items \in SUBSET Items, NEW s \in Servers(items)
  PROVE  ItemsOf(s) \subseteq InScope(items)
<1>1. CASE s \in Registered(items)
  <2>1. PICK i \in OfKind(items, "registered") :
          s = [name |-> i.name, registered |-> TRUE, ns |-> i.ns, auth |-> i.ns, url |-> i.ns]
    BY <1>1 DEF Registered
  <2>2. i \in [kind : ItemKinds, ns : Namespaces, name : Names] /\ i.kind = "registered" /\ i \in InScope(items)
    BY SelectionAssumption DEF OfKind, InScope
  <2>3. i = [kind |-> "registered", ns |-> s.ns, name |-> s.name]
    BY <2>1, <2>2
  <2> QED
    BY <2>1, <2>2, <2>3 DEF ItemsOf
<1>2. CASE s \in Discovered(items)
  BY <1>2 DEF Discovered, ItemsOf
<1> QED
  BY <1>1, <1>2 DEF Servers

(* Items name a server; without a rival it is the only server of its name.  *)
LEMMA Unrivalled ==
  ASSUME NEW items \in SUBSET Items, NEW s, s.registered \in BOOLEAN, ItemsOf(s) \subseteq InScope(items)
  PROVE  /\ s.name \in NamesOf(items)
         /\ Rivals(s, items) # {} \/ \A t \in Servers(items) : t.name = s.name => Same(s, t)
<1> DEFINE service == [kind |-> "service", ns |-> s.ns, name |-> s.name]
           secret == [kind |-> "secret", ns |-> s.auth, name |-> s.name]
           entry == [kind |-> "registered", ns |-> s.ns, name |-> s.name]
<1>1. JenkinsURLs # {}
  BY DEF JenkinsURLs
<1>2. s.name \in NamesOf(items)
  <2>1. CASE s.registered
    <3>1. entry \in OfKind(items, "registered") /\ entry.name = s.name
      BY <2>1 DEF ItemsOf, OfKind
    <3>2. s.name \in Names
      <4>1. entry \in [kind : ItemKinds, ns : Namespaces, name : Names]
        BY <3>1, SelectionAssumption DEF OfKind, InScope
      <4> QED
        BY <4>1
    <3> QED
      BY <3>1, <3>2, NamesOfItems
  <2>2. CASE ~s.registered
    <3>1. /\ service \in OfKind(items, "service") /\ service.name = s.name
          /\ secret \in OfKind(items, "secret") /\ secret.name = s.name
      BY <2>2 DEF ItemsOf, OfKind
    <3>2. s.name \in Names
      <4>1. service \in [kind : ItemKinds, ns : Namespaces, name : Names]
        BY <3>1, SelectionAssumption DEF OfKind, InScope
      <4> QED
        BY <4>1
    <3> QED
      BY <1>1, <3>1, <3>2, NamesOfItems
  <2> QED
    BY <2>1, <2>2
<1>3. ASSUME Rivals(s, items) = {}, NEW t \in Servers(items), t.name = s.name PROVE Same(s, t)
  <2>1. ItemsOf(t) \subseteq InScope(items)
    BY MadeOfItems
  <2>2. \A i \in InScope(items) :
          i.name = s.name /\ (s.registered => i.kind = "registered") => i \in ItemsOf(s)
    BY <1>3 DEF Rivals
  <2>3. t.registered \in BOOLEAN
    BY NamesOfItems
  <2>4. CASE t.registered
    <3> DEFINE i == [kind |-> "registered", ns |-> t.ns, name |-> s.name]
    <3>1. ItemsOf(t) = {i} /\ i \in InScope(items) /\ i.name = s.name /\ i.kind = "registered"
      BY <1>3, <2>1, <2>4 DEF ItemsOf
    <3>2. i \in ItemsOf(s)
      BY <2>2, <3>1
    <3>3. s.registered
      BY <3>1, <3>2 DEF ItemsOf
    <3>4. ItemsOf(s) = {i}
      BY <3>2, <3>3 DEF ItemsOf
    <3> QED
      BY <3>1, <3>4 DEF Same
  <2>5. CASE ~t.registered
    <3>1. t \in Discovered(items) /\ \A r \in Registered(items) : r.name # s.name
      BY <1>3, <2>5 DEF Servers, Registered
    <3>2. ~s.registered
      <4>1. SUFFICES ASSUME s.registered PROVE FALSE
        OBVIOUS
      <4>2. entry \in OfKind(items, "registered")
        BY <4>1 DEF ItemsOf, OfKind
      <4>3. [name |-> entry.name, registered |-> TRUE, ns |-> entry.ns, auth |-> entry.ns, url |-> entry.ns]
              \in Registered(items)
        BY <4>2 DEF Registered
      <4> QED
        BY <3>1, <4>3
    <3> DEFINE i == [kind |-> "service", ns |-> t.ns, name |-> s.name]
               j == [kind |-> "secret", ns |-> t.auth, name |-> s.name]
    <3>3. ItemsOf(t) = {i, j} /\ i \in InScope(items) /\ j \in InScope(items)
      BY <1>3, <2>1, <2>5 DEF ItemsOf
    <3>4. i \in ItemsOf(s) /\ j \in ItemsOf(s)
      BY <2>2, <3>2, <3>3
    <3>5. ItemsOf(s) = {service, secret}
      BY <3>2 DEF ItemsOf
    <3>6. i = service /\ j = secret
      BY <3>4, <3>5
    <3> QED
      BY <3>3, <3>5, <3>6 DEF Same
  <2> QED
    BY <2>3, <2>4, <2>5
<1> QED
  BY <1>2, <1>3

-----------------------------------------------------------------------------
LEMMA ServersAreTyped == TypeOK => Servers(seen) \subseteq JenkinsServers
<1> SUFFICES ASSUME TypeOK PROVE Servers(seen) \subseteq JenkinsServers
  OBVIOUS
<1>1. Namespace \in Namespaces \cup {AllOfThem}
  BY SelectionAssumption DEF TypeOK, Namespace, Options
<1>2. JenkinsURLs \subseteq Namespaces \cup {"local"}
  BY <1>1, SelectionAssumption DEF JenkinsURLs
<1> QED
  BY <1>2, NamesOfItems DEF TypeOK, JenkinsServers

LEMMA TypeInit == Init => TypeOK
BY SelectionAssumption DEF Init, TypeOK

LEMMA TypeNext == TypeOK /\ [Next]_vars => TypeOK'
<1> SUFFICES ASSUME TypeOK, [Next]_vars PROVE TypeOK'
  OBVIOUS
<1> USE DEF TypeOK
<1>a. MaxFaults \in Nat /\ MaxEdits \in Nat
  BY SelectionAssumption
<1>1. ASSUME NEW kind \in ItemKinds, NEW here, NEW there,
             there \in {"secrets", "registry", "pick", "ok"}, List(kind, here, there)
      PROVE  TypeOK'
  <2>1. seen' \in SUBSET Items
    BY <1>1 DEF List, OfKind, InScope
  <2>2. faults' \in 0..MaxFaults
    BY <1>a, <1>1 DEF List, Fault, NoFault
  <2> QED
    BY <1>1, <2>1, <2>2 DEF List, Fail
<1>2. CASE PickServer
  <2>2. picked' \in [{1, 2} -> {None} \cup JenkinsServers]
    BY <1>2, ServersAreTyped DEF PickServer, AfterChoice
  <2> QED
    BY <1>2, <2>2 DEF PickServer, AfterChoice, Fail
<1>3. CASE TriggerPipeline
  BY <1>3 DEF TriggerPipeline
<1>4. ASSUME NEW i \in Items, Appear(i) \/ Disappear(i) PROVE TypeOK'
  BY <1>a, <1>4 DEF Appear, Disappear
<1>5. CASE UNCHANGED vars
  BY <1>5 DEF vars
<1> QED
  BY <1>1, <1>2, <1>3, <1>4, <1>5
     DEF Next, Step, ListServices, ListSecrets, ListRegistry, AfterDiscovery, ItemKinds

(* Every variable keeps its type.                                          *)
THEOREM TypeCorrect == Spec => []TypeOK
<1>1. Init => TypeOK
  BY TypeInit
<1>2. TypeOK /\ [Next]_vars => TypeOK'
  BY TypeNext
<1> QED
  BY <1>1, <1>2, PTL DEF Spec

-----------------------------------------------------------------------------
LEMMA SelectionInit == Init => SelectionInv
BY DEF Init, SelectionInv, KeptIsThere, KeptIsSeen, AllRead, Read, FirstInScope,
       NamedAsAsked, Rounds

(* The options, and with them the scope, do not change.                    *)
LEMMA ScopeStays ==
  ASSUME TypeOK, [Next]_vars
  PROVE  /\ options' = options
         /\ \A items \in SUBSET Items, kind \in ItemKinds :
              OfKind(items, kind)' = OfKind(items, kind)
         /\ \A items \in SUBSET Items :
              NamesOf(items)' = NamesOf(items) /\ InScope(items)' = InScope(items)
<1>1. options' = options
  BY DEF Next, Step, ListServices, ListSecrets, ListRegistry, AfterDiscovery, List, PickServer,
         TriggerPipeline, Appear, Disappear, vars
<1> QED
  BY <1>1 DEF OfKind, InScope, Scope, Namespace, NamesOf, Servers, Registered, Discovered,
              JenkinsURLs

(* A server is only chosen by the name asked for, or as the only one.      *)
LEMMA ChosenAsAsked ==
  ASSUME NEW names, NEW n \in Choices(names)
  PROVE  /\ n \in names
         /\ options.jenkins # NoName => n = options.jenkins
         /\ options.batch /\ options.jenkins = NoName /\ options.env # NoName => n = options.env
         /\ options.batch /\ options.jenkins = NoName /\ options.env = NoName => names \subseteq {n}
BY DEF Choices, Several

(* A server whose items were there during the three calls is found again.   *)
LEMMA KeptIsFound ==
  ASSUME TypeOK, SelectionInv, Read, NEW s, s.registered \in BOOLEAN, ItemsOf(s) \subseteq InScope(kept)
  PROVE  StillFound(s)
<1>1. ASSUME NEW i \in InScope(kept) PROVE i \in InScope(seen)
  <2>1. i.kind \in ItemKinds
    BY SelectionAssumption DEF InScope, TypeOK
  <2> QED
    BY <2>1 DEF SelectionInv, KeptIsSeen, AllRead, ItemKinds, OfKind, InScope
<1>2. ItemsOf(s) \subseteq InScope(seen)
  BY <1>1
<1> QED
  BY <1>2, Unrivalled DEF StillFound, TypeOK

LEMMA SteadyFound == TypeOK /\ SelectionInv => SteadyServersFound
<1> SUFFICES ASSUME TypeOK, SelectionInv, Read, NEW s \in Servers(kept) PROVE StillFound(s)
  BY DEF SteadyServersFound
<1>1. ItemsOf(s) \subseteq InScope(kept) /\ s.registered \in BOOLEAN
  BY MadeOfItems, NamesOfItems DEF TypeOK
<1> QED
  BY <1>1, KeptIsFound

LEMMA SteadyNames ==
  ASSUME TypeOK, SelectionInv, Read
  PROVE  NamesOf(kept) \subseteq NamesOf(seen)
BY SteadyFound DEF SteadyServersFound, StillFound, NamesOf

-----------------------------------------------------------------------------
LEMMA ListKeepsInv ==
  ASSUME TypeOK, SelectionInv, ListServices \/ ListSecrets \/ ListRegistry
  PROVE  SelectionInv'
<1>a. [Next]_vars
  BY DEF Next, Step
<1>b. /\ kept \in SUBSET Items /\ cluster \in SUBSET Items /\ kept \subseteq cluster
  BY DEF TypeOK, SelectionInv, KeptIsThere
<1>1. UNCHANGED <<cluster, options, round, picked, kept>>
  BY DEF ListServices, ListSecrets, ListRegistry, AfterDiscovery, List
<1>2. KeptIsThere'
  BY <1>b, <1>1 DEF KeptIsThere
<1>3. KeptIsSeen'
  <2>1. \A kind \in ItemKinds : OfKind(kept, kind)' = OfKind(kept, kind)
    BY <1>1, <1>a, <1>b, ScopeStays
  <2>2. \A kind \in ItemKinds : OfKind(kept, kind) \subseteq OfKind(cluster, kind)
    BY <1>b DEF OfKind, InScope
  <2>3. Rounds /\ KeptIsSeen
    BY DEF SelectionInv
  <2>4. CASE UNCHANGED seen /\ Fail
    BY <1>1, <2>1, <2>3, <2>4 DEF Fail, Rounds, KeptIsSeen, AllRead, Read
  <2>5. CASE pc = "services" /\ pc' = "secrets" /\ seen' = seen \cup OfKind(cluster, "service")
    BY <2>1, <2>2, <2>5 DEF KeptIsSeen, AllRead, Read, ItemKinds
  <2>6. CASE pc = "secrets" /\ pc' = "registry" /\ seen' = seen \cup OfKind(cluster, "secret")
    BY <2>1, <2>2, <2>3, <2>6 DEF KeptIsSeen, AllRead, Read, ItemKinds
  <2>7. CASE /\ pc = "registry" /\ pc' \in {"pick", "ok"}
             /\ seen' = seen \cup OfKind(cluster, "registered")
    BY <2>1, <2>2, <2>3, <2>7 DEF KeptIsSeen, AllRead, Read, ItemKinds
  <2> QED
    BY <2>4, <2>5, <2>6, <2>7 DEF ListServices, ListSecrets, ListRegistry, AfterDiscovery, List
<1>4. FirstInScope'
  BY <1>1, <1>a, ScopeStays DEF SelectionInv, FirstInScope, ItemsOf
<1>6. NamedAsAsked'
  BY <1>1 DEF SelectionInv, NamedAsAsked
<1>7. Rounds'
  BY <1>1 DEF ListServices, ListSecrets, ListRegistry, AfterDiscovery, List, SelectionInv, Rounds, Fail
<1> QED
  BY <1>2, <1>3, <1>4, <1>6, <1>7 DEF SelectionInv

LEMMA PickKeepsInv ==
  ASSUME TypeOK, SelectionInv, PickServer
  PROVE  SelectionInv'
<1>a. [Next]_vars
  BY DEF Next, Step
<1>b. /\ UNCHANGED <<cluster, options, round, seen, kept>>
      /\ pc = "pick" /\ pc' \in {"build", "ok", "error"}
      /\ picked[2] = None /\ options.command # "list"
      /\ pc' = "build" => round = 1 /\ options.command = "trigger"
  BY DEF PickServer, AfterChoice, Fail, SelectionInv, Rounds
<1>c. /\ kept \in SUBSET Items /\ cluster \in SUBSET Items
      /\ round \in {1, 2} /\ DOMAIN picked = {1, 2}
  BY DEF TypeOK
<1>1. KeptIsThere' /\ KeptIsSeen' /\ InScope(Items)' = InScope(Items)
  BY <1>b DEF SelectionInv, KeptIsThere, KeptIsSeen, AllRead, Read, InScope, Scope, Namespace
<1>2. CASE UNCHANGED picked /\ Fail
  BY <1>b, <1>1, <1>2 DEF SelectionInv, FirstInScope, ItemsOf, NamedAsAsked, Rounds, Fail
<1>3. ASSUME NEW s \in Servers(seen), s.name \in Choices(NamesOf(seen)),
             picked' = [picked EXCEPT ![round] = s],
             pc' = IF options.command = "trigger" /\ round = 1 THEN "build" ELSE "ok"
      PROVE  SelectionInv'
  <2>a. s # None
    BY ServersAreTyped, SelectionAssumption
  <2>b. /\ ItemsOf(s) \subseteq InScope(Items)
        /\ options.batch =>
             /\ options.jenkins # NoName => s.name = options.jenkins
             /\ options.jenkins = NoName /\ options.env # NoName => s.name = options.env
    BY <1>3, ChosenAsAsked, MadeOfItems DEF TypeOK, InScope
  <2>1. CASE round = 1
    <3>1. picked'[1] = s /\ picked'[2] = None
      BY <1>b, <1>c, <1>3, <2>1
    <3>2. FirstInScope'
      BY <1>1, <2>b, <3>1 DEF FirstInScope, ItemsOf
    <3>3. NamedAsAsked'
      BY <1>b, <2>b, <3>1 DEF NamedAsAsked
    <3>4. Rounds'
      BY <1>b, <2>a, <2>1, <3>1 DEF Rounds
    <3> QED
      BY <1>1, <3>2, <3>3, <3>4 DEF SelectionInv
  <2>2. CASE round = 2
    <3>1. picked'[1] = picked[1]
      BY <1>b, <1>c, <1>3, <2>2
    <3>2. FirstInScope' /\ NamedAsAsked'
      BY <1>b, <1>1, <3>1 DEF SelectionInv, FirstInScope, ItemsOf, NamedAsAsked
    <3>3. Rounds'
      BY <1>b, <1>3, <2>2, <3>1 DEF SelectionInv, Rounds
    <3> QED
      BY <1>1, <3>2, <3>3 DEF SelectionInv
  <2> QED
    BY <1>c, <2>1, <2>2
<1> QED
  BY <1>2, <1>3 DEF PickServer, AfterChoice

LEMMA TriggerKeepsInv ==
  ASSUME TypeOK, SelectionInv, TriggerPipeline
  PROVE  SelectionInv'
<1>a. [Next]_vars
  BY DEF Next, Step
<1>b. /\ UNCHANGED <<cluster, options, picked>>
      /\ pc = "build" /\ round = 1 /\ picked[1] # None /\ picked[2] = None
      /\ options.command = "trigger"
      /\ kept \in SUBSET Items /\ cluster \in SUBSET Items
  BY DEF TriggerPipeline, SelectionInv, Rounds, TypeOK
<1>1. KeptIsThere' /\ KeptIsSeen' /\ InScope(Items)' = InScope(Items)
  BY <1>b
     DEF SelectionInv, KeptIsThere, KeptIsSeen, AllRead, Read, TriggerPipeline, InScope, Scope, Namespace
<1>2. FirstInScope' /\ NamedAsAsked'
  BY <1>b, <1>1 DEF SelectionInv, FirstInScope, ItemsOf, NamedAsAsked
<1>3. Rounds'
  BY <1>b DEF SelectionInv, Rounds, TriggerPipeline
<1> QED
  BY <1>1, <1>2, <1>3 DEF SelectionInv

LEMMA ClusterKeepsInv ==
  ASSUME TypeOK, SelectionInv, NEW i \in Items, Appear(i) \/ Disappear(i)
  PROVE  SelectionInv'
<1>a. [Next]_vars
  BY DEF Next
<1>b. /\ UNCHANGED <<options, pc, round, seen, picked>>
      /\ kept \in SUBSET Items /\ cluster \in SUBSET Items
      /\ cluster' \in SUBSET Items /\ kept' \in SUBSET Items
      /\ kept' \subseteq kept
  BY DEF Appear, Disappear, TypeOK
<1>1. KeptIsThere'
  BY DEF Appear, Disappear, SelectionInv, KeptIsThere
<1>2. KeptIsSeen'
  <2>1. \A kind \in ItemKinds : OfKind(kept, kind)' \subseteq OfKind(kept, kind)
    BY <1>b DEF OfKind, InScope, Scope, Namespace
  <2> QED
    BY <1>b, <2>1 DEF SelectionInv, KeptIsSeen, AllRead, Read, ItemKinds
<1>3. NamedAsAsked' /\ Rounds'
  BY <1>b DEF SelectionInv, NamedAsAsked, Rounds
<1>4. FirstInScope'
  BY <1>b DEF SelectionInv, FirstInScope, ItemsOf, InScope, Scope, Namespace
<1> QED
  BY <1>1, <1>2, <1>3, <1>4 DEF SelectionInv

LEMMA SelectionNext == TypeOK /\ SelectionInv /\ [Next]_vars => SelectionInv'
<1> SUFFICES ASSUME TypeOK, SelectionInv, [Next]_vars PROVE SelectionInv'
  OBVIOUS
<1>1. CASE UNCHANGED vars
  <2>1. KeptIsThere' /\ NamedAsAsked' /\ Rounds'
    BY <1>1 DEF vars, SelectionInv, KeptIsThere, NamedAsAsked, Rounds
  <2>2. KeptIsSeen' /\ FirstInScope'
    BY <1>1
       DEF vars, SelectionInv, KeptIsSeen, FirstInScope, ItemsOf, AllRead, Read, OfKind, InScope, Scope,
           Namespace
  <2> QED
    BY <2>1, <2>2 DEF SelectionInv
<1> QED
  BY <1>1, ListKeepsInv, PickKeepsInv, TriggerKeepsInv, ClusterKeepsInv DEF Next, Step

LEMMA Invariance == Spec => [](TypeOK /\ SelectionInv)
<1>1. Init => TypeOK /\ SelectionInv
  BY TypeInit, SelectionInit
<1>2. TypeOK /\ SelectionInv /\ [Next]_vars => (TypeOK /\ SelectionInv)'
  BY TypeNext, SelectionNext
<1> QED
  BY <1>1, <1>2, PTL DEF Spec

-----------------------------------------------------------------------------
(* A server that is there all the while is found (server_list.go:35), by   *)
(* its name and, unless another one has that name, as itself.              *)
THEOREM SteadyServersAreFound == Spec => []SteadyServersFound
BY Invariance, SteadyFound, PTL

LEMMA KeptNames ==
  ASSUME TypeOK, [Next]_vars, kept' \subseteq kept
  PROVE  NamesOf(kept)' \subseteq NamesOf(kept)
<1>1. kept \in SUBSET Items /\ kept' \in SUBSET Items
  BY DEF TypeOK
<1>2. PICK later \in SUBSET Items : later = kept'
  BY <1>1
<1>a. options' = options
  BY ScopeStays
<1>3. NamesOf(kept)' = NamesOf(later)
  BY <1>2, <1>a DEF NamesOf, Servers, Registered, Discovered, OfKind, InScope, Scope,
                          Namespace, JenkinsURLs
<1>4. \A kind \in ItemKinds : OfKind(later, kind) \subseteq OfKind(kept, kind)
  BY <1>2 DEF OfKind, InScope
<1> QED
  BY <1>1, <1>3, <1>4, NamesAreMonotone

(* In batch mode the server has the name that was given, and without one   *)
(* nothing is chosen among several names that stay (trigger.go:98,         *)
(* helpers.go:90-122).                                                     *)
THEOREM BatchDoesNotGuess == Spec => []BatchNeverGuesses
<1>1. Init => BatchNeverGuesses
  BY DEF Init, BatchNeverGuesses
<1>2. TypeOK /\ SelectionInv /\ BatchNeverGuesses /\ [Next]_vars => BatchNeverGuesses'
  <2> SUFFICES ASSUME TypeOK, SelectionInv, BatchNeverGuesses, [Next]_vars, pc' = "build", options.batch
               PROVE  IF options.jenkins # NoName THEN picked'[1].name = options.jenkins
                      ELSE IF options.env # NoName THEN picked'[1].name = options.env
                      ELSE NamesOf(kept)' \subseteq {picked'[1].name}
    BY ScopeStays DEF BatchNeverGuesses
  <2>2. CASE PickServer
    <3>1. UNCHANGED kept /\ pc = "pick" /\ round = 1 /\ DOMAIN picked = {1, 2}
      BY <2>2 DEF PickServer, AfterChoice, Fail, SelectionInv, Rounds, TypeOK
    <3>2. PICK s \in Servers(seen) :
            s.name \in Choices(NamesOf(seen)) /\ picked' = [picked EXCEPT ![round] = s]
      BY <2>2, <3>1 DEF PickServer, AfterChoice, Fail
    <3>3. picked'[1] = s
      BY <3>1, <3>2
    <3>4. NamesOf(kept)' \subseteq NamesOf(seen)
      BY <3>1, SteadyNames, KeptNames DEF Read
    <3> QED
      BY <3>2, <3>3, <3>4, ChosenAsAsked
  <2>3. CASE pc = "build" /\ UNCHANGED picked /\ kept' \subseteq kept
    BY <2>3, KeptNames DEF BatchNeverGuesses
  <2> QED
    BY <2>2, <2>3 DEF Next, Step, ListServices, ListSecrets, ListRegistry, AfterDiscovery, List, Fail,
                      TriggerPipeline, Appear, Disappear, vars
<1> QED
  BY <1>1, <1>2, Invariance, PTL DEF Spec

(* In batch mode the log comes from the very server of the build unless    *)
(* that was not there during the second selection or another one of its    *)
(* name was listed (trigger.go:153, helpers.go:169, discovery.go:34-36).   *)
THEOREM TailMovesIfReplaced == Spec => []TailMovesOnlyIfReplaced
<1>1. Init => TailMovesOnlyIfReplaced
  BY DEF Init, TailMovesOnlyIfReplaced
<1>2. TypeOK /\ SelectionInv /\ TailMovesOnlyIfReplaced /\ [Next]_vars => TailMovesOnlyIfReplaced'
  <2> SUFFICES ASSUME TypeOK, SelectionInv, TailMovesOnlyIfReplaced, [Next]_vars, options.batch,
                      None \notin {picked'[1], picked'[2]}, ItemsOf(picked[1])' \subseteq kept'
               PROVE  Same(picked[1], picked[2])' \/ Rivals(picked[1], seen)' # {}
    BY ScopeStays DEF TailMovesOnlyIfReplaced
  <2>3. CASE PickServer /\ picked' # picked
    <3>1. /\ pc = "pick" /\ DOMAIN picked = {1, 2} /\ round \in {1, 2} /\ picked[2] = None
          /\ UNCHANGED <<options, kept, seen>>
      BY <2>3 DEF PickServer, AfterChoice, SelectionInv, Rounds, TypeOK
    <3>2. PICK t \in Servers(seen) :
            t.name \in Choices(NamesOf(seen)) /\ picked' = [picked EXCEPT ![round] = t]
      BY <2>3 DEF PickServer, AfterChoice
    <3>3. round = 2 /\ picked'[1] = picked[1] /\ picked'[2] = t /\ picked[1] # None
      BY <3>1, <3>2 DEF SelectionInv, Rounds
    <3> DEFINE s == picked[1]
    <3>4. s.registered \in BOOLEAN
      BY <3>3 DEF TypeOK, JenkinsServers
    <3>5. ItemsOf(s) \subseteq InScope(kept)
      <4>1. ItemsOf(s) \subseteq kept
        BY <3>1, <3>3 DEF ItemsOf
      <4> QED
        BY <3>3, <4>1 DEF SelectionInv, FirstInScope, InScope
    <3>6. StillFound(s)
      BY <3>1, <3>4, <3>5, KeptIsFound DEF Read
    <3>7. t.name = s.name
      BY <3>2, <3>3, <3>6, ChosenAsAsked DEF StillFound, SelectionInv, NamedAsAsked
    <3>8. Same(s, t) \/ Rivals(s, seen) # {}
      BY <3>6, <3>7 DEF StillFound
    <3>9. Rivals(s, seen)' = Rivals(s, seen)
      BY <3>1, <3>3 DEF Rivals, ItemsOf, InScope, Scope, Namespace
    <3> QED
      BY <3>3, <3>8, <3>9 DEF Same, ItemsOf
  <2>4. CASE UNCHANGED picked /\ kept' \subseteq kept /\ UNCHANGED <<seen, options>>
    BY <2>4 DEF TailMovesOnlyIfReplaced, Same, ItemsOf, Rivals, InScope, Scope, Namespace
  <2>5. CASE picked[2] = None /\ UNCHANGED picked
    BY <2>5
  <2>6. ASSUME ListServices \/ ListSecrets \/ ListRegistry \/ TriggerPipeline
        PROVE  picked[2] = None /\ UNCHANGED picked
    BY <2>6 DEF ListServices, ListSecrets, ListRegistry, List, TriggerPipeline, SelectionInv, Rounds
  <2> QED
    BY <2>3, <2>4, <2>5, <2>6 DEF Next, Step, PickServer, Appear, Disappear, vars
<1> QED
  BY <1>1, <1>2, Invariance, PTL DEF Spec
=============================================================================
