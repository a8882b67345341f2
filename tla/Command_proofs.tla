--------------------------- MODULE Command_proofs ---------------------------
(***************************************************************************)
(* A client that polls the command snapshot notices every execution, for   *)
(* every width of the sequence, and init accepts exactly the sound tables, *)
(* of any size.                                                            *)
(***************************************************************************)
EXTENDS Command, FiniteSetTheorems, WellFoundedInduction, TLAPS

(* The sequence is ahead of the one that the client saw by the executions  *)
(* since then, around the end of its type.                                 *)
Ahead(seen, since) ==
    IF seen + since < SequenceModulus THEN seen + since ELSE seen + since - SequenceModulus

IInv ==
    /\ initialized \in BOOLEAN
    /\ ~initialized => snapshot = NoSnapshot /\ poll = [seen |-> NoSnapshot, since |-> 0]
    /\ poll = [seen |-> poll.seen, since |-> poll.since]
    /\ poll.seen.sequence \in 0 .. SequenceModulus - 1
    /\ poll.since \in 0 .. SequenceModulus - 1
    /\ snapshot.sequence = Ahead(poll.seen.sequence, poll.since)
    /\ poll.since = 0 => poll.seen = snapshot

LEMMA Successor ==
    ASSUME NEW x \in 0 .. SequenceModulus - 1
    PROVE  (x + 1) % SequenceModulus = IF x + 1 = SequenceModulus THEN 0 ELSE x + 1
<1>1. SequenceModulus \in Nat \ {0, 1}
  BY LimitsAssumption
<1>2. CASE x + 1 = SequenceModulus
  BY <1>1, <1>2
<1>3. CASE x + 1 # SequenceModulus
  BY <1>1, <1>3
<1> QED BY <1>2, <1>3

LEMMA AheadInRange ==
    ASSUME NEW seen \in 0 .. SequenceModulus - 1, NEW since \in 0 .. SequenceModulus - 1
    PROVE  /\ Ahead(seen, since) \in 0 .. SequenceModulus - 1
           /\ Ahead(seen, since) = seen <=> since = 0
BY LimitsAssumption DEF Ahead

LEMMA Initiation == Init => IInv
<1> SUFFICES ASSUME Init PROVE IInv
  OBVIOUS
<1>1. /\ initialized = FALSE /\ snapshot = NoSnapshot
      /\ poll = [seen |-> NoSnapshot, since |-> 0]
  BY DEF Init
<1>2. NoSnapshot.sequence = 0
  BY DEF NoSnapshot
<1>3. Ahead(0, 0) = 0 /\ 0 \in 0 .. SequenceModulus - 1
  BY LimitsAssumption DEF Ahead
<1> QED BY <1>1, <1>2, <1>3 DEF IInv

LEMMA ExecutedStep ==
    ASSUME IInv, NEW id, NEW status, Executed(id, status)
    PROVE  IInv'
<1> DEFINE seen == poll.seen.sequence
           since == poll.since
<1>1. /\ seen \in 0 .. SequenceModulus - 1 /\ since \in 0 .. SequenceModulus - 2
      /\ snapshot.sequence = Ahead(seen, since)
  BY LimitsAssumption DEF IInv, Executed
<1>2. poll' = [seen |-> poll.seen, since |-> since + 1] /\ initialized' = initialized
  BY DEF IInv, Executed
<1>3. snapshot'.sequence = (Ahead(seen, since) + 1) % SequenceModulus
  BY <1>1 DEF Executed, AfterExecution
<1>4. snapshot'.sequence = Ahead(seen, since + 1)
  <2>1. Ahead(seen, since) \in 0 .. SequenceModulus - 1
    BY <1>1, AheadInRange, LimitsAssumption
  <2> QED BY <1>1, <1>3, <2>1, Successor, LimitsAssumption DEF Ahead
<1>5. initialized
  BY DEF Executed
<1> QED BY <1>1, <1>2, <1>4, <1>5, LimitsAssumption DEF IInv

LEMMA Consecution == IInv /\ [Next]_vars => IInv'
<1> SUFFICES ASSUME IInv, [Next]_vars PROVE IInv'
  OBVIOUS
<1>1. CASE UNCHANGED vars
  BY <1>1 DEF IInv, vars
<1>2. ASSUME NEW registry \in Registries, ServiceInit(registry) PROVE IInv'
  BY <1>2, LimitsAssumption DEF IInv, ServiceInit, NoSnapshot, Ahead
<1>3. CASE CallRejected
  BY <1>3 DEF IInv, CallRejected
<1>4. ASSUME NEW id, Execute(id) \/ ExecuteUnknown(id) PROVE IInv'
  BY <1>4, ExecutedStep DEF Execute, ExecuteUnknown
<1>5. CASE Poll
  <2>1. snapshot.sequence \in 0 .. SequenceModulus - 1
    BY AheadInRange DEF IInv
  <2>2. /\ poll' = [seen |-> snapshot, since |-> 0] /\ initialized
        /\ UNCHANGED <<initialized, snapshot>>
    BY <1>5 DEF Poll
  <2> QED BY <2>1, <2>2, LimitsAssumption DEF IInv, Ahead
<1> QED BY <1>1, <1>2, <1>3, <1>4, <1>5 DEF Next

(* Comparing snapshots notices every execution, across the wrap of the     *)
(* sequence, as long as the client is not a whole turn behind, and never   *)
(* one that did not happen.                                                *)
THEOREM EveryExecutionNoticed == Spec => []PollNoticesEveryExecution
<1>1. IInv => PollNoticesEveryExecution
  BY AheadInRange DEF IInv, PollNoticesEveryExecution
<1> QED BY <1>1, Initiation, Consecution, PTL DEF Spec

-----------------------------------------------------------------------------
(* A set of naturals has a least element, which Min finds. *)
LEMMA LeastElement ==
    ASSUME NEW S \in SUBSET Nat, S # {}
    PROVE  \E least \in S : \A n \in S : least <= n
<1>1. PICK least \in S : \A n \in S : <<n, least>> \notin OpToRel(<, Nat)
  BY NatLessThanWellFounded, WFMin, Zenon
<1>2. \A n \in S : ~(n < least)
  BY <1>1, Zenon DEF OpToRel
<1> QED BY <1>2

LEMMA MinIsElement ==
    ASSUME NEW S \in SUBSET Nat, S # {}
    PROVE  Min(S) \in S
<1>1. PICK least \in S : \A n \in S : <<n, least>> \notin OpToRel(<, Nat)
  BY NatLessThanWellFounded, WFMin, Zenon
<1>2. \A n \in S : ~(n < least)
  BY <1>1, Zenon DEF OpToRel
<1>3. \A n \in S : least <= n
  BY <1>2
<1> QED BY <1>3 DEF Min

(* The commands of a registry, group by group *)
CommandsOf(registry, h) == {h} \X DOMAIN registry[h].commands

LEMMA GroupIsCounted ==
    ASSUME NEW registry \in Registries, NEW h \in 1 .. Len(registry)
    PROVE  /\ IsFiniteSet(CommandsOf(registry, h))
           /\ Cardinality(CommandsOf(registry, h)) = Len(registry[h].commands)
           /\ Len(registry[h].commands) \in Nat
<1> DEFINE m == Len(registry[h].commands)
<1>1. m \in Nat /\ DOMAIN registry[h].commands = 1 .. m
  BY RegistriesAssumption DEF Entries
<1> HIDE DEF m
<1>2. IsFiniteSet({h}) /\ Cardinality({h}) = 1
  BY FS_Singleton
<1>3. IsFiniteSet(1 .. m) /\ Cardinality(1 .. m) = m
  <2>1. IsFiniteSet(1 .. m) /\ Cardinality(1 .. m) = IF 1 > m THEN 0 ELSE m - 1 + 1
    BY <1>1, FS_Interval
  <2> QED BY <1>1, <2>1
<1>4. IsFiniteSet({h} \X (1 .. m)) /\ Cardinality({h} \X (1 .. m)) = 1 * m
  BY <1>2, <1>3, FS_Product
<1> QED BY <1>1, <1>4 DEF CommandsOf, m

(* The loop over the groups *)
LEMMA OneGroupMore ==
    ASSUME NEW registry, NEW g \in Nat \ {0}
    PROVE  /\ PositionsBefore(registry, g + 1)
                  = PositionsBefore(registry, g) \cup CommandsOf(registry, g)
           /\ PositionsBefore(registry, g) \cap CommandsOf(registry, g) = {}
<1>1. 1 .. (g + 1) - 1 = (1 .. g - 1) \cup {g}
  OBVIOUS
<1> QED BY <1>1 DEF PositionsBefore, CommandsOf

(* There are finitely many commands before a group. *)
LEMMA PositionsAreFinite ==
    ASSUME NEW registry \in Registries
    PROVE  \A g \in 1 .. Len(registry) + 1 : IsFiniteSet(PositionsBefore(registry, g))
<1> DEFINE n == Len(registry)
           S == {g \in 1 .. n + 1 : ~IsFiniteSet(PositionsBefore(registry, g))}
<1> SUFFICES ASSUME S # {} PROVE FALSE
  OBVIOUS
<1>1. n \in Nat
  BY RegistriesAssumption
<1> HIDE DEF n
<1>2. PICK g \in S : \A h \in S : g <= h
  <2>1. S \in SUBSET Nat
    BY <1>1
  <2> QED BY <2>1, LeastElement
<1>3. g # 1
  <2>1. PositionsBefore(registry, 1) = {}
    BY DEF PositionsBefore
  <2> QED BY <2>1, FS_EmptySet
<1> DEFINE h == g - 1
<1>4. h \in 1 .. n /\ h + 1 = g /\ h \notin S /\ h \in 1 .. n + 1 /\ h \in Nat \ {0}
  BY <1>1, <1>2, <1>3
<1> HIDE DEF h
<1>5. IsFiniteSet(PositionsBefore(registry, h)) /\ IsFiniteSet(CommandsOf(registry, h))
  BY <1>4, GroupIsCounted DEF n
<1>6. PositionsBefore(registry, g) = PositionsBefore(registry, h) \cup CommandsOf(registry, h)
  BY <1>4, OneGroupMore
<1>7. IsFiniteSet(PositionsBefore(registry, g))
  BY <1>5, <1>6, FS_Union
<1> QED BY <1>2, <1>7

(* The running total of init is the number of commands before a group. *)
LEMMA CommandsAreCounted ==
    ASSUME NEW registry \in Registries, NEW g \in 1 .. Len(registry)
    PROVE  /\ CommandsBefore(registry, g) \in Nat
           /\ Len(registry[g].commands) \in Nat
           /\ CommandsBefore(registry, g + 1)
                  = CommandsBefore(registry, g) + Len(registry[g].commands)
           /\ CommandsBefore(registry, g + 1) \in Nat
<1> DEFINE before == PositionsBefore(registry, g)
           commands == CommandsOf(registry, g)
<1>1. Len(registry) \in Nat /\ g \in Nat \ {0} /\ g \in 1 .. Len(registry) + 1
  BY RegistriesAssumption
<1>2. IsFiniteSet(before)
  BY <1>1, PositionsAreFinite
<1>3. /\ IsFiniteSet(commands) /\ Cardinality(commands) = Len(registry[g].commands)
      /\ Len(registry[g].commands) \in Nat
  BY GroupIsCounted
<1>4. PositionsBefore(registry, g + 1) = before \cup commands /\ before \cap commands = {}
  BY <1>1, OneGroupMore
<1> HIDE DEF before, commands
<1>5. Cardinality(before) \in Nat /\ Cardinality(before \cap commands) = 0
  BY <1>2, <1>4, FS_EmptySet, FS_CardinalityType
<1> DEFINE b == Cardinality(before)
           c == Cardinality(commands)
           both == Cardinality(before \cap commands)
<1>6. Cardinality(before \cup commands) = b + c - both
  BY <1>2, <1>3, FS_Union
<1>7. b \in Nat /\ c \in Nat /\ both = 0
  BY <1>3, <1>5
<1> HIDE DEF b, c, both
<1>8. Cardinality(before \cup commands) = b + c /\ b + c \in Nat
  BY <1>6, <1>7
<1> QED BY <1>3, <1>4, <1>5, <1>8 DEF CommandsBefore, before, b, c

(* More groups have no fewer commands. *)
LEMMA CommandsAccumulate ==
    ASSUME NEW registry \in Registries, NEW g \in 1 .. Len(registry)
    PROVE  CommandsBefore(registry, g + 1) <= CommandsBefore(registry, Len(registry) + 1)
<1> DEFINE n == Len(registry)
           S == {h \in g .. n : ~(CommandsBefore(registry, g + 1) <= CommandsBefore(registry, h + 1))}
<1>1. n \in Nat /\ g \in Nat /\ n \in g .. n
  BY RegistriesAssumption
<1> HIDE DEF n
<1> SUFFICES ASSUME S # {} PROVE FALSE
  BY <1>1 DEF n
<1>2. S \in SUBSET Nat
  BY <1>1
<1>3. PICK h \in S : \A i \in S : h <= i
  BY <1>2, LeastElement
<1>4. h # g
  <2>1. CommandsBefore(registry, g + 1) \in Nat
    BY CommandsAreCounted
  <2> QED BY <1>3, <2>1
<1> DEFINE i == h - 1
<1>5. i \in g .. n /\ i + 1 = h /\ i \notin S /\ h \in 1 .. n /\ i \in 1 .. n
  BY <1>1, <1>3, <1>4
<1> HIDE DEF i
<1>6. CommandsBefore(registry, g + 1) <= CommandsBefore(registry, h)
  BY <1>5
<1>7. /\ CommandsBefore(registry, h) \in Nat /\ Len(registry[h].commands) \in Nat
      /\ CommandsBefore(registry, h + 1) = CommandsBefore(registry, h) + Len(registry[h].commands)
      /\ CommandsBefore(registry, g + 1) \in Nat
  BY <1>5, CommandsAreCounted DEF n
<1> QED BY <1>3, <1>6, <1>7

(* With the commands before it, a group either exceeds the limit, or fits. *)
LEMMA LimitIsTotal ==
    ASSUME NEW registry \in Registries, registry # << >>
    PROVE  (\A g \in 1 .. Len(registry) :
              ~(Len(registry[g].commands) > MaxCommands - CommandsBefore(registry, g)))
           <=> CommandsBefore(registry, Len(registry) + 1) <= MaxCommands
<1> DEFINE n == Len(registry)
           Fits(g) == ~(Len(registry[g].commands) > MaxCommands - CommandsBefore(registry, g))
<1>1. n \in Nat \ {0} /\ n \in 1 .. n /\ MaxCommands \in Nat
  BY RegistriesAssumption, LimitsAssumption
<1>2. ASSUME NEW g \in 1 .. n
      PROVE  /\ Fits(g) <=> CommandsBefore(registry, g + 1) <= MaxCommands
             /\ CommandsBefore(registry, g + 1) \in Nat
  <2> DEFINE b == CommandsBefore(registry, g)
             m == Len(registry[g].commands)
             after == CommandsBefore(registry, g + 1)
  <2>1. b \in Nat /\ m \in Nat /\ after = b + m /\ after \in Nat
    BY <1>1, CommandsAreCounted
  <2> HIDE DEF b, m, after
  <2>2. ~(m > MaxCommands - b) <=> after <= MaxCommands
    BY <1>1, <2>1
  <2> QED BY <2>1, <2>2 DEF b, m, after
<1>3. \A g \in 1 .. n : CommandsBefore(registry, g + 1) <= CommandsBefore(registry, n + 1)
  BY CommandsAccumulate
<1> HIDE DEF n, Fits
<1>4. CASE CommandsBefore(registry, n + 1) <= MaxCommands
  <2>1. ASSUME NEW g \in 1 .. n PROVE CommandsBefore(registry, g + 1) <= MaxCommands
    <3> DEFINE some == CommandsBefore(registry, g + 1)
               all == CommandsBefore(registry, n + 1)
    <3>1. some \in Nat /\ all \in Nat /\ some <= all /\ all <= MaxCommands
      BY <1>1, <1>2, <1>3, <1>4
    <3> HIDE DEF some, all
    <3>2. some <= MaxCommands
      BY <1>1, <3>1
    <3> QED BY <3>2 DEF some
  <2> QED BY <1>2, <1>4, <2>1 DEF n, Fits
<1>5. CASE ~(CommandsBefore(registry, n + 1) <= MaxCommands)
  BY <1>1, <1>2, <1>5 DEF n, Fits
<1> QED BY <1>4, <1>5

(* The searches for IDs that were used earlier find every repeated one. *)
LEMMA GroupIdsAreDistinct ==
    ASSUME NEW registry \in Registries
    PROVE  (\A g \in 1 .. Len(registry) : ~GroupIdExists(registry, g))
           <=> \A g, h \in 1 .. Len(registry) : registry[g].id = registry[h].id => g = h
<1>1. Len(registry) \in Nat
  BY RegistriesAssumption
<1> QED BY <1>1 DEF GroupIdExists

LEMMA EarlierIsFound ==
    ASSUME NEW registry \in Registries,
           NEW g \in 1 .. Len(registry), NEW c \in 1 .. Len(registry[g].commands),
           NEW h \in 1 .. Len(registry), NEW d \in 1 .. Len(registry[h].commands),
           h < g \/ (h = g /\ d < c),
           registry[h].commands[d].id = registry[g].commands[c].id
    PROVE  IdExists(registry, g, c)
<1>1. h \in 1 .. g /\ g \in Int /\ d \in Int /\ c \in Int
  BY RegistriesAssumption
<1>2. d \in 1 .. (IF h = g THEN c - 1 ELSE Len(registry[h].commands))
  <2>1. CASE h = g
    <3>1. d < c /\ d >= 1
      BY <1>1, <2>1
    <3> QED BY <1>1, <2>1, <3>1
  <2>2. CASE h # g
    BY <2>2
  <2> QED BY <2>1, <2>2
<1> QED BY <1>1, <1>2 DEF IdExists

LEMMA CommandIdsAreDistinct ==
    ASSUME NEW registry \in Registries
    PROVE  (\A g \in 1 .. Len(registry) : \A c \in 1 .. Len(registry[g].commands) :
                ~IdExists(registry, g, c))
           <=> \A g, h \in 1 .. Len(registry) :
                 \A c \in 1 .. Len(registry[g].commands), d \in 1 .. Len(registry[h].commands) :
                    registry[g].commands[c].id = registry[h].commands[d].id => <<g, c>> = <<h, d>>
<1> DEFINE Distinct == \A g, h \in 1 .. Len(registry) :
                 \A c \in 1 .. Len(registry[g].commands), d \in 1 .. Len(registry[h].commands) :
                    registry[g].commands[c].id = registry[h].commands[d].id => <<g, c>> = <<h, d>>
<1>1. ASSUME Distinct,
             NEW g \in 1 .. Len(registry), NEW c \in 1 .. Len(registry[g].commands),
             IdExists(registry, g, c)
      PROVE  FALSE
  <2>1. PICK h \in 1 .. g : \E d \in 1 .. (IF h = g THEN c - 1 ELSE Len(registry[h].commands)) :
               registry[h].commands[d].id = registry[g].commands[c].id
    BY <1>1 DEF IdExists
  <2>2. PICK d \in 1 .. (IF h = g THEN c - 1 ELSE Len(registry[h].commands)) :
               registry[h].commands[d].id = registry[g].commands[c].id
    BY <2>1
  <2>3. h \in 1 .. Len(registry) /\ g \in Int
    BY RegistriesAssumption
  <2>4. /\ Len(registry[h].commands) \in Nat /\ Len(registry[g].commands) \in Nat
        /\ d \in Int /\ c \in Int
    BY <2>3, GroupIsCounted
  <2>5. CASE h = g
    <3>1. d \in 1 .. c - 1
      BY <2>2, <2>5
    <3>2. d \in 1 .. Len(registry[g].commands) /\ d # c
      BY <2>4, <3>1
    <3> QED BY <1>1, <2>2, <2>3, <2>5, <3>2
  <2>6. CASE h # g
    <3>1. d \in 1 .. Len(registry[h].commands)
      BY <2>2, <2>6
    <3> QED BY <1>1, <2>2, <2>3, <2>6, <3>1
  <2> QED BY <2>5, <2>6
<1>2. ASSUME \A g \in 1 .. Len(registry) : \A c \in 1 .. Len(registry[g].commands) :
                ~IdExists(registry, g, c),
             NEW g \in 1 .. Len(registry), NEW h \in 1 .. Len(registry),
             NEW c \in 1 .. Len(registry[g].commands), NEW d \in 1 .. Len(registry[h].commands),
             registry[g].commands[c].id = registry[h].commands[d].id
      PROVE  <<g, c>> = <<h, d>>
  <2>1. g \in Int /\ h \in Int /\ c \in Int /\ d \in Int
    BY GroupIsCounted, RegistriesAssumption
  <2>2. CASE h < g \/ (h = g /\ d < c)
    BY <1>2, <2>2, EarlierIsFound
  <2>3. CASE g < h \/ (g = h /\ c < d)
    BY <1>2, <2>3, EarlierIsFound
  <2> QED BY <2>1, <2>2, <2>3
<1> QED BY <1>1, <1>2

(* What the loops of init demand of each group *)
LEMMA AcceptedGroup ==
    ASSUME NEW registry \in Registries, NEW g \in 1 .. Len(registry)
    PROVE  GroupStatus(registry, g) = "OK"
           <=> /\ registry[g].valid /\ registry[g].commands # << >>
               /\ ~GroupIdExists(registry, g)
               /\ ~(Len(registry[g].commands) > MaxCommands - CommandsBefore(registry, g))
               /\ \A c \in 1 .. Len(registry[g].commands) :
                     registry[g].commands[c].valid /\ ~IdExists(registry, g, c)
<1>1. DOMAIN registry[g].commands = 1 .. Len(registry[g].commands)
  BY RegistriesAssumption DEF Entries
<1> QED BY <1>1 DEF GroupStatus

LEMMA AcceptedRegistry ==
    ASSUME NEW registry \in Registries
    PROVE  RegistryStatus(registry) = "OK"
           <=> /\ registry # << >> /\ ~(Len(registry) > MaxGroups)
               /\ \A g \in 1 .. Len(registry) : GroupStatus(registry, g) = "OK"
<1>1. DOMAIN registry = 1 .. Len(registry) /\ Len(registry) \in Nat
  BY RegistriesAssumption
<1> DEFINE faulty == {g \in DOMAIN registry : GroupStatus(registry, g) # "OK"}
<1>2. faulty # {} => GroupStatus(registry, Min(faulty)) # "OK"
  <2>1. faulty \in SUBSET Nat
    BY <1>1
  <2>2. faulty # {} => Min(faulty) \in faulty
    <3> HIDE DEF faulty
    <3> QED BY <2>1, MinIsElement
  <2> QED BY <2>2
<1>3. faulty = {} <=> \A g \in 1 .. Len(registry) : GroupStatus(registry, g) = "OK"
  BY <1>1
<1>4. RegistryStatus(registry) =
        IF registry = << >> THEN "INVALID_ARGUMENT"
        ELSE IF Len(registry) > MaxGroups THEN "OUT_OF_RANGE"
        ELSE IF faulty = {} THEN "OK" ELSE GroupStatus(registry, Min(faulty))
  BY DEF RegistryStatus
<1> HIDE DEF faulty
<1> QED BY <1>2, <1>3, <1>4

(* Init accepts exactly the tables without a fault, of any size: neither a *)
(* repeated ID nor a command too many in all slips through, and no table   *)
(* is refused without a reason.                                            *)
THEOREM ValidationIsExact == Spec => []ExactlySoundRegistriesAccepted
<1>1. ASSUME NEW registry \in Registries
      PROVE  RegistryStatus(registry) = "OK" <=> SoundRegistry(registry)
  <2> DEFINE n == Len(registry)
             Usable == \A g \in 1 .. n : registry[g].valid /\ registry[g].commands # << >>
             Fitting == \A g \in 1 .. n :
                 ~(Len(registry[g].commands) > MaxCommands - CommandsBefore(registry, g))
             GroupsDiffer == \A g, h \in 1 .. n : registry[g].id = registry[h].id => g = h
             Callable == \A g \in 1 .. n : \A c \in 1 .. Len(registry[g].commands) :
                             registry[g].commands[c].valid
             CommandsDiffer == \A g, h \in 1 .. n :
                 \A c \in 1 .. Len(registry[g].commands), d \in 1 .. Len(registry[h].commands) :
                    registry[g].commands[c].id = registry[h].commands[d].id => <<g, c>> = <<h, d>>
  <2>1. /\ DOMAIN registry = 1 .. n /\ n \in Nat /\ (registry = << >> <=> n = 0)
        /\ \A g \in 1 .. n : /\ DOMAIN registry[g].commands = 1 .. Len(registry[g].commands)
                             /\ Len(registry[g].commands) \in Nat
                             /\ registry[g].commands # << >>
                                    => 1 \in 1 .. Len(registry[g].commands)
    BY RegistriesAssumption DEF Entries
  <2>2. (\A g \in 1 .. n : GroupStatus(registry, g) = "OK")
            <=> Usable /\ Fitting /\ GroupsDiffer /\ Callable /\ CommandsDiffer
    <3>1. (\A g \in 1 .. n : GroupStatus(registry, g) = "OK")
              <=> /\ Usable /\ Fitting /\ Callable
                  /\ \A g \in 1 .. n : ~GroupIdExists(registry, g)
                  /\ \A g \in 1 .. n : \A c \in 1 .. Len(registry[g].commands) :
                        ~IdExists(registry, g, c)
      BY AcceptedGroup
    <3> QED BY <3>1, GroupIdsAreDistinct, CommandIdsAreDistinct
  <2>3. SoundRegistry(registry)
            <=> /\ n \in 1 .. MaxGroups /\ Usable /\ GroupsDiffer /\ CommandsDiffer
                /\ Callable
                /\ CommandsBefore(registry, n + 1) <= MaxCommands
    <3> DEFINE Pair(g, h) == /\ registry[g].id = registry[h].id => g = h
                            /\ \A c \in 1 .. Len(registry[g].commands),
                                  d \in 1 .. Len(registry[h].commands) :
                                    /\ registry[g].commands[c].valid
                                    /\ registry[g].commands[c].id = registry[h].commands[d].id =>
                                          <<g, c>> = <<h, d>>
    <3>1. SoundRegistry(registry)
              <=> /\ n \in 1 .. MaxGroups
                  /\ \A g \in 1 .. n : /\ registry[g].valid /\ registry[g].commands # << >>
                                       /\ \A h \in 1 .. n : Pair(g, h)
                  /\ CommandsBefore(registry, n + 1) <= MaxCommands
      <4> DEFINE Other(g, h) == /\ registry[g].id = registry[h].id => g = h
                               /\ \A c \in DOMAIN registry[g].commands,
                                     d \in DOMAIN registry[h].commands :
                                       /\ registry[g].commands[c].valid
                                       /\ registry[g].commands[c].id = registry[h].commands[d].id =>
                                             <<g, c>> = <<h, d>>
      <4>1. SoundRegistry(registry)
                <=> /\ n \in 1 .. MaxGroups
                    /\ \A g \in DOMAIN registry :
                           /\ registry[g].valid /\ registry[g].commands # << >>
                           /\ \A h \in DOMAIN registry : Other(g, h)
                    /\ CommandsBefore(registry, n + 1) <= MaxCommands
        BY DEF SoundRegistry
      <4>2. ASSUME NEW g \in 1 .. n, NEW h \in 1 .. n PROVE Other(g, h) <=> Pair(g, h)
        <5>1. /\ DOMAIN registry[g].commands = 1 .. Len(registry[g].commands)
              /\ DOMAIN registry[h].commands = 1 .. Len(registry[h].commands)
          BY <2>1
        <5> QED BY ONLY <5>1
      <4>3. DOMAIN registry = 1 .. n
        BY <2>1
      <4> HIDE DEF Other, Pair, n
      <4> QED BY <4>1, <4>2, <4>3
    <3>2. Usable => ((\A g, h \in 1 .. n : Pair(g, h))
                        <=> GroupsDiffer /\ CommandsDiffer /\ Callable)
      <4>1. ASSUME \A g, h \in 1 .. n : Pair(g, h) PROVE GroupsDiffer /\ CommandsDiffer
        BY <4>1
      <4>2. ASSUME Usable, \A g, h \in 1 .. n : Pair(g, h) PROVE Callable
        <5>1. \A g \in 1 .. n : \A c, d \in 1 .. Len(registry[g].commands) :
                  registry[g].commands[c].valid
          BY <4>2
        <5> QED BY <2>1, <4>2, <5>1
      <4>3. ASSUME GroupsDiffer, CommandsDiffer, Callable
            PROVE  \A g, h \in 1 .. n : Pair(g, h)
        BY <4>3
      <4> QED BY <4>1, <4>2, <4>3
    <3> HIDE DEF Pair, n, GroupsDiffer, CommandsDiffer, Callable
    <3> QED BY <3>1, <3>2
  <2>4. registry # << >> /\ ~(n > MaxGroups) <=> n \in 1 .. MaxGroups
    BY <2>1, LimitsAssumption
  <2>5. n \in 1 .. MaxGroups => (Fitting <=> CommandsBefore(registry, n + 1) <= MaxCommands)
    BY <2>4, LimitIsTotal
  <2> HIDE DEF n, Usable, Fitting, GroupsDiffer, Callable, CommandsDiffer
  <2> QED BY <2>2, <2>3, <2>4, <2>5, AcceptedRegistry DEF n
<1>2. ExactlySoundRegistriesAccepted
  BY <1>1 DEF ExactlySoundRegistriesAccepted
<1> QED BY <1>2, PTL
=============================================================================
