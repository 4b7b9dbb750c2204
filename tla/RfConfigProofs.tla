----------------------------- MODULE RfConfigProofs -----------------------------
(***************************************************************************)
(* RfConfigStore for any channel table, any limits of the strike counter   *)
(* and any number of power losses, failing writes and reseeds.             *)
(***************************************************************************)
EXTENDS RfConfigStore, TLAPS

\* While every write to NVS has succeeded: what is being stored, and that it
\* is there when it is done.
Stored ==
  /\ pc \in {"Identify", "Begin", "Clear", "Hung", "Run"} => Valid(nvs) /\ nvs.cfg = ram.active
  /\ pc \in {"PutConfig", "PutCrc"} => nvs.magic
  /\ pc = "PutCrc" => nvs.cfg = job.cfg
  /\ job.ok

StoreInv ==
  /\ pc \in Storing => job.cfg # None /\ ram.active # None
  /\ pc \in Storing /\ job.by = "Boot" => job.cfg = ram.active
  /\ left.failures <= MaxFailures
  /\ left.failures = MaxFailures => Stored

\* Every strike is a boot that did not complete.
StrikeInv == nvs.strikes <= boots /\ WipeNeedsStrikes

RfInv == TypeOK /\ StoreInv /\ StrikeInv

(* The row of a configuration is a row of the table, or none.              *)
LEMMA IdentityType == ASSUME NEW cfg PROVE IdentityOf(cfg) \in Identity
<1>1. CASE \E c \in Channels : Phy[c] = cfg
  <2>1. (CHOOSE c \in Channels : Phy[c] = cfg) \in Channels BY <1>1
  <2> QED BY <1>1, <2>1 DEF IdentityOf, Identity
<1>2. CASE ~\E c \in Channels : Phy[c] = cfg BY <1>2 DEF IdentityOf, Identity
<1> QED BY <1>1, <1>2

LEMMA ConstantTypes ==
  /\ Default \in Configs /\ None \notin Configs /\ None \notin Channels
  /\ BootCounterMax \in Nat /\ Saturation \in Nat /\ Saturation > BootCounterMax
  /\ MaxLosses \in Nat /\ MaxFailures \in Nat /\ MaxSeeds \in Nat
  /\ \A c \in Channels : Phy[c] \in Configs
  BY StoreAssumption

NvsType == [magic : BOOLEAN, cfg : Configs \cup {None}, crc : Configs \cup {None},
            ident : Identity, strikes : 0 .. Saturation]
FileType == [ident : Identity, persist : BOOLEAN, pinned : Masters]
RamType == [active : Configs \cup {None}, ident : Identity, persist : BOOLEAN,
            pinned : Masters, master : Masters, configNeedsWrite : BOOLEAN]
JobType == [cfg : Configs \cup {None}, ident : Identity,
            by : {"Boot", "Air", "Settings"}, ok : BOOLEAN]

Types == nvs \in NvsType /\ file \in FileType /\ ram \in RamType /\ job \in JobType

LEMMA TypesSplit ==
  TypeOK <=> /\ Types
             /\ pc \in Point /\ boots \in 0 .. Saturation /\ gap \in BOOLEAN
             /\ left \in [losses : Nat, failures : Nat, seeds : Nat]
             /\ pc \in {"Identify", "Begin", "Clear", "Hung", "Run"} => ram.active # None
  BY DEF TypeOK, Types, NvsType, FileType, RamType, JobType

LEMMA SetTypes ==
  /\ None \in Identity /\ Channels \subseteq Identity
  /\ None \in Masters /\ Configs \subseteq Masters
  /\ Off \in RamType /\ NoJob \in JobType
  BY DEF Identity, Masters, Off, NoJob, RamType, JobType

LEMMA InitInv == Init => RfInv
<1> SUFFICES ASSUME Init PROVE RfInv OBVIOUS
<1>1. nvs \in NvsType /\ file \in FileType /\ ram \in RamType /\ job \in JobType
  BY ConstantTypes, SetTypes DEF Init, NvsType, FileType
<1>2. /\ pc \in Point /\ boots \in 0 .. Saturation /\ gap \in BOOLEAN
      /\ left \in [losses : Nat, failures : Nat, seeds : Nat]
      /\ pc \in {"Identify", "Begin", "Clear", "Hung", "Run"} => ram.active # None
  <2>1. left \in [losses : Nat, failures : Nat, seeds : Nat] BY ConstantTypes DEF Init
  <2>2. boots \in 0 .. Saturation BY ConstantTypes DEF Init
  <2> QED BY <2>1, <2>2 DEF Init, Point, Booting
<1>3. TypeOK BY <1>1, <1>2, TypesSplit DEF Types
<1>4. StoreInv BY ConstantTypes DEF Init, StoreInv, Stored, Storing, NoJob
<1>5. StrikeInv BY ConstantTypes DEF Init, StrikeInv, WipeNeedsStrikes
<1> QED BY <1>3, <1>4, <1>5 DEF RfInv

LEMMA NextInv == RfInv /\ [Next]_vars => RfInv'
<1> SUFFICES ASSUME RfInv, [Next]_vars PROVE RfInv' OBVIOUS
<1> USE DEF RfInv
<1>t. /\ nvs \in NvsType /\ file \in FileType /\ ram \in RamType /\ job \in JobType
      /\ pc \in Point /\ boots \in 0 .. Saturation /\ gap \in BOOLEAN
      /\ left \in [losses : Nat, failures : Nat, seeds : Nat]
      /\ pc \in {"Identify", "Begin", "Clear", "Hung", "Run"} => ram.active # None
  BY TypesSplit DEF Types
<1>1. CASE ReadConfig
  <2>1. TypeOK'
    <3>1. nvs' \in NvsType BY <1>1, <1>t, ConstantTypes, SetTypes
      DEF ReadConfig, At, environment, Off, NvsType
    <3>2. file' \in FileType BY <1>1, <1>t, ConstantTypes, SetTypes
      DEF ReadConfig, At, environment, Off, FileType
    <3>3. ram' \in RamType BY <1>1, <1>t, ConstantTypes, SetTypes
      DEF ReadConfig, At, environment, Off, RamType, FileType
    <3>4. job' \in JobType BY <1>1, <1>t, ConstantTypes, SetTypes
      DEF ReadConfig, At, environment, Off, JobType
    <3>5. left' \in [losses : Nat, failures : Nat, seeds : Nat] BY <1>1, <1>t
      DEF ReadConfig, At, environment, Off
    <3>6. pc' \in Point /\ boots' \in 0 .. Saturation /\ gap' \in BOOLEAN
      BY <1>1, <1>t, ConstantTypes DEF ReadConfig, At, environment, Off, Point, Booting, Storing
    <3>7. pc' \in {"Identify", "Begin", "Clear", "Hung", "Run"} => ram'.active # None
      BY <1>1, <1>t, ConstantTypes DEF ReadConfig, At, environment, Off, RamType, FileType
    <3> QED BY <3>1, <3>2, <3>3, <3>4, <3>5, <3>6, <3>7
      DEF TypeOK, NvsType, FileType, RamType, JobType
  <2>2. StoreInv'
    BY <1>1, ConstantTypes
    DEF ReadConfig, At, environment, Off, StoreInv, Stored, TypeOK, Storing, Valid
  <2>3. StrikeInv'
    BY <1>1, ConstantTypes
    DEF ReadConfig, At, environment, Off, StrikeInv, WipeNeedsStrikes, TypeOK
  <2> QED BY <2>1, <2>2, <2>3
<1>2. CASE CountBoot
  <2>1. TypeOK'
    BY <1>2, ConstantTypes
    DEF CountBoot, TypeOK, Identity, Masters, Point, Booting, Storing
  <2>2. StoreInv'
    BY <1>2, ConstantTypes
    DEF CountBoot, StoreInv, Stored, TypeOK, Storing, Valid
  <2>3. StrikeInv'
    BY <1>2, ConstantTypes
    DEF CountBoot, StrikeInv, WipeNeedsStrikes, TypeOK
  <2> QED BY <2>1, <2>2, <2>3
<1>3. CASE WipeMagic
  <2>1. TypeOK'
    <3>1. nvs' \in NvsType BY <1>3, <1>t, ConstantTypes, SetTypes DEF WipeMagic, At, NvsType
    <3>2. file' \in FileType BY <1>3, <1>t, ConstantTypes, SetTypes DEF WipeMagic, At, FileType
    <3>3. ram' \in RamType BY <1>3, <1>t, ConstantTypes, SetTypes DEF WipeMagic, At, RamType
    <3>4. job' \in JobType BY <1>3, <1>t, ConstantTypes, SetTypes DEF WipeMagic, At, JobType
    <3>5. left' \in [losses : Nat, failures : Nat, seeds : Nat] BY <1>3, <1>t DEF WipeMagic, At
    <3>6. pc' \in Point /\ boots' \in 0 .. Saturation /\ gap' \in BOOLEAN
      BY <1>3, <1>t, ConstantTypes DEF WipeMagic, At, Point, Booting, Storing
    <3>7. pc' \in {"Identify", "Begin", "Clear", "Hung", "Run"} => ram'.active # None
      BY <1>3, <1>t, ConstantTypes DEF WipeMagic, At, RamType
    <3> QED BY <3>1, <3>2, <3>3, <3>4, <3>5, <3>6, <3>7
      DEF TypeOK, NvsType, FileType, RamType, JobType
  <2>2. StoreInv'
    BY <1>3, ConstantTypes
    DEF WipeMagic, At, StoreInv, Stored, TypeOK, Storing, Valid
  <2>3. StrikeInv'
    BY <1>3, ConstantTypes
    DEF WipeMagic, At, StrikeInv, WipeNeedsStrikes, TypeOK
  <2> QED BY <2>1, <2>2, <2>3
<1>4. CASE WipeConfig
  <2>1. TypeOK'
    <3>1. nvs' \in NvsType BY <1>4, <1>t, ConstantTypes, SetTypes
      DEF WipeConfig, At, environment, NvsType
    <3>2. file' \in FileType BY <1>4, <1>t, ConstantTypes, SetTypes
      DEF WipeConfig, At, environment, FileType
    <3>3. ram' \in RamType BY <1>4, <1>t, ConstantTypes, SetTypes
      DEF WipeConfig, At, environment, RamType
    <3>4. job' \in JobType BY <1>4, <1>t, ConstantTypes, SetTypes
      DEF WipeConfig, At, environment, JobType
    <3>5. left' \in [losses : Nat, failures : Nat, seeds : Nat] BY <1>4, <1>t
      DEF WipeConfig, At, environment
    <3>6. pc' \in Point /\ boots' \in 0 .. Saturation /\ gap' \in BOOLEAN
      BY <1>4, <1>t, ConstantTypes DEF WipeConfig, At, environment, Point, Booting, Storing
    <3>7. pc' \in {"Identify", "Begin", "Clear", "Hung", "Run"} => ram'.active # None
      BY <1>4, <1>t, ConstantTypes DEF WipeConfig, At, environment, RamType
    <3> QED BY <3>1, <3>2, <3>3, <3>4, <3>5, <3>6, <3>7
      DEF TypeOK, NvsType, FileType, RamType, JobType
  <2>2. StoreInv'
    BY <1>4, ConstantTypes
    DEF WipeConfig, At, environment, StoreInv, Stored, TypeOK, Storing, Valid
  <2>3. StrikeInv'
    BY <1>4, ConstantTypes
    DEF WipeConfig, At, environment, StrikeInv, WipeNeedsStrikes, TypeOK
  <2> QED BY <2>1, <2>2, <2>3
<1>5. CASE WipeCrc
  <2>1. TypeOK'
    <3>1. nvs' \in NvsType BY <1>5, <1>t, ConstantTypes, SetTypes
      DEF WipeCrc, At, environment, NvsType
    <3>2. file' \in FileType BY <1>5, <1>t, ConstantTypes, SetTypes
      DEF WipeCrc, At, environment, FileType
    <3>3. ram' \in RamType BY <1>5, <1>t, ConstantTypes, SetTypes
      DEF WipeCrc, At, environment, RamType
    <3>4. job' \in JobType BY <1>5, <1>t, ConstantTypes, SetTypes
      DEF WipeCrc, At, environment, JobType
    <3>5. left' \in [losses : Nat, failures : Nat, seeds : Nat] BY <1>5, <1>t
      DEF WipeCrc, At, environment
    <3>6. pc' \in Point /\ boots' \in 0 .. Saturation /\ gap' \in BOOLEAN
      BY <1>5, <1>t, ConstantTypes DEF WipeCrc, At, environment, Point, Booting, Storing
    <3>7. pc' \in {"Identify", "Begin", "Clear", "Hung", "Run"} => ram'.active # None
      BY <1>5, <1>t, ConstantTypes DEF WipeCrc, At, environment, RamType
    <3> QED BY <3>1, <3>2, <3>3, <3>4, <3>5, <3>6, <3>7
      DEF TypeOK, NvsType, FileType, RamType, JobType
  <2>2. StoreInv'
    BY <1>5, ConstantTypes
    DEF WipeCrc, At, environment, StoreInv, Stored, TypeOK, Storing, Valid
  <2>3. StrikeInv'
    BY <1>5, ConstantTypes
    DEF WipeCrc, At, environment, StrikeInv, WipeNeedsStrikes, TypeOK
  <2> QED BY <2>1, <2>2, <2>3
<1>6. CASE WipeIdentity
  <2>1. TypeOK'
    BY <1>6, ConstantTypes
    DEF WipeIdentity, At, environment, TypeOK, Identity, Masters, Point, Booting, Storing
  <2>2. StoreInv'
    BY <1>6, ConstantTypes
    DEF WipeIdentity, At, environment, StoreInv, Stored, TypeOK, Storing, Valid
  <2>3. StrikeInv'
    BY <1>6, ConstantTypes
    DEF WipeIdentity, At, environment, StrikeInv, WipeNeedsStrikes, TypeOK
  <2> QED BY <2>1, <2>2, <2>3
<1>7. CASE WipeCount
  <2>1. TypeOK'
    BY <1>7, ConstantTypes
    DEF WipeCount, At, TypeOK, Identity, Masters, Point, Booting, Storing
  <2>2. StoreInv'
    BY <1>7, ConstantTypes
    DEF WipeCount, At, StoreInv, Stored, TypeOK, Storing, Valid
  <2>3. StrikeInv'
    BY <1>7, ConstantTypes
    DEF WipeCount, At, StrikeInv, WipeNeedsStrikes, TypeOK
  <2> QED BY <2>1, <2>2, <2>3
<1>8. CASE LoadStored
  <2>1. TypeOK'
    BY <1>8, ConstantTypes
    DEF LoadStored, At, environment, Valid, TypeOK, Identity, Masters, Point, Booting, Storing
  <2>2. StoreInv'
    BY <1>8, ConstantTypes
    DEF LoadStored, At, environment, Valid, StoreInv, Stored, TypeOK, Storing
  <2>3. StrikeInv'
    BY <1>8, ConstantTypes
    DEF LoadStored, At, environment, Valid, StrikeInv, WipeNeedsStrikes, TypeOK
  <2> QED BY <2>1, <2>2, <2>3
<1>9. CASE LoadDefault
  <2>1. TypeOK'
    BY ZenonT(40), <1>9, ConstantTypes
    DEF LoadDefault, At, environment, NoJob, TypeOK, Identity, Masters, Point, Booting, Storing
  <2>2. StoreInv'
    BY <1>9, ConstantTypes
    DEF LoadDefault, At, environment, NoJob, StoreInv, Stored, TypeOK, Storing, Valid
  <2>3. StrikeInv'
    BY <1>9, ConstantTypes
    DEF LoadDefault, At, environment, NoJob, StrikeInv, WipeNeedsStrikes, TypeOK
  <2> QED BY <2>1, <2>2, <2>3
<1>10. CASE Identify
  <2>1. TypeOK'
    <3> DEFINE id == IdentifiedAs(nvs, ram.active)
    <3>0. id \in Identity BY <1>t, IdentityType DEF NvsType, IdentifiedAs
    <3>0a. /\ nvs' \in {nvs, [nvs EXCEPT !.ident = id]} /\ file' = file
           /\ ram' \in {[ram EXCEPT !.ident = id, !.persist = FALSE, !.master = None,
                                   !.configNeedsWrite = TRUE],
                       [ram EXCEPT !.ident = id]}
      BY <1>10 DEF Identify, At, Try
    <3> HIDE DEF id
    <3>1. nvs' \in NvsType BY <3>0, <3>0a, <1>t DEF NvsType
    <3>2. file' \in FileType BY <3>0a, <1>t
    <3>3. ram' \in RamType BY <3>0, <3>0a, <1>t, SetTypes DEF RamType
    <3>4. job' \in JobType BY <1>10, <1>t, ConstantTypes, SetTypes, IdentityType
      DEF Identify, At, Try, IdentifiedAs, JobType
    <3>5. left' \in [losses : Nat, failures : Nat, seeds : Nat] BY <1>10, <1>t
      DEF Identify, At, Try, IdentifiedAs
    <3>6. pc' \in Point /\ boots' \in 0 .. Saturation /\ gap' \in BOOLEAN
      BY <1>10, <1>t, ConstantTypes DEF Identify, At, Try, IdentifiedAs, Point, Booting, Storing
    <3>7. pc' \in {"Identify", "Begin", "Clear", "Hung", "Run"} => ram'.active # None
      BY <1>10, <1>t, ConstantTypes DEF Identify, At, Try, IdentifiedAs, RamType
    <3> QED BY <3>1, <3>2, <3>3, <3>4, <3>5, <3>6, <3>7
      DEF TypeOK, NvsType, FileType, RamType, JobType
  <2>2. StoreInv'
    BY <1>10, ConstantTypes
    DEF Identify, At, Try, IdentifiedAs, StoreInv, Stored, TypeOK, Storing, Valid
  <2>3. StrikeInv'
    BY <1>10, ConstantTypes
    DEF Identify, At, Try, IdentifiedAs, StrikeInv, WipeNeedsStrikes, TypeOK
  <2> QED BY <2>1, <2>2, <2>3
<1>11. CASE Begin
  <2>1. TypeOK'
    BY <1>11, ConstantTypes
    DEF Begin, environment, TypeOK, Identity, Masters, Point, Booting, Storing
  <2>2. StoreInv'
    BY <1>11, ConstantTypes
    DEF Begin, environment, StoreInv, Stored, TypeOK, Storing, Valid
  <2>3. StrikeInv'
    BY <1>11, ConstantTypes
    DEF Begin, environment, StrikeInv, WipeNeedsStrikes, TypeOK
  <2> QED BY <2>1, <2>2, <2>3
<1>12. CASE Clear
  <2>1. TypeOK'
    BY <1>12, ConstantTypes
    DEF Clear, At, Try, TypeOK, Identity, Masters, Point, Booting, Storing
  <2>2. StoreInv'
    BY <1>12, ConstantTypes
    DEF Clear, At, Try, StoreInv, Stored, TypeOK, Storing, Valid
  <2>3. StrikeInv'
    BY <1>12, ConstantTypes
    DEF Clear, At, Try, StrikeInv, WipeNeedsStrikes, TypeOK
  <2> QED BY <2>1, <2>2, <2>3
<1>13. CASE PutMagic
  <2>1. TypeOK'
    <3>1. nvs' \in NvsType BY <1>13, <1>t, ConstantTypes, SetTypes
      DEF PutMagic, At, Put, NvsType
    <3>2. file' \in FileType BY <1>13, <1>t, ConstantTypes, SetTypes
      DEF PutMagic, At, Put, FileType
    <3>3. ram' \in RamType BY <1>13, <1>t, ConstantTypes, SetTypes
      DEF PutMagic, At, Put, RamType
    <3>4. job' \in JobType BY <1>13, <1>t, ConstantTypes, SetTypes
      DEF PutMagic, At, Put, JobType
    <3>5. left' \in [losses : Nat, failures : Nat, seeds : Nat] BY <1>13, <1>t
      DEF PutMagic, At, Put
    <3>6. pc' \in Point /\ boots' \in 0 .. Saturation /\ gap' \in BOOLEAN
      BY <1>13, <1>t, ConstantTypes DEF PutMagic, At, Put, Point, Booting, Storing
    <3>7. pc' \in {"Identify", "Begin", "Clear", "Hung", "Run"} => ram'.active # None
      BY <1>13, <1>t, ConstantTypes DEF PutMagic, At, Put, RamType
    <3> QED BY <3>1, <3>2, <3>3, <3>4, <3>5, <3>6, <3>7
      DEF TypeOK, NvsType, FileType, RamType, JobType
  <2>2. StoreInv'
    BY <1>13, ConstantTypes
    DEF PutMagic, At, Put, StoreInv, Stored, TypeOK, Storing, Valid
  <2>3. StrikeInv'
    BY <1>13, ConstantTypes
    DEF PutMagic, At, Put, StrikeInv, WipeNeedsStrikes, TypeOK
  <2> QED BY <2>1, <2>2, <2>3
<1>14. CASE PutConfig
  <2>1. TypeOK'
    <3>1. nvs' \in NvsType BY <1>14, <1>t, ConstantTypes, SetTypes
      DEF PutConfig, At, Put, NvsType, JobType
    <3>2. file' \in FileType BY <1>14, <1>t, ConstantTypes, SetTypes
      DEF PutConfig, At, Put, FileType
    <3>3. ram' \in RamType BY <1>14, <1>t, ConstantTypes, SetTypes
      DEF PutConfig, At, Put, RamType
    <3>4. job' \in JobType BY <1>14, <1>t, ConstantTypes, SetTypes
      DEF PutConfig, At, Put, JobType
    <3>5. left' \in [losses : Nat, failures : Nat, seeds : Nat] BY <1>14, <1>t
      DEF PutConfig, At, Put
    <3>6. pc' \in Point /\ boots' \in 0 .. Saturation /\ gap' \in BOOLEAN
      BY <1>14, <1>t, ConstantTypes DEF PutConfig, At, Put, Point, Booting, Storing
    <3>7. pc' \in {"Identify", "Begin", "Clear", "Hung", "Run"} => ram'.active # None
      BY <1>14, <1>t, ConstantTypes DEF PutConfig, At, Put, RamType
    <3> QED BY <3>1, <3>2, <3>3, <3>4, <3>5, <3>6, <3>7
      DEF TypeOK, NvsType, FileType, RamType, JobType
  <2>2. StoreInv'
    BY <1>14, ConstantTypes
    DEF PutConfig, At, Put, StoreInv, Stored, TypeOK, Storing, Valid
  <2>3. StrikeInv'
    BY <1>14, ConstantTypes
    DEF PutConfig, At, Put, StrikeInv, WipeNeedsStrikes, TypeOK
  <2> QED BY <2>1, <2>2, <2>3
<1>15. CASE PutCrc
  <2>1. TypeOK'
    <3>1. nvs' \in NvsType BY <1>15, <1>t, ConstantTypes, SetTypes
      DEF PutCrc, Put, NvsType, JobType
    <3>2. file' \in FileType BY <1>15, <1>t, ConstantTypes, SetTypes DEF PutCrc, Put, FileType
    <3>3. ram' \in RamType BY <1>15, <1>t, ConstantTypes, SetTypes DEF PutCrc, Put, RamType
    <3>4. job' \in JobType BY <1>15, <1>t, ConstantTypes, SetTypes DEF PutCrc, Put, JobType
    <3>5. left' \in [losses : Nat, failures : Nat, seeds : Nat] BY <1>15, <1>t DEF PutCrc, Put
    <3>6. pc' \in Point /\ boots' \in 0 .. Saturation /\ gap' \in BOOLEAN
      BY <1>15, <1>t, ConstantTypes DEF PutCrc, Put, Point, Booting, Storing, JobType
    <3>7. pc' \in {"Identify", "Begin", "Clear", "Hung", "Run"} => ram'.active # None
      BY <1>15, <1>t, ConstantTypes DEF PutCrc, Put, RamType, JobType, StoreInv, Storing
    <3> QED BY <3>1, <3>2, <3>3, <3>4, <3>5, <3>6, <3>7
      DEF TypeOK, NvsType, FileType, RamType, JobType
  <2>2. StoreInv'
    BY <1>15, ConstantTypes
    DEF PutCrc, Put, StoreInv, Stored, TypeOK, Storing, Valid
  <2>3. StrikeInv'
    BY <1>15, ConstantTypes
    DEF PutCrc, Put, StrikeInv, WipeNeedsStrikes, TypeOK
  <2> QED BY <2>1, <2>2, <2>3
<1>16. CASE PutIdentity
  <2>1. TypeOK'
    BY <1>16, ConstantTypes
    DEF PutIdentity, At, Try, TypeOK, Identity, Masters, Point, Booting, Storing
  <2>2. StoreInv'
    BY <1>16, ConstantTypes
    DEF PutIdentity, At, Try, StoreInv, Stored, TypeOK, Storing, Valid
  <2>3. StrikeInv'
    BY <1>16, ConstantTypes
    DEF PutIdentity, At, Try, StrikeInv, WipeNeedsStrikes, TypeOK
  <2> QED BY <2>1, <2>2, <2>3
<1>17. CASE Save
  <2>1. TypeOK'
    <3>1. nvs' \in NvsType BY <1>17, <1>t, ConstantTypes, SetTypes
      DEF Save, At, FileOf, environment, NvsType
    <3>2. file' \in FileType BY <1>17, <1>t, ConstantTypes, SetTypes
      DEF Save, At, FileOf, environment, FileType, RamType
    <3>3. ram' \in RamType BY <1>17, <1>t, ConstantTypes, SetTypes
      DEF Save, At, FileOf, environment, RamType, JobType
    <3>4. job' \in JobType BY <1>17, <1>t, ConstantTypes, SetTypes
      DEF Save, At, FileOf, environment, JobType
    <3>5. left' \in [losses : Nat, failures : Nat, seeds : Nat] BY <1>17, <1>t
      DEF Save, At, FileOf, environment
    <3>6. pc' \in Point /\ boots' \in 0 .. Saturation /\ gap' \in BOOLEAN
      BY <1>17, <1>t, ConstantTypes DEF Save, At, FileOf, environment, Point, Booting, Storing
    <3>7. pc' \in {"Identify", "Begin", "Clear", "Hung", "Run"} => ram'.active # None
      BY <1>17, <1>t, ConstantTypes DEF Save, At, FileOf, environment, RamType
    <3> QED BY <3>1, <3>2, <3>3, <3>4, <3>5, <3>6, <3>7
      DEF TypeOK, NvsType, FileType, RamType, JobType
  <2>2. StoreInv'
    BY <1>17, ConstantTypes
    DEF Save, At, environment, FileOf, StoreInv, Stored, TypeOK, Storing, Valid
  <2>3. StrikeInv'
    BY <1>17, ConstantTypes
    DEF Save, At, environment, FileOf, StrikeInv, WipeNeedsStrikes, TypeOK
  <2> QED BY <2>1, <2>2, <2>3
<1>18. CASE Restart
  <2>1. TypeOK'
    BY <1>18, ConstantTypes
    DEF Restart, Reboots, environment, Off, NoJob, TypeOK, Identity, Masters, Point, Booting, Storing
  <2>2. StoreInv'
    BY <1>18, ConstantTypes
    DEF Restart, Reboots, environment, Off, NoJob, StoreInv, Stored, TypeOK, Storing, Valid
  <2>3. StrikeInv'
    BY <1>18, ConstantTypes
    DEF Restart, Reboots, environment, Off, NoJob, StrikeInv, WipeNeedsStrikes, TypeOK
  <2> QED BY <2>1, <2>2, <2>3
<1>19. CASE LearnMaster
  <2>1. TypeOK'
    <3>1. nvs' \in NvsType BY <1>19, <1>t, ConstantTypes, SetTypes
      DEF LearnMaster, Running, Pinned, NvsType
    <3>2. file' \in FileType BY <1>19, <1>t, ConstantTypes, SetTypes
      DEF LearnMaster, Running, Pinned, FileType
    <3>3. ram' \in RamType BY <1>19, <1>t, ConstantTypes, SetTypes
      DEF LearnMaster, Running, Pinned, RamType
    <3>4. job' \in JobType BY <1>19, <1>t, ConstantTypes, SetTypes
      DEF LearnMaster, Running, Pinned, JobType
    <3>5. left' \in [losses : Nat, failures : Nat, seeds : Nat] BY <1>19, <1>t
      DEF LearnMaster, Running, Pinned
    <3>6. pc' \in Point /\ boots' \in 0 .. Saturation /\ gap' \in BOOLEAN
      BY <1>19, <1>t, ConstantTypes DEF LearnMaster, Running, Pinned, Point, Booting, Storing
    <3>7. pc' \in {"Identify", "Begin", "Clear", "Hung", "Run"} => ram'.active # None
      BY <1>19, <1>t, ConstantTypes DEF LearnMaster, Running, Pinned, RamType
    <3> QED BY <3>1, <3>2, <3>3, <3>4, <3>5, <3>6, <3>7
      DEF TypeOK, NvsType, FileType, RamType, JobType
  <2>2. StoreInv'
    BY <1>19, ConstantTypes
    DEF LearnMaster, Running, Pinned, StoreInv, Stored, TypeOK, Storing, Valid
  <2>3. StrikeInv'
    BY <1>19, ConstantTypes
    DEF LearnMaster, Running, Pinned, StrikeInv, WipeNeedsStrikes, TypeOK
  <2> QED BY <2>1, <2>2, <2>3
<1>20. CASE ClearMaster
  <2>1. TypeOK'
    BY <1>20, ConstantTypes
    DEF ClearMaster, Running, TypeOK, Identity, Masters, Point, Booting, Storing
  <2>2. StoreInv'
    BY <1>20, ConstantTypes
    DEF ClearMaster, Running, StoreInv, Stored, TypeOK, Storing, Valid
  <2>3. StrikeInv'
    BY <1>20, ConstantTypes
    DEF ClearMaster, Running, StrikeInv, WipeNeedsStrikes, TypeOK
  <2> QED BY <2>1, <2>2, <2>3
<1>21. CASE WriteConfig
  <2>1. TypeOK'
    <3>1. nvs' \in NvsType BY <1>21, <1>t, ConstantTypes, SetTypes
      DEF WriteConfig, FileOf, environment, NvsType
    <3>2. file' \in FileType BY <1>21, <1>t, ConstantTypes, SetTypes
      DEF WriteConfig, FileOf, environment, FileType, RamType
    <3>3. ram' \in RamType BY <1>21, <1>t, ConstantTypes, SetTypes
      DEF WriteConfig, FileOf, environment, RamType
    <3>4. job' \in JobType BY <1>21, <1>t, ConstantTypes, SetTypes
      DEF WriteConfig, FileOf, environment, JobType
    <3>5. left' \in [losses : Nat, failures : Nat, seeds : Nat] BY <1>21, <1>t
      DEF WriteConfig, FileOf, environment
    <3>6. pc' \in Point /\ boots' \in 0 .. Saturation /\ gap' \in BOOLEAN
      BY <1>21, <1>t, ConstantTypes
      DEF WriteConfig, FileOf, environment, Point, Booting, Storing
    <3>7. pc' \in {"Identify", "Begin", "Clear", "Hung", "Run"} => ram'.active # None
      BY <1>21, <1>t, ConstantTypes DEF WriteConfig, FileOf, environment, RamType
    <3> QED BY <3>1, <3>2, <3>3, <3>4, <3>5, <3>6, <3>7
      DEF TypeOK, NvsType, FileType, RamType, JobType
  <2>2. StoreInv'
    BY <1>21, ConstantTypes
    DEF WriteConfig, FileOf, environment, StoreInv, Stored, TypeOK, Storing, Valid
  <2>3. StrikeInv'
    BY <1>21, ConstantTypes
    DEF WriteConfig, FileOf, environment, StrikeInv, WipeNeedsStrikes, TypeOK
  <2> QED BY <2>1, <2>2, <2>3
<1>22. CASE PowerLoss
  <2>1. TypeOK'
    BY <1>22, ConstantTypes
    DEF PowerLoss, Reboots, Off, NoJob, TypeOK, Identity, Masters, Point, Booting, Storing
  <2>2. StoreInv'
    BY <1>22, ConstantTypes
    DEF PowerLoss, Reboots, Off, NoJob, StoreInv, Stored, TypeOK, Storing, Valid
  <2>3. StrikeInv'
    BY <1>22, ConstantTypes
    DEF PowerLoss, Reboots, Off, NoJob, StrikeInv, WipeNeedsStrikes, TypeOK
  <2> QED BY <2>1, <2>2, <2>3
<1>23. CASE OperatorCycles
  <2>1. TypeOK'
    BY <1>23, ConstantTypes
    DEF OperatorCycles, Reboots, Off, NoJob, environment, TypeOK, Identity, Masters, Point, Booting, Storing
  <2>2. StoreInv'
    BY <1>23, ConstantTypes
    DEF OperatorCycles, Reboots, Off, NoJob, environment, StoreInv, Stored, TypeOK, Storing, Valid
  <2>3. StrikeInv'
    BY <1>23, ConstantTypes
    DEF OperatorCycles, Reboots, Off, NoJob, environment, StrikeInv, WipeNeedsStrikes, TypeOK
  <2> QED BY <2>1, <2>2, <2>3
<1>24. CASE \E cfg \in Configs : RfConfigPacket(cfg)
  <2>1. TypeOK'
    <3>1. nvs' \in NvsType BY <1>24, <1>t, ConstantTypes, SetTypes
      DEF RfConfigPacket, At, environment, NoJob, NvsType
    <3>2. file' \in FileType BY <1>24, <1>t, ConstantTypes, SetTypes
      DEF RfConfigPacket, At, environment, NoJob, FileType
    <3>3. ram' \in RamType BY <1>24, <1>t, ConstantTypes, SetTypes
      DEF RfConfigPacket, At, environment, NoJob, RamType
    <3>4. job' \in JobType BY <1>24, <1>t, ConstantTypes, SetTypes
      DEF RfConfigPacket, At, environment, NoJob, JobType
    <3>5. left' \in [losses : Nat, failures : Nat, seeds : Nat] BY <1>24, <1>t
      DEF RfConfigPacket, At, environment, NoJob
    <3>6. pc' \in Point /\ boots' \in 0 .. Saturation /\ gap' \in BOOLEAN
      BY <1>24, <1>t, ConstantTypes DEF RfConfigPacket, At, environment, NoJob, Point, Booting, Storing
    <3>7. pc' \in {"Identify", "Begin", "Clear", "Hung", "Run"} => ram'.active # None
      BY <1>24, <1>t, ConstantTypes DEF RfConfigPacket, At, environment, NoJob, RamType
    <3> QED BY <3>1, <3>2, <3>3, <3>4, <3>5, <3>6, <3>7
      DEF TypeOK, NvsType, FileType, RamType, JobType
  <2>2. StoreInv'
    BY <1>24, ConstantTypes
    DEF RfConfigPacket, At, environment, NoJob, StoreInv, Stored, TypeOK, Storing, Valid
  <2>3. StrikeInv'
    BY <1>24, ConstantTypes
    DEF RfConfigPacket, At, environment, NoJob, StrikeInv, WipeNeedsStrikes, TypeOK
  <2> QED BY <2>1, <2>2, <2>3
<1>25. CASE \E c \in Channels : ChannelSetting(c)
  <2>1. TypeOK'
    <3>1. nvs' \in NvsType BY <1>25, <1>t, ConstantTypes, SetTypes
      DEF ChannelSetting, At, environment, NoJob, NvsType
    <3>2. file' \in FileType BY <1>25, <1>t, ConstantTypes, SetTypes
      DEF ChannelSetting, At, environment, NoJob, FileType
    <3>3. ram' \in RamType BY <1>25, <1>t, ConstantTypes, SetTypes
      DEF ChannelSetting, At, environment, NoJob, RamType
    <3>4. job' \in JobType BY <1>25, <1>t, ConstantTypes, SetTypes
      DEF ChannelSetting, At, environment, NoJob, JobType
    <3>5. left' \in [losses : Nat, failures : Nat, seeds : Nat] BY <1>25, <1>t
      DEF ChannelSetting, At, environment, NoJob
    <3>6. pc' \in Point /\ boots' \in 0 .. Saturation /\ gap' \in BOOLEAN
      BY <1>25, <1>t, ConstantTypes DEF ChannelSetting, At, environment, NoJob, Point, Booting, Storing
    <3>7. pc' \in {"Identify", "Begin", "Clear", "Hung", "Run"} => ram'.active # None
      BY <1>25, <1>t, ConstantTypes DEF ChannelSetting, At, environment, NoJob, RamType
    <3> QED BY <3>1, <3>2, <3>3, <3>4, <3>5, <3>6, <3>7
      DEF TypeOK, NvsType, FileType, RamType, JobType
  <2>2. StoreInv'
    BY <1>25, ConstantTypes
    DEF ChannelSetting, At, environment, NoJob, StoreInv, Stored, TypeOK, Storing, Valid
  <2>3. StrikeInv'
    BY <1>25, ConstantTypes
    DEF ChannelSetting, At, environment, NoJob, StrikeInv, WipeNeedsStrikes, TypeOK
  <2> QED BY <2>1, <2>2, <2>3
<1>26. CASE \E on \in BOOLEAN : SetPersist(on)
  <2>1. TypeOK'
    <3>1. nvs' \in NvsType BY <1>26, <1>t, ConstantTypes, SetTypes
      DEF SetPersist, Running, Pinned, NvsType
    <3>2. file' \in FileType BY <1>26, <1>t, ConstantTypes, SetTypes
      DEF SetPersist, Running, Pinned, FileType
    <3>3. ram' \in RamType BY ZenonT(40), <1>26, <1>t, ConstantTypes, SetTypes
      DEF SetPersist, Running, Pinned, RamType
    <3>4. job' \in JobType BY <1>26, <1>t, ConstantTypes, SetTypes
      DEF SetPersist, Running, Pinned, JobType
    <3>5. left' \in [losses : Nat, failures : Nat, seeds : Nat] BY <1>26, <1>t
      DEF SetPersist, Running, Pinned
    <3>6. pc' \in Point /\ boots' \in 0 .. Saturation /\ gap' \in BOOLEAN
      BY <1>26, <1>t, ConstantTypes DEF SetPersist, Running, Pinned, Point, Booting, Storing
    <3>7. pc' \in {"Identify", "Begin", "Clear", "Hung", "Run"} => ram'.active # None
      BY <1>26, <1>t, ConstantTypes DEF SetPersist, Running, Pinned, RamType
    <3> QED BY <3>1, <3>2, <3>3, <3>4, <3>5, <3>6, <3>7
      DEF TypeOK, NvsType, FileType, RamType, JobType
  <2>2. StoreInv'
    BY <1>26, ConstantTypes
    DEF SetPersist, Running, Pinned, StoreInv, Stored, TypeOK, Storing, Valid
  <2>3. StrikeInv'
    BY <1>26, ConstantTypes
    DEF SetPersist, Running, Pinned, StrikeInv, WipeNeedsStrikes, TypeOK
  <2> QED BY <2>1, <2>2, <2>3
<1>27. CASE \E c \in Channels : Reseed(c)
  <2>1. TypeOK'
    BY <1>27, ConstantTypes
    DEF Reseed, TypeOK, Identity, Masters, Point, Booting, Storing
  <2>2. StoreInv'
    BY <1>27, ConstantTypes
    DEF Reseed, StoreInv, Stored, TypeOK, Storing, Valid
  <2>3. StrikeInv'
    BY <1>27, ConstantTypes
    DEF Reseed, StrikeInv, WipeNeedsStrikes, TypeOK
  <2> QED BY <2>1, <2>2, <2>3
<1>28. CASE UNCHANGED vars
  BY <1>28
  DEF vars, TypeOK, StoreInv, Stored, StrikeInv, WipeNeedsStrikes, Valid
<1> QED
  BY <1>1, <1>2, <1>3, <1>4, <1>5, <1>6, <1>7, <1>8, <1>9, <1>10, <1>11, <1>12, <1>13, <1>14,
     <1>15, <1>16, <1>17, <1>18, <1>19, <1>20, <1>21, <1>22, <1>23, <1>24, <1>25, <1>26, <1>27, <1>28
  DEF Next, Boot, Store, Move, Command, Outside

LEMMA InvHolds == Spec => []RfInv
  BY InitInv, NextInv, PTL DEF Spec

(* Every variable keeps its type, and a node that runs has a configuration. *)
THEOREM TypeCorrect == Spec => []TypeOK
  BY InvHolds, PTL DEF RfInv

(* Unless a write to NVS failed, a node that runs comes up on the same      *)
(* configuration again, wherever power was lost before.                    *)
THEOREM StoredIsRun == Spec => []RunningIsStored
<1>1. RfInv => RunningIsStored BY DEF RfInv, StoreInv, Stored, RunningIsStored
<1> QED BY <1>1, InvHolds, PTL

(* The boot counter throws a configuration away only after as many boots    *)
(* without a radio as it says.                                             *)
THEOREM WipeHasStrikes == Spec => []WipeNeedsStrikes
<1>1. RfInv => WipeNeedsStrikes BY DEF RfInv, StrikeInv
<1> QED BY <1>1, InvHolds, PTL

-----------------------------------------------------------------------------
(* The master.                                                             *)

\* Past the magic of a wipe, and a boot that the strikes send into one.
Wiping == {"WipeConfig", "WipeCrc", "WipeIdentity", "WipeCount"}
Doomed ==
  \/ pc \in {"ReadConfig", "Count"} /\ nvs.strikes >= BootCounterMax
  \/ pc \in Wiping \cup {"WipeSlot"}

WipeInv ==
  /\ pc \in Wiping \cup {"WipeSlot"} => nvs.strikes > BootCounterMax
  /\ pc \in Wiping => ~nvs.magic
  /\ pc \in {"WipeIdentity", "WipeCount"} => nvs.crc = None
  /\ pc = "WipeCount" => nvs.ident = None

BootStoring == pc \in Storing /\ job.by = "Boot"

\* The firmware has read cfg.json and not yet met the channel.
Unmet ==
  \/ pc \in Wiping \cup {"Count", "WipeSlot", "Load", "Identify"}
  \/ BootStoring

\* What a store has written, and what the firmware has of cfg.json.
FlashInv ==
  /\ pc = "Restart" => ~file.persist
  /\ pc \in {"PutConfig", "PutCrc"} /\ job.ok => nvs.magic
  /\ pc \in {"PutIdentity", "Save", "Restart"} => nvs.magic /\ job.by # "Boot"
  /\ BootStoring => ram.active = Default
  /\ Unmet => /\ ram.ident = file.ident /\ ram.persist = file.persist
              /\ ram.pinned = file.pinned
              /\ ram.master = IF file.persist THEN file.pinned ELSE None

\* The next boot adopts no master out of reach, nor does this one: a store of
\* the default never makes an older configuration valid again.
Bound ==
  /\ pc \in Wiping => ~Strands(Default, IdentityOf(Default))
  /\ ~Doomed /\ ~nvs.magic => nvs.crc \in {None, Default}
  /\ ~Doomed /\ ~Moving => ~Strands(BootsOn(nvs), IdentifiedAs(nvs, BootsOn(nvs)))
  /\ BootStoring \/ pc \in {"Identify", "Begin", "Clear", "Hung", "Run"} =>
       BootsOn(nvs) = ram.active
  /\ pc \in {"Begin", "Clear", "Hung", "Run"} =>
       /\ ram.master \in {None, ram.active}
       /\ ram.persist => ram.pinned \in {None, ram.active}

MasterInv == WipeInv /\ FlashInv /\ (~gap => Bound)

LEMMA MasterInit == Init => MasterInv
  BY DEF Init, Off, MasterInv, WipeInv, FlashInv, Bound, Wiping, Unmet, BootStoring, Storing,
         Strands, Doomed

LEMMA WipeInvNext == RfInv /\ WipeInv /\ [Next]_vars => WipeInv'
<1> SUFFICES ASSUME RfInv, WipeInv, [Next]_vars PROVE WipeInv' OBVIOUS
<1> USE ConstantTypes DEF RfInv, TypeOK, WipeInv, Wiping
<1>1. CASE ReadConfig BY <1>1 DEF ReadConfig, At, environment, Off
<1>2. CASE CountBoot BY <1>2 DEF CountBoot
<1>3. CASE WipeMagic BY <1>3 DEF WipeMagic, At
<1>4. CASE WipeConfig BY <1>4 DEF WipeConfig, At, environment
<1>5. CASE WipeCrc BY <1>5 DEF WipeCrc, At, environment
<1>6. CASE WipeIdentity BY <1>6 DEF WipeIdentity, At, environment
<1>7. CASE WipeCount BY <1>7 DEF WipeCount, At
<1>8. CASE LoadStored BY <1>8 DEF LoadStored, At, environment
<1>9. CASE LoadDefault BY <1>9 DEF LoadDefault, At, environment, NoJob
<1>10. CASE Identify BY <1>10 DEF Identify, At, Try
<1>11. CASE Begin BY <1>11 DEF Begin, environment
<1>12. CASE Clear BY <1>12 DEF Clear, At, Try
<1>13. CASE PutMagic BY <1>13 DEF PutMagic, At, Put
<1>14. CASE PutConfig BY <1>14 DEF PutConfig, At, Put
<1>15. CASE PutCrc BY <1>15 DEF PutCrc, Put
<1>16. CASE PutIdentity BY <1>16 DEF PutIdentity, At, Try
<1>17. CASE Save BY <1>17 DEF Save, At, FileOf
<1>18. CASE Restart BY <1>18 DEF Restart, Reboots, environment
<1>19. CASE LearnMaster BY <1>19 DEF LearnMaster, Running, Pinned
<1>20. CASE ClearMaster BY <1>20 DEF ClearMaster, Running
<1>21. CASE WriteConfig BY <1>21 DEF WriteConfig, environment, FileOf
<1>22. CASE PowerLoss BY <1>22 DEF PowerLoss, Reboots
<1>23. CASE OperatorCycles BY <1>23 DEF OperatorCycles, Reboots, environment
<1>24. CASE \E cfg \in Configs : RfConfigPacket(cfg) BY <1>24 DEF RfConfigPacket, At, environment
<1>25. CASE \E c \in Channels : ChannelSetting(c) BY <1>25 DEF ChannelSetting, At, environment
<1>26. CASE \E on \in BOOLEAN : SetPersist(on) BY <1>26 DEF SetPersist, Running, Pinned
<1>27. CASE \E c \in Channels : Reseed(c) BY <1>27 DEF Reseed
<1>28. CASE UNCHANGED vars BY <1>28 DEF vars
<1> QED
  BY <1>1, <1>2, <1>3, <1>4, <1>5, <1>6, <1>7, <1>8, <1>9, <1>10, <1>11, <1>12, <1>13, <1>14,
     <1>15, <1>16, <1>17, <1>18, <1>19, <1>20, <1>21, <1>22, <1>23, <1>24, <1>25, <1>26, <1>27, <1>28
  DEF Next, Boot, Store, Move, Command, Outside

LEMMA FlashInvNext == RfInv /\ FlashInv /\ [Next]_vars => FlashInv'
<1> SUFFICES ASSUME RfInv, FlashInv, [Next]_vars PROVE FlashInv' OBVIOUS
<1> USE DEF RfInv, TypeOK, FlashInv, Unmet, BootStoring, Wiping, Storing
<1>1. CASE ReadConfig BY <1>1 DEF ReadConfig, At, environment, Off
<1>2. CASE CountBoot BY <1>2 DEF CountBoot
<1>3. CASE WipeMagic BY <1>3 DEF WipeMagic, At
<1>4. CASE WipeConfig BY <1>4 DEF WipeConfig, At, environment
<1>5. CASE WipeCrc BY <1>5 DEF WipeCrc, At, environment
<1>6. CASE WipeIdentity BY <1>6 DEF WipeIdentity, At, environment
<1>7. CASE WipeCount BY <1>7 DEF WipeCount, At
<1>8. CASE LoadStored BY <1>8 DEF LoadStored, At, environment
<1>9. CASE LoadDefault BY <1>9 DEF LoadDefault, At, environment, NoJob
<1>10. CASE Identify BY <1>10 DEF Identify, At, Try
<1>11. CASE Begin BY <1>11 DEF Begin, environment
<1>12. CASE Clear BY <1>12 DEF Clear, At, Try
<1>13. CASE PutMagic BY <1>13 DEF PutMagic, At, Put
<1>14. CASE PutConfig BY <1>14 DEF PutConfig, At, Put
<1>15. CASE PutCrc BY <1>15 DEF PutCrc, Put
<1>16. CASE PutIdentity BY <1>16 DEF PutIdentity, At, Try
<1>17. CASE Save BY <1>17 DEF Save, At, FileOf
<1>18. CASE Restart BY <1>18 DEF Restart, Reboots, environment
<1>19. CASE LearnMaster BY <1>19 DEF LearnMaster, Running, Pinned
<1>20. CASE ClearMaster BY <1>20 DEF ClearMaster, Running
<1>21. CASE WriteConfig BY <1>21 DEF WriteConfig, environment, FileOf
<1>22. CASE PowerLoss BY <1>22 DEF PowerLoss, Reboots
<1>23. CASE OperatorCycles BY <1>23 DEF OperatorCycles, Reboots, environment
<1>24. CASE \E cfg \in Configs : RfConfigPacket(cfg) BY <1>24 DEF RfConfigPacket, At, environment
<1>25. CASE \E c \in Channels : ChannelSetting(c) BY <1>25 DEF ChannelSetting, At, environment
<1>26. CASE \E on \in BOOLEAN : SetPersist(on) BY <1>26 DEF SetPersist, Running, Pinned
<1>27. CASE \E c \in Channels : Reseed(c) BY <1>27 DEF Reseed
<1>28. CASE UNCHANGED vars BY <1>28 DEF vars
<1> QED
  BY <1>1, <1>2, <1>3, <1>4, <1>5, <1>6, <1>7, <1>8, <1>9, <1>10, <1>11, <1>12, <1>13, <1>14,
     <1>15, <1>16, <1>17, <1>18, <1>19, <1>20, <1>21, <1>22, <1>23, <1>24, <1>25, <1>26, <1>27, <1>28
  DEF Next, Boot, Store, Move, Command, Outside

LEMMA StoreFacts == RfInv /\ FlashInv /\ BootStoring => job.cfg = Default
  BY DEF RfInv, StoreInv, FlashInv, BootStoring

LEMMA BoundNext ==
  RfInv /\ MasterInv /\ [Next]_vars /\ ~gap' => Bound'
<1> SUFFICES ASSUME RfInv, MasterInv, [Next]_vars, ~gap' PROVE Bound' OBVIOUS
<1> USE ConstantTypes
    DEF RfInv, TypeOK, MasterInv, WipeInv, FlashInv, Bound, Wiping, Doomed, Unmet, BootStoring,
        Moving, Storing, Strands, BootsOn, IdentifiedAs, Valid
<1>1. CASE ReadConfig BY <1>1 DEF ReadConfig, At, environment, Off
<1>2. CASE CountBoot BY <1>2 DEF CountBoot
<1>3. CASE WipeMagic BY <1>3 DEF WipeMagic, At
<1>4. CASE WipeConfig BY <1>4 DEF WipeConfig, At, environment
<1>5. CASE WipeCrc BY <1>5 DEF WipeCrc, At, environment
<1>6. CASE WipeIdentity BY <1>6 DEF WipeIdentity, At, environment
<1>7. CASE WipeCount BY <1>7 DEF WipeCount, At
<1>8. CASE LoadStored BY <1>8 DEF LoadStored, At, environment
<1>9. CASE LoadDefault BY <1>9 DEF LoadDefault, At, environment, NoJob
<1>10. CASE Identify BY <1>10 DEF Identify, At, Try
<1>11. CASE Begin BY <1>11 DEF Begin, environment
<1>12. CASE Clear BY <1>12 DEF Clear, At, Try
<1>13. CASE PutMagic BY <1>13 DEF PutMagic, At, Put
<1>14. CASE PutConfig
  <2>1. CASE job.by = "Boot"
    <3>1. nvs'.cfg \in {nvs.cfg, Default} BY <1>14, <2>1, StoreFacts DEF PutConfig, At, Put
    <3>2. /\ nvs'.magic = nvs.magic /\ nvs'.crc = nvs.crc /\ nvs'.ident = nvs.ident
          /\ pc = "PutConfig" /\ pc' = "PutCrc" /\ file' = file /\ ram' = ram /\ gap' = gap
          /\ job'.by = job.by
      BY <1>14 DEF PutConfig, At, Put
    <3> QED BY <2>1, <3>1, <3>2
  <2>2. CASE job.by # "Boot" BY <1>14, <2>2 DEF PutConfig, At, Put
  <2> QED BY <2>1, <2>2
<1>15. CASE PutCrc
  <2>1. CASE job.by = "Boot"
    <3>1. nvs'.crc \in {nvs.crc, Default} BY <1>15, <2>1, StoreFacts DEF PutCrc, Put
    <3>2. /\ nvs'.magic = nvs.magic /\ nvs'.cfg = nvs.cfg /\ nvs'.ident = nvs.ident
          /\ pc = "PutCrc" /\ pc' = "Identify" /\ file' = file /\ ram' = ram /\ gap' = gap
          /\ job'.by = job.by
      BY <1>15, <2>1 DEF PutCrc, Put
    <3> QED BY <2>1, <3>1, <3>2
  <2>2. CASE job.by # "Boot"
    <3>1. job'.ok /\ nvs' = [nvs EXCEPT !.crc = job.cfg] /\ job' = job /\ ~gap
          /\ file' = file /\ ram' = ram
      BY <1>15, <2>2 DEF PutCrc, Put
    <3>2. pc = "PutCrc" /\ pc' \in {"Save", "PutIdentity"} BY <1>15, <2>2, <3>1 DEF PutCrc
    <3> QED BY <2>2, <3>1, <3>2
  <2> QED BY <2>1, <2>2
<1>16. CASE PutIdentity BY <1>16 DEF PutIdentity, At, Try
<1>17. CASE Save BY <1>17 DEF Save, At, FileOf
<1>18. CASE Restart BY <1>18 DEF Restart, Reboots, environment
<1>19. CASE LearnMaster BY <1>19 DEF LearnMaster, Running, Pinned
<1>20. CASE ClearMaster BY <1>20 DEF ClearMaster, Running
<1>21. CASE WriteConfig BY <1>21 DEF WriteConfig, environment, FileOf
<1>22. CASE PowerLoss BY <1>22 DEF PowerLoss, Reboots
<1>23. CASE OperatorCycles BY <1>23 DEF OperatorCycles, Reboots, environment
<1>24. CASE \E cfg \in Configs : RfConfigPacket(cfg) BY <1>24 DEF RfConfigPacket, At, environment
<1>25. CASE \E c \in Channels : ChannelSetting(c) BY <1>25 DEF ChannelSetting, At, environment
<1>26. CASE \E on \in BOOLEAN : SetPersist(on) BY <1>26 DEF SetPersist, Running, Pinned
<1>27. CASE \E c \in Channels : Reseed(c) BY <1>27 DEF Reseed
<1>28. CASE UNCHANGED vars BY <1>28 DEF vars
<1> QED
  BY <1>1, <1>2, <1>3, <1>4, <1>5, <1>6, <1>7, <1>8, <1>9, <1>10, <1>11, <1>12, <1>13, <1>14,
     <1>15, <1>16, <1>17, <1>18, <1>19, <1>20, <1>21, <1>22, <1>23, <1>24, <1>25, <1>26, <1>27, <1>28
  DEF Next, Boot, Store, Move, Command, Outside

LEMMA MasterHolds == Spec => []MasterInv
<1>1. RfInv /\ MasterInv /\ [Next]_vars => MasterInv'
  BY WipeInvNext, FlashInvNext, BoundNext DEF MasterInv
<1> QED BY <1>1, MasterInit, InvHolds, PTL DEF Spec

(* No order of moves, boots, power losses, failing writes, wipes and reseeds *)
(* leaves a node bound to a master it cannot hear, but for the four ways      *)
(* that gap marks, and these only up to the next complete move.              *)
THEOREM OnlyHeardMaster == Spec => []MasterIsHeard
<1>1. MasterInv => MasterIsHeard BY DEF MasterInv, Bound, MasterIsHeard
<1> QED BY <1>1, MasterHolds, PTL

-----------------------------------------------------------------------------
(* The slot.                                                               *)

\* Nothing runs before it is loaded; and what a store has written so far, as
\* long as it counts on being confirmed.
SlotInv ==
  /\ pc \in {"ReadConfig", "Count", "WipeSlot", "WipeConfig", "WipeCrc", "WipeIdentity",
             "WipeCount", "Load"} => ram.active = None
  /\ pc \in Storing \/ Confirmed => job.cfg # None
  /\ pc \in {"PutConfig", "PutCrc"} /\ job.ok => nvs.magic
  /\ pc = "PutCrc" /\ job.ok => nvs.cfg = job.cfg

LEMMA SlotInit == Init => SlotInv /\ Slot!Init
  BY ConstantTypes DEF Init, Off, NoJob, SlotInv, Storing, Confirmed, Valid, Slot!Init

LEMMA SlotInvNext == RfInv /\ SlotInv /\ [Next]_vars => SlotInv'
<1> SUFFICES ASSUME RfInv, SlotInv, [Next]_vars PROVE SlotInv' OBVIOUS
<1> USE DEF RfInv
<1>1. CASE ReadConfig
  BY <1>1 DEF ReadConfig, At, environment, Off, SlotInv, Storing, Confirmed
<1>2. CASE CountBoot
  BY <1>2 DEF CountBoot, SlotInv, Storing, Confirmed
<1>3. CASE WipeIdentity
  BY <1>3 DEF WipeIdentity, At, environment, SlotInv, Storing, Confirmed
<1>4. CASE WipeCount
  BY <1>4 DEF WipeCount, At, SlotInv, Storing, Confirmed
<1>5. CASE Identify
  BY <1>5 DEF Identify, At, Try, IdentifiedAs, SlotInv, Storing, Confirmed
<1>6. CASE Begin
  BY <1>6 DEF Begin, environment, SlotInv, Storing, Confirmed
<1>7. CASE Clear
  BY <1>7 DEF Clear, At, Try, SlotInv, Storing, Confirmed
<1>8. CASE PutIdentity
  BY <1>8 DEF PutIdentity, At, Try, SlotInv, Confirmed
<1>9. CASE LearnMaster
  BY <1>9 DEF LearnMaster, Running, Pinned, SlotInv, Confirmed
<1>10. CASE ClearMaster
  BY <1>10 DEF ClearMaster, Running, SlotInv, Confirmed
<1>11. CASE WriteConfig
  BY <1>11 DEF WriteConfig, environment, SlotInv, Confirmed
<1>12. CASE WipeMagic
  BY <1>12 DEF WipeMagic, At, SlotInv, Storing, Confirmed
<1>13. CASE WipeConfig
  BY <1>13 DEF WipeConfig, At, environment, SlotInv, Storing, Confirmed
<1>14. CASE WipeCrc
  BY <1>14 DEF WipeCrc, At, environment, SlotInv, Storing, Confirmed
<1>15. CASE LoadStored
  BY <1>15 DEF LoadStored, At, environment, SlotInv, Storing, Confirmed
<1>16. CASE LoadDefault
  BY <1>16, ConstantTypes DEF LoadDefault, At, environment, SlotInv
<1>17. CASE PutMagic
  BY <1>17 DEF PutMagic, At, Put, TypeOK, SlotInv, Storing
<1>18. CASE PutConfig
  BY <1>18 DEF PutConfig, At, Put, TypeOK, SlotInv, Storing
<1>19. CASE PutCrc
  BY <1>19 DEF PutCrc, Put, TypeOK, SlotInv, Storing
<1>20. CASE Save
  BY <1>20 DEF Save, At, environment, SlotInv, Confirmed
<1>21. CASE Restart
  BY <1>21 DEF Restart, Reboots, environment, Off, SlotInv, Storing, Confirmed
<1>22. CASE PowerLoss
  BY <1>22 DEF PowerLoss, Reboots, Off, SlotInv, Storing, Confirmed
<1>23. CASE OperatorCycles
  BY <1>23 DEF OperatorCycles, Reboots, Off, environment, SlotInv, Storing, Confirmed
<1>24. CASE \E cfg \in Configs : RfConfigPacket(cfg)
  BY <1>24, ConstantTypes DEF RfConfigPacket, At, environment, SlotInv
<1>25. CASE \E c \in Channels : ChannelSetting(c)
  BY <1>25, ConstantTypes DEF ChannelSetting, At, environment, SlotInv
<1>26. CASE \E on \in BOOLEAN : SetPersist(on)
  BY <1>26 DEF SetPersist, Running, Pinned, SlotInv, Confirmed
<1>27. CASE \E c \in Channels : Reseed(c)
  BY <1>27 DEF Reseed, SlotInv, Confirmed
<1>28. CASE UNCHANGED vars BY <1>28 DEF vars, SlotInv, Confirmed
<1> QED
  BY <1>1, <1>2, <1>3, <1>4, <1>5, <1>6, <1>7, <1>8, <1>9, <1>10, <1>11, <1>12, <1>13, <1>14,
     <1>15, <1>16, <1>17, <1>18, <1>19, <1>20, <1>21, <1>22, <1>23, <1>24, <1>25, <1>26, <1>27, <1>28
  DEF Next, Boot, Store, Move, Command, Outside

LEMMA SlotStep == RfInv /\ SlotInv /\ [Next]_vars => [Slot!Next]_Slot!vars
<1> SUFFICES ASSUME RfInv, SlotInv, [Next]_vars PROVE [Slot!Next]_Slot!vars OBVIOUS
<1> USE DEF RfInv
<1>1. CASE ReadConfig
  <2>1. UNCHANGED Slot!vars
    BY <1>1 DEF ReadConfig, At, environment, Off, SlotInv, Storing, Confirmed, Slot!vars
  <2> QED BY <2>1
<1>2. CASE CountBoot
  <2>1. UNCHANGED Slot!vars
    BY <1>2 DEF CountBoot, Storing, Confirmed, Valid, Slot!vars
  <2> QED BY <2>1
<1>3. CASE WipeIdentity
  <2>1. UNCHANGED Slot!vars
    BY <1>3 DEF WipeIdentity, At, environment, Storing, Confirmed, Valid, Slot!vars
  <2> QED BY <2>1
<1>4. CASE WipeCount
  <2>1. UNCHANGED Slot!vars
    BY <1>4 DEF WipeCount, At, Storing, Confirmed, Valid, Slot!vars
  <2> QED BY <2>1
<1>5. CASE Identify
  <2>1. /\ nvs'.magic = nvs.magic /\ nvs'.cfg = nvs.cfg /\ nvs'.crc = nvs.crc
        /\ job' = job /\ ram'.active = ram.active
    BY <1>5 DEF Identify, At, Try, TypeOK
  <2>2. UNCHANGED Slot!vars
    BY <1>5, <2>1 DEF Identify, At, Storing, Confirmed, Valid, Slot!vars
  <2> QED BY <2>2
<1>6. CASE Begin
  <2>1. UNCHANGED Slot!vars
    BY <1>6 DEF Begin, environment, Storing, Confirmed, Slot!vars
  <2> QED BY <2>1
<1>7. CASE Clear
  <2>1. /\ nvs'.magic = nvs.magic /\ nvs'.cfg = nvs.cfg /\ nvs'.crc = nvs.crc
        /\ job' = job /\ ram'.active = ram.active
    BY <1>7 DEF Clear, At, Try, TypeOK
  <2>2. UNCHANGED Slot!vars
    BY <1>7, <2>1 DEF Clear, At, Storing, Confirmed, Valid, Slot!vars
  <2> QED BY <2>2
<1>8. CASE PutIdentity
  <2>1. /\ nvs'.magic = nvs.magic /\ nvs'.cfg = nvs.cfg /\ nvs'.crc = nvs.crc
        /\ job' = job /\ ram'.active = ram.active
    BY <1>8 DEF PutIdentity, At, Try, TypeOK
  <2>2. UNCHANGED Slot!vars
    BY <1>8, <2>1 DEF PutIdentity, At, Storing, Confirmed, Valid, Slot!vars
  <2> QED BY <2>2
<1>9. CASE LearnMaster
  <2>1. UNCHANGED Slot!vars
    BY <1>9 DEF LearnMaster, Running, Pinned, Confirmed, Slot!vars
  <2> QED BY <2>1
<1>10. CASE ClearMaster
  <2>1. UNCHANGED Slot!vars
    BY <1>10 DEF ClearMaster, Running, Confirmed, Slot!vars
  <2> QED BY <2>1
<1>11. CASE WriteConfig
  <2>1. UNCHANGED Slot!vars
    BY <1>11 DEF WriteConfig, environment, Confirmed, Slot!vars
  <2> QED BY <2>1
<1>12. CASE WipeMagic
  <2>1. Slot!Wipe
    BY <1>12 DEF WipeMagic, At, SlotInv, Storing, Confirmed, Valid, Slot!Wipe
  <2> QED BY <2>1 DEF Slot!Next
<1>13. CASE WipeConfig
  <2>1. Slot!Wipe
    BY <1>13 DEF WipeConfig, At, environment, SlotInv, Storing, Confirmed, Slot!Wipe
  <2> QED BY <2>1 DEF Slot!Next
<1>14. CASE WipeCrc
  <2>1. Slot!Wipe
    BY <1>14 DEF WipeCrc, At, environment, SlotInv, Storing, Confirmed, Valid, Slot!Wipe
  <2> QED BY <2>1 DEF Slot!Next
<1>15. CASE LoadStored
  <2>1. Slot!Load
    BY <1>15 DEF LoadStored, At, environment, SlotInv, Storing, Confirmed, Valid, Slot!Load
  <2> QED BY <2>1 DEF Slot!Next
<1>16. CASE LoadDefault
  <2>1. Slot!Load
    BY <1>16 DEF LoadDefault, At, environment, SlotInv, Storing, Confirmed, Slot!Load
  <2> QED BY <2>1 DEF Slot!Next
<1>17. CASE PutMagic
  <2>1. Slot!Write
    BY <1>17
    DEF PutMagic, At, Put, TypeOK, SlotInv, Storing, Confirmed, Valid, Slot!Write, Slot!Storing, Slot!Replaced
  <2> QED BY <2>1 DEF Slot!Next
<1>18. CASE PutConfig
  <2>1. Slot!Write
    BY <1>18
    DEF PutConfig, At, Put, TypeOK, SlotInv, Storing, Confirmed, Valid, Slot!Write, Slot!Storing, Slot!Replaced
  <2> QED BY <2>1 DEF Slot!Next
<1>19. CASE PutCrc
  <2>1. CASE job.by # "Boot" /\ job'.ok
    <3>1. Slot!Confirm
      BY <1>19, <2>1
      DEF PutCrc, Put, TypeOK, SlotInv, Storing, Confirmed, Valid, Slot!Confirm, Slot!Storing
    <3> QED BY <3>1 DEF Slot!Next
  <2>2. CASE ~(job.by # "Boot" /\ job'.ok)
    <3>1. Slot!End
      BY <1>19, <2>2
      DEF PutCrc, Put, TypeOK, SlotInv, Storing, Confirmed, Valid, Slot!End, Slot!Storing, Slot!Replaced
    <3> QED BY <3>1 DEF Slot!Next
  <2> QED BY <2>1, <2>2
<1>20. CASE Save
  <2>1. Slot!TakeOver
    BY <1>20 DEF Save, At, environment, Confirmed, Slot!TakeOver
  <2> QED BY <2>1 DEF Slot!Next
<1>21. CASE Restart
  <2>1. Slot!PowerOff
    BY <1>21 DEF Restart, Reboots, environment, Off, NoJob, Confirmed, Slot!PowerOff
  <2> QED BY <2>1 DEF Slot!Next
<1>22. CASE PowerLoss
  <2>1. Slot!PowerOff
    BY <1>22 DEF PowerLoss, Reboots, Off, NoJob, Confirmed, Slot!PowerOff
  <2> QED BY <2>1 DEF Slot!Next
<1>23. CASE OperatorCycles
  <2>1. Slot!PowerOff
    BY <1>23 DEF OperatorCycles, Reboots, Off, NoJob, environment, Confirmed, Slot!PowerOff
  <2> QED BY <2>1 DEF Slot!Next
<1>24. CASE \E cfg \in Configs : RfConfigPacket(cfg)
  <2>1. PICK cfg \in Configs : RfConfigPacket(cfg) BY <1>24
  <2>2. Slot!Ask(cfg)
    BY <2>1 DEF RfConfigPacket, At, environment, TypeOK, Storing, Confirmed, Slot!Ask
  <2> QED BY <2>2, ConstantTypes DEF Slot!Next
<1>25. CASE \E c \in Channels : ChannelSetting(c)
  <2>1. PICK c \in Channels : ChannelSetting(c) BY <1>25
  <2>2. Slot!Ask(Phy[c])
    BY <2>1 DEF ChannelSetting, At, environment, TypeOK, Storing, Confirmed, Slot!Ask
  <2> QED BY <2>2, ConstantTypes DEF Slot!Next
<1>26. CASE \E on \in BOOLEAN : SetPersist(on)
  <2>1. UNCHANGED Slot!vars
    BY <1>26 DEF SetPersist, Running, Pinned, Confirmed, Slot!vars
  <2> QED BY <2>1
<1>27. CASE \E c \in Channels : Reseed(c)
  <2>1. PICK c \in Channels : Reseed(c) BY <1>27
  <2>2. Slot!Seed(Phy[c])
    BY <2>1 DEF Reseed, SlotInv, Confirmed, Valid, Slot!Seed
  <2> QED BY <2>2, ConstantTypes DEF Slot!Next
<1>28. CASE UNCHANGED vars BY <1>28 DEF vars, Slot!vars, Confirmed
<1> QED
  BY <1>1, <1>2, <1>3, <1>4, <1>5, <1>6, <1>7, <1>8, <1>9, <1>10, <1>11, <1>12, <1>13, <1>14,
     <1>15, <1>16, <1>17, <1>18, <1>19, <1>20, <1>21, <1>22, <1>23, <1>24, <1>25, <1>26, <1>27, <1>28
  DEF Next, Boot, Store, Move, Command, Outside

(* The three writes of a store, with failing writes, power losses, wipes and *)
(* reseeds between them, implement a slot that holds a configuration or     *)
(* none.                                                                   *)
THEOREM StoreImplementsSlot == Spec => SlotIsAtomic
<1>1. RfInv /\ SlotInv /\ [Next]_vars => SlotInv' BY SlotInvNext
<1>2. Spec => []SlotInv BY SlotInit, <1>1, InvHolds, PTL DEF Spec
<1> QED BY <1>2, InvHolds, SlotInit, SlotStep, PTL DEF Spec, SlotIsAtomic, Slot!Spec
=============================================================================
