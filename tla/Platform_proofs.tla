--------------------------- MODULE Platform_proofs ---------------------------
(***************************************************************************)
(* The instance TLC checks the components on keeps to their types, for     *)
(* every value of the constants: each of its steps is a step of each       *)
(* component, or leaves it where it is, and the types of a component are    *)
(* proved from its steps.                                                  *)
(***************************************************************************)
EXTENDS MCPlatform, EdgeGateway_proofs, Monitoring_proofs, VehicleIdentification_proofs,
        Administration_proofs

PlatformInv ==
    /\ StoreInv /\ OperatorSafe /\ SupportInv /\ RowsInv
    /\ IdentificationInv /\ BackupInv /\ OrderInv

\* A scenario moves its component and leaves the others where they start.
LEMMA PlatformSteps ==
    ASSUME [PlatformNext]_<<scenario, edgeVars, apiVars>>
    PROVE  /\ [StoreNext]_storeVars /\ [OperatorNext]_operatorVars
           /\ [SupportNext]_supportVars /\ [WeightNext]_weightVars
           /\ [IdentificationNext]_identificationVars /\ [BackupNext]_backupVars
           /\ [OnboardingNext]_onboardingVars
<1>1. CASE UNCHANGED <<scenario, edgeVars, apiVars>> BY <1>1 DEF edgeVars, apiVars
<1>2. CASE Alone("store") /\ StoreNext BY <1>2 DEF Alone
<1>3. CASE Alone("offline") /\ OfflineNext BY <1>3 DEF Alone, OfflineNext
<1>4. CASE Alone("numbers") /\ NumbersNext BY <1>4 DEF Alone, NumbersNext
<1>5. CASE Alone("maintenance") /\ MaintenanceNext BY <1>5 DEF Alone, MaintenanceNext
<1>6. CASE Alone("anomalies") /\ AnomaliesNext BY <1>6 DEF Alone, AnomaliesNext
<1>7. CASE Alone("reviews") /\ ReviewsNext BY <1>7 DEF Alone, ReviewsNext
<1>8. CASE Alone("identification") /\ ClerksNext BY <1>8 DEF Alone, ClerksNext
<1>9. CASE Alone("backups") /\ BackupNext BY <1>9 DEF Alone
<1>10. CASE Alone("onboarding") /\ SessionNext BY <1>10 DEF Alone, SessionNext
<1> QED BY <1>1, <1>2, <1>3, <1>4, <1>5, <1>6, <1>7, <1>8, <1>9, <1>10 DEF PlatformNext

\* So every step keeps what is invariant of each component.
LEMMA PlatformInvStep == PlatformInv /\ [PlatformNext]_<<scenario, edgeVars, apiVars>> => PlatformInv'
<1> SUFFICES ASSUME PlatformInv, [PlatformNext]_<<scenario, edgeVars, apiVars>> PROVE PlatformInv'
    OBVIOUS
<1>1. /\ [StoreNext]_storeVars /\ [OperatorNext]_operatorVars
      /\ [SupportNext]_supportVars /\ [WeightNext]_weightVars
      /\ [IdentificationNext]_identificationVars /\ [BackupNext]_backupVars
      /\ [OnboardingNext]_onboardingVars
    BY PlatformSteps
<1>2. StoreInv' /\ OperatorSafe' BY <1>1, StoreStepInv, OperatorSafeStep DEF PlatformInv
<1>3. SupportInv' /\ RowsInv' BY <1>1, SupportInvStep, RowsInvStep DEF PlatformInv
<1>4. IdentificationInv' BY <1>1, IdentificationStepInv DEF PlatformInv
<1>5. BackupInv' BY <1>1, BackupStepInv DEF PlatformInv
<1>6. OrderInv' BY <1>1, OrderStep DEF PlatformInv
<1> QED BY <1>2, <1>3, <1>4, <1>5, <1>6 DEF PlatformInv

\* It holds where the components start.
LEMMA PlatformStarts == PlatformInit => PlatformInv
<1> SUFFICES ASSUME PlatformInit PROVE PlatformInv OBVIOUS
<1>1. /\ StoreInit /\ OperatorInit /\ SupportInit /\ WeightInit
      /\ IdentificationInit /\ BackupInit /\ OnboardingInit
    BY DEF PlatformInit
<1> QED BY <1>1, StoreInitInv, OperatorSafeInit, SupportInvStarts, RowsStart, IdentificationInitInv,
           BackupInitInv, OrderStarts
           DEF PlatformInv

\* The components of the API and of the gateway keep to their types however
\* their calls overlap and wherever they are cut off: PlatformTypeOK for every
\* number of visits, records, tickets, readings, requests, runs and steps.
THEOREM PlatformTyped == PlatformSpec => []PlatformTypeOK
<1>1. PlatformInv => PlatformTypeOK
  <2> SUFFICES ASSUME PlatformInv PROVE PlatformTypeOK OBVIOUS
  <2>1. StoreTypeOK BY DEF PlatformInv, StoreInv
  <2>2. OperatorTypeOK BY OperatorSafeTypes DEF PlatformInv
  <2>3. SupportTypeOK BY DEF PlatformInv, SupportInv
  <2>4. WeightTypeOK BY RowsTypes DEF PlatformInv
  <2>5. IdentificationTypeOK BY IdentificationTypes DEF PlatformInv
  <2>6. BackupTypeOK BY DEF PlatformInv, BackupInv
  <2>7. OnboardingTypeOK BY OrderTypes DEF PlatformInv
  <2> QED BY <2>1, <2>2, <2>3, <2>4, <2>5, <2>6, <2>7 DEF PlatformTypeOK
<1> QED BY PlatformStarts, PlatformInvStep, <1>1, PTL DEF PlatformSpec
=============================================================================
