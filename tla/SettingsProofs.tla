--------------------------- MODULE SettingsProofs ---------------------------
(***************************************************************************)
(* Proofs about Settings, for every width of the arithmetic and every      *)
(* configuration file.                                                     *)
(***************************************************************************)
EXTENDS Settings, TLAPS

\* What main() makes of the file.
Loaded == IF file = Unset THEN Default ELSE Merge(Default, file)

\* A setting, once made, is what the file and the defaults say.
Inv ==
    /\ file \in Option(Configs)
    /\ config # Unset => config = Loaded
    /\ rpc # Unset => rpc = Or(Loaded.rpc, RpcArgument)
    /\ deployment # Unset => config # Unset /\ deployment = EffectiveDeployment
    /\ \A k \in Kinds :
          offered[k] # Unset => deployment # Unset /\ offered[k] = OfferOf(ParamsFor(k))
    /\ offered \in [Kinds -> Option(Params)]

-----------------------------------------------------------------------------
(* The offer.                                                              *)

\* Seconds are u32 (build_boundless_request).
LEMMA SecondsTyped ==
    ASSUME NEW ms \in Nat
    PROVE  Seconds(ms) \in 0 .. Modulus - 1
  <1> DEFINE p == (ms * Mcycles) % Modulus
  <1>1. ms * Mcycles \in Nat
    BY DEF Mcycles
  <1>2. p \in 0 .. Modulus - 1
    BY <1>1, ModulusAssumption
  <1> HIDE DEF p
  <1>3. p \div 1000 \in 0 .. Modulus - 1
    BY <1>2, ModulusAssumption
  <1> QED BY <1>3 DEF Seconds, p

\* So is all of an offer (build_boundless_request).
LEMMA OfferTyped ==
    ASSUME NEW params \in Params
    PROVE  OfferOf(params) \in Params
  <1>1. params.ramp \in Nat /\ params.lock \in Nat /\ params.timeout \in Nat
    BY ModulusAssumption DEF Params
  <1>2. Seconds(params.lock) \in 0 .. Modulus - 1 /\ Seconds(params.timeout) \in 0 .. Modulus - 1
    BY <1>1, SecondsTyped
  <1> QED BY <1>1, <1>2, ModulusAssumption DEF OfferOf, Lower, Params

\* Without a wrap, seconds are milliseconds rounded down
\* (build_boundless_request).
LEMMA SecondsRound ==
    ASSUME NEW ms \in Nat, ms * Mcycles < Modulus
    PROVE  /\ Seconds(ms) \in Nat
           /\ 1000 * Seconds(ms) <= ms * Mcycles
           /\ ms * Mcycles < 1000 * (Seconds(ms) + 1)
  <1> DEFINE p == ms * Mcycles
  <1>1. p \in Nat /\ p < Modulus
    BY DEF Mcycles
  <1> HIDE DEF p
  <1>2. p % Modulus = p
    BY <1>1, ModulusAssumption
  <1>3. p \div 1000 \in Nat /\ 1000 * (p \div 1000) <= p /\ p < 1000 * ((p \div 1000) + 1)
    BY <1>1
  <1> QED BY <1>2, <1>3 DEF p, Seconds

\* A sound offer is in order (build_boundless_request).
LEMMA SoundInOrder ==
    ASSUME NEW params \in Params, Sound(params)
    PROVE  LET o == OfferOf(params) IN
           /\ o.ramp <= o.lock /\ o.lock <= o.timeout
           /\ 1000 * o.timeout <= params.timeout * Mcycles
           /\ params.timeout * Mcycles < 1000 * (o.timeout + 1)
  <1> DEFINE l == Seconds(params.lock)
             t == Seconds(params.timeout)
  <1>1. params.ramp \in Nat /\ params.lock \in Nat /\ params.timeout \in Nat
    BY ModulusAssumption DEF Params
  <1>2. params.lock * Mcycles <= params.timeout * Mcycles /\ params.timeout * Mcycles < Modulus
    BY <1>1 DEF Sound, Mcycles
  <1>3. params.lock * Mcycles < Modulus
    BY <1>1, <1>2, ModulusAssumption DEF Mcycles
  <1>4. l \in Nat /\ 1000 * l <= params.lock * Mcycles
    BY <1>1, <1>3, SecondsRound
  <1>5. /\ t \in Nat /\ 1000 * t <= params.timeout * Mcycles
        /\ params.timeout * Mcycles < 1000 * (t + 1)
    BY <1>1, <1>2, SecondsRound
  <1> HIDE DEF l, t
  <1>6. l <= t
    BY <1>1, <1>2, <1>4, <1>5 DEF Mcycles
  <1>7. Lower(params.ramp, l) <= l
    BY <1>1, <1>4 DEF Lower
  <1> QED BY <1>5, <1>6, <1>7 DEF OfferOf, l, t

-----------------------------------------------------------------------------
(* The settings.                                                           *)

\* A kind is offered on its own terms: those of the file, or the default
\* (BoundlessConfig::merge, get_batch_offer_params,
\* get_aggregation_offer_params).
LEMMA ParamsAsStated ==
    ASSUME file \in Option(Configs), config = Loaded, NEW k \in Kinds
    PROVE  /\ ParamsFor(k) = Or(Stated(k), DefaultParams(k))
           /\ ParamsFor(k) \in Params
  <1>1. DefaultParams(k) \in Params /\ DefaultParams(k) # Unset
    BY ModulusAssumption, UnsetAssumption DEF DefaultParams, Params
  <1>2. [d \in Kinds |-> DefaultParams(d)] \in OfferConfigs
    BY ModulusAssumption DEF DefaultParams, Params, OfferConfigs, Option
  <1>3. CASE file = Unset
    BY <1>1, <1>2, <1>3, UnsetAssumption DEF Loaded, Default, ParamsFor, Stated, Or
  <1>4. CASE file # Unset /\ file.offers = Unset
    <2>1. config.offers = [d \in Kinds |-> DefaultParams(d)]
      BY <1>4 DEF Loaded, Merge, MergeOffers, Or, Default
    <2> QED BY <1>1, <1>2, <1>4, <2>1, UnsetAssumption DEF ParamsFor, Stated, Or
  <1>5. CASE file # Unset /\ file.offers # Unset
    <2>1. file.offers \in OfferConfigs
      BY <1>5 DEF Option, Configs
    <2>2. config.offers = [d \in Kinds |-> Or(file.offers[d], DefaultParams(d))]
      BY <1>2, <1>5, UnsetAssumption DEF Loaded, Merge, MergeOffers, Or, Default
    <2>3. \A d \in Kinds : file.offers[d] \in Params \union {Unset} /\ DefaultParams(d) \in Params
      BY <2>1, ModulusAssumption DEF OfferConfigs, Option, DefaultParams, Params
    <2>4. config.offers \in OfferConfigs
      BY <2>2, <2>3 DEF OfferConfigs, Option, Or
    <2> QED BY <1>1, <1>5, <2>1, <2>2, <2>3, <2>4, UnsetAssumption DEF ParamsFor, Stated, Or
  <1> QED BY <1>3, <1>4, <1>5

\* Nothing is set at first (main).
LEMMA InitInv == Init => Inv
  BY FilesAssumption DEF Init, Inv, Option

\* Every step keeps to the file and the defaults (main, BoundlessProver::new,
\* build_boundless_request).
LEMMA NextInv ==
    ASSUME Inv, [Next]_vars
    PROVE  Inv'
  <1>1. CASE Load
    BY <1>1 DEF Load, Inv, Loaded
  <1>2. CASE NewProver
    BY <1>2 DEF NewProver, Inv, Loaded, EffectiveDeployment, EffectiveOverrides, DeploymentType, ParamsFor
  <1>3. ASSUME NEW kind \in Kinds, BuildRequest(kind) PROVE Inv'
    <2>1. OfferOf(ParamsFor(kind)) \in Params
      BY <1>3, ParamsAsStated, OfferTyped DEF Inv, BuildRequest
    <2> QED BY <1>3, <2>1 DEF BuildRequest, Inv, Loaded, EffectiveDeployment, EffectiveOverrides, DeploymentType, ParamsFor, Option
  <1>4. CASE UNCHANGED vars
    BY <1>4 DEF vars, Inv, Loaded, EffectiveDeployment, EffectiveOverrides, DeploymentType, ParamsFor
  <1> QED BY <1>1, <1>2, <1>3, <1>4 DEF Next

\* What main() loads is a configuration (BoundlessConfig::merge).
LEMMA LoadedTyped ==
    ASSUME file \in Option(Configs)
    PROVE  Loaded \in Configs
  <1>1. [d \in Kinds |-> DefaultParams(d)] \in OfferConfigs
    BY ModulusAssumption DEF DefaultParams, Params, OfferConfigs, Option
  <1>2. [type |-> "Sepolia", overrides |-> Unset] \in DeploymentConfigs
    BY DEF DeploymentConfigs, Deployments, Option
  <1>3. CASE file = Unset
    BY <1>1, <1>2, <1>3 DEF Loaded, Default, Configs, Option
  <1>4. CASE file # Unset
    <2>1. /\ file.deployment \in Option(DeploymentConfigs)
          /\ file.offers \in Option(OfferConfigs)
          /\ file.rpc \in Option(Urls)
      BY <1>4 DEF Option, Configs
    <2>2. MergeDeployment(Default.deployment, file.deployment) \in Option(DeploymentConfigs)
      <3>1. CASE file.deployment = Unset
        BY <1>2, <3>1 DEF MergeDeployment, Or, Default, Option
      <3>2. CASE file.deployment # Unset
        <4>1. /\ file.deployment.type \in Option(Deployments)
              /\ file.deployment.overrides \in Option(Overrides)
          BY <2>1, <3>2 DEF Option, DeploymentConfigs
        <4>2. MergeDeployment(Default.deployment, file.deployment) =
                 [type |-> Or(file.deployment.type, "Sepolia"), overrides |-> file.deployment.overrides]
          BY <1>2, <3>2, UnsetAssumption DEF MergeDeployment, MergeOverrides, Or, Default
        <4>3. Or(file.deployment.type, "Sepolia") \in Option(Deployments)
          BY <4>1 DEF Or, Option, Deployments
        <4> QED BY <4>1, <4>2, <4>3 DEF DeploymentConfigs, Option
      <3> QED BY <3>1, <3>2
    <2>3. MergeOffers(Default.offers, file.offers) \in Option(OfferConfigs)
      <3>1. CASE file.offers = Unset
        BY <1>1, <3>1 DEF MergeOffers, Or, Default, Option
      <3>2. CASE file.offers # Unset
        <4>1. file.offers \in OfferConfigs
          BY <2>1, <3>2 DEF Option
        <4>2. MergeOffers(Default.offers, file.offers) =
                 [d \in Kinds |-> Or(file.offers[d], DefaultParams(d))]
          BY <1>1, <3>2, UnsetAssumption DEF MergeOffers, Or, Default
        <4>3. \A d \in Kinds : Or(file.offers[d], DefaultParams(d)) \in Option(Params)
          BY <1>1, <4>1 DEF OfferConfigs, Or
        <4> QED BY <4>2, <4>3 DEF OfferConfigs, Option
      <3> QED BY <3>1, <3>2
    <2>4. Or(file.rpc, Default.rpc) \in Option(Urls)
      BY <2>1 DEF Or, Default, Option
    <2>5. Loaded = [deployment |-> MergeDeployment(Default.deployment, file.deployment),
                    offers |-> MergeOffers(Default.offers, file.offers),
                    rpc |-> Or(file.rpc, Default.rpc)]
      BY <1>4 DEF Loaded, Merge
    <2> QED BY <2>2, <2>3, <2>4, <2>5 DEF Configs
  <1> QED BY <1>3, <1>4

\* The settings are well formed.
THEOREM SettingsTypeCorrect == Spec => []TypeOK
  <1>1. Init => TypeOK
    BY DEF Init, TypeOK, Option
  <1>2. ASSUME Inv, TypeOK, [Next]_vars PROVE TypeOK'
    <2>1. CASE Load
      <3>1. config' = Loaded /\ Loaded \in Configs
        BY <1>2, <2>1, LoadedTyped DEF Load, Inv, Loaded
      <3>2. rpc' \in Option(Urls)
        BY <2>1, <3>1, FilesAssumption DEF Load, Or, Option, Configs
      <3> QED BY <1>2, <2>1, <3>1, <3>2 DEF Load, TypeOK, Option
    <2>2. CASE NewProver
      <3>1. config \in Configs
        BY <1>2, <2>2 DEF NewProver, TypeOK, Option
      <3>2. DeploymentType \in Deployments
        BY <3>1 DEF DeploymentType, Or, Deployments, Configs, DeploymentConfigs, Option
      <3>3. ASSUME NEW k \in Keys, Applies(EffectiveOverrides, k) PROVE EffectiveOverrides[k] \in Urls
        <4>1. EffectiveOverrides \in Overrides
          BY <3>1, <3>3 DEF Applies, EffectiveOverrides, Configs, DeploymentConfigs, Option
        <4>2. PICK K \in SUBSET Keys : EffectiveOverrides \in [K -> Urls]
          BY <4>1 DEF Overrides
        <4> QED BY <3>3, <4>2 DEF Applies
      <3>4. EffectiveDeployment \in Effective
        BY <3>2, <3>3 DEF EffectiveDeployment, Effective, Option
      <3> QED BY <1>2, <2>2, <3>4 DEF NewProver, TypeOK, Option
    <2>3. ASSUME NEW kind \in Kinds, BuildRequest(kind) PROVE TypeOK'
      <3>1. OfferOf(ParamsFor(kind)) \in Params
        BY <1>2, <2>3, ParamsAsStated, OfferTyped DEF Inv, BuildRequest
      <3> QED BY <1>2, <2>3, <3>1 DEF BuildRequest, TypeOK, Option
    <2>4. CASE UNCHANGED vars
      BY <1>2, <2>4 DEF vars, TypeOK
    <2> QED BY <1>2, <2>1, <2>2, <2>3, <2>4 DEF Next
  <1> QED BY <1>1, <1>2, InitInv, NextInv, PTL DEF Spec

\* A kind is offered on its own terms (BoundlessConfig::merge).
THEOREM OffersAreAsStated == Spec => []OffersAsStated
  <1>1. Inv => OffersAsStated
    BY ParamsAsStated DEF Inv, OffersAsStated
  <1> QED BY <1>1, InitInv, NextInv, PTL DEF Spec

\* The agent talks to the node and the order stream that the file states, on
\* the deployment that the file states, and drops any other override (main,
\* get_effective_deployment).
THEOREM NodeAndStreamAreAsStated == Spec => []NodeAndStreamAsStated
  <1>1. Inv => NodeAndStreamAsStated
    <2> SUFFICES ASSUME Inv PROVE NodeAndStreamAsStated
      OBVIOUS
    <2> DEFINE stated == FileDeployment.overrides
               stream == IF stated = Unset \/ "order_stream_url" \notin DOMAIN stated THEN Unset
                         ELSE stated["order_stream_url"]
    <2>1. ASSUME file # Unset, rpc # Unset PROVE rpc = Or(file.rpc, RpcArgument)
      BY <2>1, UnsetAssumption DEF Inv, Loaded, Merge, Default, Or
    <2>2. ASSUME FileDeployment # Unset, deployment # Unset
          PROVE  /\ deployment.type = Or(FileDeployment.type, "Sepolia")
                 /\ deployment.replaced =
                       [k \in Keys |-> IF k = "order_stream_url" THEN stream ELSE Unset]
      <3>1. /\ file # Unset /\ file.deployment = FileDeployment
            /\ FileDeployment \in DeploymentConfigs
        BY <2>2 DEF FileDeployment, Inv, Option, Configs
      <3>2. [type |-> "Sepolia", overrides |-> Unset] # Unset
        BY UnsetAssumption DEF DeploymentConfigs, Deployments, Option
      <3>3. config.deployment =
               [type |-> Or(FileDeployment.type, "Sepolia"), overrides |-> FileDeployment.overrides]
        BY <2>2, <3>1, <3>2 DEF Inv, Loaded, Merge, MergeDeployment, MergeOverrides, Default, Or
      <3>4. config.deployment # Unset /\ Or(FileDeployment.type, "Sepolia") # Unset
        <4>1. "Sepolia" \in Deployments /\ FileDeployment.type \in Option(Deployments)
              /\ FileDeployment.overrides \in Option(Overrides)
          BY <3>1 DEF Deployments, DeploymentConfigs
        <4>2. Or(FileDeployment.type, "Sepolia") \in Deployments
          BY <4>1 DEF Or, Option
        <4>3. config.deployment \in DeploymentConfigs
          BY <3>3, <4>1, <4>2 DEF DeploymentConfigs, Option
        <4> QED BY <4>2, <4>3, UnsetAssumption
      <3>5. deployment = EffectiveDeployment
        BY <2>2 DEF Inv
      <3>6. deployment.type = Or(FileDeployment.type, "Sepolia")
        BY <3>3, <3>4, <3>5 DEF EffectiveDeployment, DeploymentType, Or
      <3>7. EffectiveOverrides = stated
        BY <3>3, <3>4 DEF EffectiveOverrides
      <3>8. deployment.replaced = [k \in Keys |-> IF Applies(stated, k) THEN stated[k] ELSE Unset]
        BY <3>5, <3>7 DEF EffectiveDeployment
      <3> QED BY <3>6, <3>8 DEF Applies
    <2> QED BY <2>1, <2>2 DEF NodeAndStreamAsStated
  <1> QED BY <1>1, InitInv, NextInv, PTL DEF Spec

\* Sound offers stay in order (build_boundless_request).
THEOREM OffersAreInOrder == Spec => []OffersInOrder
  <1>1. Inv => OffersInOrder
    <2> SUFFICES ASSUME Inv, NEW k \in Kinds, offered[k] # Unset,
                        Sound(Or(Stated(k), DefaultParams(k)))
                 PROVE  LET params == Or(Stated(k), DefaultParams(k)) IN
                        /\ offered[k].ramp <= offered[k].lock /\ offered[k].lock <= offered[k].timeout
                        /\ 1000 * offered[k].timeout <= params.timeout * Mcycles
                        /\ params.timeout * Mcycles < 1000 * (offered[k].timeout + 1)
      BY DEF OffersInOrder
    <2>1. /\ offered[k] = OfferOf(Or(Stated(k), DefaultParams(k)))
          /\ Or(Stated(k), DefaultParams(k)) \in Params
      BY ParamsAsStated DEF Inv
    <2> QED BY <2>1, SoundInOrder
  <1> QED BY <1>1, InitInv, NextInv, PTL DEF Spec
=============================================================================
