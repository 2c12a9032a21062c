------------------------------ MODULE Settings ------------------------------
(***************************************************************************)
(* How the agent comes by its settings, and what a request offers with     *)
(* them: main() merges the configuration file into the defaults            *)
(* (BoundlessConfig), BoundlessProver::new takes the deployment from the   *)
(* result, and build_boundless_request the offer of a batch or an          *)
(* aggregation.                                                            *)
(*                                                                         *)
(* Offers are u32 arithmetic, which wraps in a release build.  Prices and  *)
(* collateral are strings that are parsed to 256 bits, and left out.       *)
(***************************************************************************)
EXTENDS Naturals

CONSTANTS
    Modulus,     \* 2^32
    Urls,        \* of RPC nodes and order streams
    RpcArgument, \* --rpc-url, BOUNDLESS_RPC_URL
    Files,       \* configuration files that may be given
    Unset        \* Option::None; no file

Kinds == {"batch", "aggregation"}
Deployments == {"Sepolia", "Base"}

\* timeouts in milliseconds per million cycles
Params == [ramp : 0 .. Modulus - 1, lock : 0 .. Modulus - 1, timeout : 0 .. Modulus - 1]

\* Keys of "overrides", each a field of the deployment; the code knows only the first.
Keys == {"order_stream_url", "boundless_market_address"}
Overrides == UNION {[K -> Urls] : K \in SUBSET Keys}

Option(S) == S \union {Unset}

DeploymentConfigs == [type : Option(Deployments), overrides : Option(Overrides)]
OfferConfigs == [Kinds -> Option(Params)]
Configs == [deployment : Option(DeploymentConfigs), offers : Option(OfferConfigs), rpc : Option(Urls)]

\* What a prover is deployed with: the type, and by key what replaces the
\* type's own address.
Effective == [type : Deployments, replaced : [Keys -> Option(Urls)]]

\* The timeouts by default are numbers.
ASSUME ModulusAssumption == Modulus \in Nat /\ Modulus > 3600 * 3
ASSUME FilesAssumption ==
    /\ RpcArgument \in Urls
    /\ Files \subseteq Option(Configs)
ASSUME UnsetAssumption ==
    /\ Unset \notin Configs \union DeploymentConfigs \union OfferConfigs \union Params
    /\ Unset \notin Overrides \union Urls \union Deployments \union Effective

VARIABLES
    file,        \* the configuration file
    config,      \* boundless_config
    rpc,         \* rpc_url of the ProverConfig
    deployment,  \* of the prover
    offered      \* the offer last built, by kind

vars == <<file, config, rpc, deployment, offered>>

TypeOK ==
    /\ file \in Files
    /\ config \in Option(Configs)
    /\ rpc \in Option(Urls)
    /\ deployment \in Option(Effective)
    /\ offered \in [Kinds -> Option(Params)]

Init ==
    /\ file \in Files
    /\ config = Unset
    /\ rpc = Unset
    /\ deployment = Unset
    /\ offered = [k \in Kinds |-> Unset]

-----------------------------------------------------------------------------
(* BoundlessConfig.                                                        *)

DefaultParams(kind) ==
    IF kind = "batch" THEN [ramp |-> 1000, lock |-> 5000, timeout |-> 3600 * 3]
    ELSE [ramp |-> 200, lock |-> 1000, timeout |-> 3000]

Default ==
    [deployment |-> [type |-> "Sepolia", overrides |-> Unset],
     offers |-> [k \in Kinds |-> DefaultParams(k)],
     rpc |-> Unset]

\* other, where it is there
Or(other, own) == IF other = Unset THEN own ELSE other

\* JSON objects are merged key by key.
MergeOverrides(own, other) ==
    IF own = Unset \/ other = Unset THEN Or(other, own)
    ELSE [k \in DOMAIN own \union DOMAIN other |-> IF k \in DOMAIN other THEN other[k] ELSE own[k]]

MergeDeployment(own, other) ==
    IF own = Unset \/ other = Unset THEN Or(other, own)
    ELSE [type |-> Or(other.type, own.type),
          overrides |-> MergeOverrides(own.overrides, other.overrides)]

\* Fault: the parameters of a batch are taken for both.
FaultyMergeOffers(own, other) ==
    IF own = Unset \/ other = Unset THEN Or(other, own)
    ELSE [k \in Kinds |-> Or(other["batch"], own[k])]

MergeOffers(own, other) ==
    IF own = Unset \/ other = Unset THEN Or(other, own)
    ELSE [k \in Kinds |-> Or(other[k], own[k])]

Merge(own, other) ==
    [deployment |-> MergeDeployment(own.deployment, other.deployment),
     offers |-> MergeOffers(own.offers, other.offers),
     rpc |-> Or(other.rpc, own.rpc)]

\* get_batch_offer_params, get_aggregation_offer_params
ParamsFor(kind) ==
    IF config.offers = Unset THEN DefaultParams(kind)
    ELSE Or(config.offers[kind], DefaultParams(kind))

DeploymentType ==
    IF config.deployment = Unset THEN "Sepolia" ELSE Or(config.deployment.type, "Sepolia")

\* get_effective_deployment: of the overrides only order_stream_url is looked up.
Applies(overrides, key) ==
    overrides # Unset /\ key = "order_stream_url" /\ key \in DOMAIN overrides

EffectiveOverrides == IF config.deployment = Unset THEN Unset ELSE config.deployment.overrides

EffectiveDeployment ==
    [type |-> DeploymentType,
     replaced |-> [k \in Keys |->
        IF Applies(EffectiveOverrides, k) THEN EffectiveOverrides[k] ELSE Unset]]

-----------------------------------------------------------------------------
(* The offer.                                                              *)

Lower(m, n) == IF m < n THEN m ELSE n

\* mcycles_count
Mcycles == 6000

\* Seconds, from milliseconds per million cycles: u32 * u32 / 1000.
Seconds(ms) == ((ms * Mcycles) % Modulus) \div 1000

\* Fault: the ramp-up may outlast the lock.
FaultyOfferOf(params) ==
    [ramp |-> params.ramp, lock |-> Seconds(params.lock), timeout |-> Seconds(params.timeout)]

OfferOf(params) ==
    [ramp |-> Lower(params.ramp, Seconds(params.lock)),
     lock |-> Seconds(params.lock),
     timeout |-> Seconds(params.timeout)]

-----------------------------------------------------------------------------
\* Fault: the argument wins over the file.
FaultyLoad ==
    /\ config = Unset
    /\ config' = IF file = Unset THEN Default ELSE Merge(Default, file)
    /\ rpc' = RpcArgument
    /\ UNCHANGED <<file, deployment, offered>>

\* main()
Load ==
    /\ config = Unset
    /\ config' = IF file = Unset THEN Default ELSE Merge(Default, file)
    /\ rpc' = Or(config'.rpc, RpcArgument)
    /\ UNCHANGED <<file, deployment, offered>>

\* BoundlessProver::new, at the start and at every refresh
NewProver ==
    /\ config # Unset
    /\ deployment' = EffectiveDeployment
    /\ UNCHANGED <<file, config, rpc, offered>>

\* build_boundless_request
BuildRequest(kind) ==
    /\ deployment # Unset
    /\ offered' = [offered EXCEPT ![kind] = OfferOf(ParamsFor(kind))]
    /\ UNCHANGED <<file, config, rpc, deployment>>

Next == Load \/ NewProver \/ \E kind \in Kinds : BuildRequest(kind)

Spec == Init /\ [][Next]_vars

-----------------------------------------------------------------------------
\* What the file says of a kind's offer, if anything.
Stated(kind) ==
    IF file = Unset THEN Unset ELSE IF file.offers = Unset THEN Unset ELSE file.offers[kind]

FileDeployment == IF file = Unset THEN Unset ELSE file.deployment

(***************************************************************************)
(* What the file leaves open is as by default, and for the kind in         *)
(* question: a batch and an aggregation are never offered on each other's  *)
(* terms (BoundlessConfig::merge, "taking values from other where          *)
(* provided", and its getters).                                            *)
(***************************************************************************)
OffersAsStated ==
    \A k \in Kinds : offered[k] # Unset => offered[k] = OfferOf(Or(Stated(k), DefaultParams(k)))

(***************************************************************************)
(* The node, the deployment type and the order stream are those the file   *)
(* states, and nothing else it overrides counts: with a market address     *)
(* stated, the agent still talks to the market of the type (main, "Use     *)
(* rpc_url from config file if available"; get_effective_deployment, whose *)
(* comments, "merging with base deployment" and "Apply deployment          *)
(* overrides if provided", promise more than its one look-up does).        *)
(***************************************************************************)
NodeAndStreamAsStated ==
    /\ file # Unset /\ rpc # Unset => rpc = Or(file.rpc, RpcArgument)
    /\ FileDeployment # Unset /\ deployment # Unset =>
          /\ deployment.type = Or(FileDeployment.type, "Sepolia")
          /\ LET stated == FileDeployment.overrides
                 stream == IF stated = Unset \/ "order_stream_url" \notin DOMAIN stated THEN Unset
                           ELSE stated["order_stream_url"]
             IN  deployment.replaced =
                    [k \in Keys |-> IF k = "order_stream_url" THEN stream ELSE Unset]

\* The parameters of an offer make sense and their products fit in a u32.
Sound(params) == params.lock <= params.timeout /\ params.timeout * Mcycles < Modulus

(***************************************************************************)
(* A sound offer stays sound in whole seconds: the price rises no longer   *)
(* than the lock, the lock lasts no longer than the request                *)
(* (build_boundless_request), and no more than a second is lost.           *)
(***************************************************************************)
OffersInOrder ==
    \A k \in Kinds :
        LET params == Or(Stated(k), DefaultParams(k)) IN
        offered[k] # Unset /\ Sound(params) =>
            /\ offered[k].ramp <= offered[k].lock /\ offered[k].lock <= offered[k].timeout
            /\ 1000 * offered[k].timeout <= params.timeout * Mcycles
            /\ params.timeout * Mcycles < 1000 * (offered[k].timeout + 1)

=============================================================================
