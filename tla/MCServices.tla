----------------------------- MODULE MCServices -----------------------------
(***************************************************************************)
(* Sixteen components that share no state, checked side by side: a behav-  *)
(* iour is that of one of them, chosen at the start, and the others keep  *)
(* their initial state.                                                    *)
(***************************************************************************)
EXTENDS ForecastHistory, AgvGuard, PredictionTable, AnomalyCorrelation, DeviceHealth,
        RuntimeState, DeviceKeys, CommandNonces, OntologyMigration, OpcuaFeed,
        FactoryFederation, MetaModel, PrivacyExchange, DecisionLedger, Admission, PollChannel

VARIABLE part

MCStreams == {<<"a", "co">>, <<"a", "smoke">>, <<"b", "temperature">>, <<"c", "distance">>}

D(u, l, h) == [unit |-> u, low |-> l, high |-> h]

MCIris == {"co", "measuresCo", "gas"}
MCLocalName == [u \in MCIris |-> IF u = "measuresCo" THEN "co" ELSE u]
MCDefinitions == {D("c", 0, 1), D("c", 0, 2), D("f", 0, 1)}
MCFirst == [u \in {"co"} |-> D("c", 0, 1)]
MCAlike == {<<p, q>> \in Names \X Names : p # q /\ "gas" \in {p, q}}

MCAlignments == {<< >>, [l \in {"coLevel"} |-> "co"]}
MCContains == {<<t, t>> : t \in Terms} \cup {<<"co", "coLevel">>}

M(l, h, d, w, k) == [min |-> l, max |-> h, danger |-> d, warn |-> w, direction |-> k]

MCUris == {"co", "measuresCo", "distance"}
MCNameOf == [u \in MCUris |-> IF u = "measuresCo" THEN "co" ELSE u]
MCDefined == {M(0, 450, 30, -1, "low"), M(0, 9, -1, 20, "high")}
MCLimit == [n \in {"co", "smoke"} |-> <<0, 1000>>]
MCThreshold == [n \in {"co"} |-> <<35, "above">>]
MCWarn == [n \in {"co"} |-> 20]

MCInterval == [c \in Components |-> IF c = "page" THEN 2 ELSE 5]

Parts == {"forecast", "agv", "prediction", "correlation", "health",
          "runtime", "keys", "nonces", "migration", "feed", "federation", "meta", "privacy",
          "ledger", "admission", "channel"}

Only(p) ==
    /\ part = p /\ part' = p
    /\ IF p = "forecast" THEN TRUE ELSE UNCHANGED forecastVars
    /\ IF p = "agv" THEN TRUE ELSE UNCHANGED agvVars
    /\ IF p = "prediction" THEN TRUE ELSE UNCHANGED predictionVars
    /\ IF p = "correlation" THEN TRUE ELSE UNCHANGED correlationVars
    /\ IF p = "health" THEN TRUE ELSE UNCHANGED healthVars
    /\ IF p = "runtime" THEN TRUE ELSE UNCHANGED runtimeVars
    /\ IF p = "keys" THEN TRUE ELSE UNCHANGED keyVars
    /\ IF p = "nonces" THEN TRUE ELSE UNCHANGED nonceVars
    /\ IF p = "migration" THEN TRUE ELSE UNCHANGED migrationVars
    /\ IF p = "feed" THEN TRUE ELSE UNCHANGED feedVars
    /\ IF p = "federation" THEN TRUE ELSE UNCHANGED federationVars
    /\ IF p = "meta" THEN TRUE ELSE UNCHANGED metaVars
    /\ IF p = "privacy" THEN TRUE ELSE UNCHANGED privacyVars
    /\ IF p = "ledger" THEN TRUE ELSE UNCHANGED ledgerVars
    /\ IF p = "admission" THEN TRUE ELSE UNCHANGED admissionVars
    /\ IF p = "channel" THEN TRUE ELSE UNCHANGED channelVars

Init ==
    /\ part \in Parts
    /\ ForecastInit /\ AgvInit /\ PredictionInit /\ CorrelationInit /\ HealthInit
    /\ RuntimeInit /\ KeysInit /\ NoncesInit /\ MigrationInit /\ FeedInit
    /\ FederationInit /\ MetaInit /\ PrivacyInit
    /\ LedgerInit /\ AdmissionInit /\ ChannelInit

Next ==
    \/ Only("forecast") /\ ForecastNext
    \/ Only("agv") /\ AgvNext
    \/ Only("prediction") /\ PredictionNext
    \/ Only("correlation") /\ CorrelationNext
    \/ Only("health") /\ HealthNext
    \/ Only("runtime") /\ RuntimeNext
    \/ Only("keys") /\ KeysNext
    \/ Only("nonces") /\ NoncesNext
    \/ Only("migration") /\ MigrationNext
    \/ Only("feed") /\ FeedNext
    \/ Only("federation") /\ FederationNext
    \/ Only("meta") /\ MetaNext
    \/ Only("privacy") /\ PrivacyNext
    \/ Only("ledger") /\ LedgerNext
    \/ Only("admission") /\ AdmissionNext
    \/ Only("channel") /\ ChannelNext

Spec == Init /\ [][Next]_<<part, forecastVars, agvVars, predictionVars, correlationVars,
                           healthVars, runtimeVars, keyVars, nonceVars, migrationVars, feedVars,
                           federationVars, metaVars, privacyVars, ledgerVars, admissionVars, channelVars>>
=============================================================================
