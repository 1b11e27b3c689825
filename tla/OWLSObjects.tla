----------------------------- MODULE OWLSObjects ------------------------------
(*****************************************************************************)
(* The objects of the load simulator (RESTAPI_OWLSobjects.cpp).              *)
(*****************************************************************************)
EXTENDS JsonDocument

SimulationDetails ==
    Both("OWLS.SimulationDetails",
        Text(<<"id", "name", "gateway", "certificate", "key", "macPrefix",
        "deviceType">>) \o Number(<<"devices", "healthCheckInterval",
        "stateInterval", "minAssociations", "maxAssociations", "minClients",
        "maxClients", "simulationLength", "threads", "clientInterval",
        "keepAlive", "reconnectInterval", "concurrentDevices">>))

SimulationDetailsList ==
    Both("OWLS.SimulationDetailsList",
        Objects(<<"list">>))

SimulationStatus ==
    WriteOnly("OWLS.SimulationStatus",
        Text(<<"id", "simulationId", "state">>) \o Number(<<"tx", "rx",
        "msgsTx", "msgsRx", "liveDevices", "timeToFullDevices", "startTime",
        "endTime", "errorDevices">>) \o Text(<<"owner">>)
        \o Number(<<"expectedDevices">>))

Dashboard == Both("OWLS.Dashboard", <<>>)

OWLSTypes ==
    {SimulationDetails, SimulationDetailsList, SimulationStatus, Dashboard}
===============================================================================
