------------------------------ MODULE GWObjects -------------------------------
(*****************************************************************************)
(* The objects of the gateway: devices, commands, scripts and RADIUS         *)
(* settings (RESTAPI_GWobjects.cpp, compiled without TIP_GATEWAY_SERVICE).   *)
(*****************************************************************************)
EXTENDS JsonDocument

Device ==
    LET common ==
            Text(<<"serialNumber", "macAddress", "manufacturer">>)
            \o Number(<<"UUID">>) \o Embedded(<<"configuration">>)
            \o Objects(<<"notes">>) \o Number(<<"createdTimestamp",
            "lastConfigurationChange", "lastConfigurationDownload",
            "lastFWUpdate">>) \o Text(<<"owner", "location", "venue",
            "firmware", "compatible", "fwUpdatePolicy", "devicePassword",
            "subscriber", "entity">>) \o Number(<<"modified">>)
            \o Text(<<"locale">>) \o Flag(<<"restrictedDevice">>)
            \o Text(<<"pendingConfiguration", "pendingConfigurationCmd">>)
            \o Object(<<"restrictionDetails">>) \o Number(<<"pendingUUID">>)
            \o Flag(<<"simulated">>) \o Number(<<"lastRecordedContact">>)
    IN  Apart("GW.Device", common, Text(<<"deviceType">>) \o common)

Statistics ==
    WriteOnly("GW.Statistics",
        Embedded(<<"data">>) \o Number(<<"UUID", "recorded">>))

Capabilities ==
    WriteOnly("GW.Capabilities",
        Embedded(<<"capabilities">>) \o Number(<<"firstUpdate",
        "lastUpdate">>))

DeviceLog ==
    WriteOnly("GW.DeviceLog",
        Embedded(<<"data">>) \o Text(<<"log">>) \o Number(<<"severity",
        "recorded", "logType", "UUID">>))

HealthCheck ==
    WriteOnly("GW.HealthCheck",
        Embedded(<<"values">>) \o Number(<<"UUID", "sanity", "recorded">>))

DefaultConfiguration ==
    LET common ==
            Text(<<"name">>) \o Embedded(<<"configuration">>)
            \o Values(<<"modelIds">>) \o Text(<<"description">>)
    IN  Apart("GW.DefaultConfiguration", common \o Number(<<"created",
            "lastModified">>), common)

DefaultFirmware ==
    Both("GW.DefaultFirmware",
        Text(<<"deviceType", "description", "uri", "revision">>)
        \o Number(<<"imageCreationDate", "created", "lastModified">>))

CommandDetails ==
    WriteOnly("GW.CommandDetails",
        Embedded(<<"details", "results">>) \o Text(<<"UUID", "serialNumber",
        "command", "errorText", "submittedBy", "status">>)
        \o Number(<<"submitted", "executed", "completed", "when", "errorCode",
        "custom", "waitingForFile", "attachFile", "executionTime",
        "lastTry">>) \o Flag(<<"deferred">>))

BlackListedDevice ==
    Both("GW.BlackListedDevice",
        Text(<<"serialNumber", "author", "reason">>) \o Number(<<"created">>))

ConnectionState ==
    WriteOnly("GW.ConnectionState",
        Text(<<"ipAddress">>) \o Number(<<"txBytes", "rxBytes",
        "messageCount", "UUID">>) \o Flag(<<"connected">>)
        \o Text(<<"firmware">>) \o Number(<<"lastContact", "associations_2G",
        "associations_5G", "associations_6G", "webSocketClients",
        "websocketPackets", "kafkaClients", "kafkaPackets">>)
        \o Text(<<"locale">>) \o Number(<<"started", "sessionId",
        "connectionCompletionTime", "totalConnectionTime",
        "certificateExpiryDate">>) \o Text(<<"connectReason">>)
        \o Number(<<"hasRADIUSSessions">>) \o Flag(<<"hasGPS">>)
        \o Number(<<"sanity">>) \o Object(<<"memoryUsed">>)
        \o Number(<<"sanity">>) \o Object(<<"load", "temperature">>)
        \o Choice(<<"verifiedCertificate">>))

DeviceConnectionStatistics ==
    Both("GW.DeviceConnectionStatistics",
        Number(<<"averageConnectionTime", "connectedDevices",
        "connectingDevices">>))

RttySessionDetails ==
    WriteOnly("GW.RttySessionDetails",
        Text(<<"serialNumber", "server">>) \o Number(<<"port">>)
        \o Text(<<"token">>) \o Number(<<"timeout">>) \o Text(<<"connectionId",
        "commandUUID">>) \o Number(<<"started", "viewport">>)
        \o Text(<<"password">>))

Dashboard ==
    WriteOnly("GW.Dashboard",
        Counts(<<"commands", "upTimes", "memoryUsed", "load1", "load5",
        "load15", "vendors", "status", "deviceType", "healths",
        "certificates", "lastContact", "associations">>)
        \o Number(<<"snapshot", "numberOfDevices">>))

CapabilitiesModel ==
    WriteOnly("GW.CapabilitiesModel",
        Text(<<"deviceType", "capabilities">>))

ScriptRequest ==
    Both("GW.ScriptRequest",
        Text(<<"serialNumber">>) \o Number(<<"timeout">>) \o Text(<<"type",
        "script", "scriptId">>) \o Number(<<"when">>) \o Text(<<"signature">>)
        \o Flag(<<"deferred">>) \o Text(<<"uri">>))

RadiusProxyPoolList == Both("GW.RadiusProxyPoolList", Objects(<<"pools">>))

RadiusProxyPool ==
    Both("GW.RadiusProxyPool",
        Text(<<"name", "description">>) \o Object(<<"authConfig",
        "acctConfig", "coaConfig">>) \o Flag(<<"useByDefault">>)
        \o Number(<<"radsecKeepAlive">>) \o Text(<<"poolProxyIp",
        "radsecPoolType">>) \o Flag(<<"enabled">>))

RadiusProxyServerConfig ==
    Both("GW.RadiusProxyServerConfig",
        Text(<<"strategy">>) \o Flag(<<"monitor">>)
        \o Text(<<"monitorMethod">>) \o Values(<<"methodParameters">>)
        \o Objects(<<"servers">>))

RadiusProxyServerEntry ==
    Both("GW.RadiusProxyServerEntry",
        Text(<<"name", "ip">>) \o Number(<<"port", "weight">>)
        \o Text(<<"secret", "certificate">>) \o Flag(<<"radsec",
        "allowSelfSigned">>) \o Text(<<"radsecSecret">>)
        \o Number(<<"radsecPort">>) \o Values(<<"radsecCacerts">>)
        \o Text(<<"radsecCert", "radsecKey">>) \o Values(<<"radsecRealms">>)
        \o Flag(<<"ignore">>))

ScriptEntry ==
    Both("GW.ScriptEntry",
        Text(<<"id", "name", "description", "uri", "content", "version",
        "type">>) \o Number(<<"created", "modified">>) \o Text(<<"author">>)
        \o Values(<<"restricted">>) \o Flag(<<"deferred">>)
        \o Number(<<"timeout">>) \o Text(<<"defaultUploadURI">>))

ScriptEntryList == Both("GW.ScriptEntryList", Objects(<<"scripts">>))

RangeOptions ==
    WriteOnly("GW.RangeOptions",
        Flag(<<"NO_IR", "AUTO_BW", "DFS", "NO_OUTDOOR", "wmmrule_ETSI",
        "NO_OFDM">>))

FrequencyRange ==
    WriteOnly("GW.FrequencyRange",
        Number(<<"from", "to", "channelWidth", "powerDb">>)
        \o Object(<<"options">>))

RegulatoryCountryInfo ==
    WriteOnly("GW.RegulatoryCountryInfo",
        Text(<<"country", "domain">>) \o Objects(<<"ranges">>))

DeviceRestrictionsKeyInfo ==
    Both("GW.DeviceRestrictionsKeyInfo",
        Text(<<"vendor", "algo">>))

DeviceRestrictions ==
    Both("GW.DeviceRestrictions",
        Flag(<<"dfs", "ssh", "rtty", "tty", "developer", "upgrade",
        "commands">>) \o Values(<<"country">>) \o Object(<<"key_info">>))

RADIUSSession ==
    WriteOnly("GW.RADIUSSession",
        Number(<<"started", "lastTransaction">>) \o Text(<<"destination",
        "serialNumber", "userName", "accountingSessionId",
        "accountingMultiSessionId">>) \o Number(<<"inputPackets",
        "outputPackets", "inputOctets", "outputOctets", "inputGigaWords",
        "outputGigaWords", "sessionTime">>) \o Text(<<"callingStationId",
        "chargeableUserIdentity", "interface", "secret", "nasId",
        "calledStationId">>))

RADIUSSessionList ==
    WriteOnly("GW.RADIUSSessionList",
        Objects(<<"sessions">>))

RadiusCoADMParameters ==
    Both("GW.RadiusCoADMParameters",
        Text(<<"accountingSessionId", "accountingMultiSessionId",
        "callingStationId", "chargeableUserIdentity", "userName">>))

DeviceTransferRequest ==
    ReadOnly("GW.DeviceTransferRequest",
        Text(<<"serialNumber", "server">>) \o Number(<<"port">>))

DeviceCertificateUpdateRequest ==
    ReadOnly("GW.DeviceCertificateUpdateRequest",
        Text(<<"serialNumber", "encodedCertificate">>))

GWTypes ==
    {Device, Statistics, Capabilities, DeviceLog, HealthCheck,
     DefaultConfiguration, DefaultFirmware, CommandDetails,
     BlackListedDevice, ConnectionState, DeviceConnectionStatistics,
     RttySessionDetails, Dashboard, CapabilitiesModel, ScriptRequest,
     RadiusProxyPoolList, RadiusProxyPool, RadiusProxyServerConfig,
     RadiusProxyServerEntry, ScriptEntry, ScriptEntryList, RangeOptions,
     FrequencyRange, RegulatoryCountryInfo, DeviceRestrictionsKeyInfo,
     DeviceRestrictions, RADIUSSession, RADIUSSessionList,
     RadiusCoADMParameters, DeviceTransferRequest,
     DeviceCertificateUpdateRequest}
===============================================================================
