------------------------------ MODULE SubObjects ------------------------------
(*****************************************************************************)
(* The objects of the subscriber portal (RESTAPI_SubObjects.cpp).            *)
(*****************************************************************************)
EXTENDS JsonDocument

HomeDeviceMode ==
    Both("Sub.HomeDeviceMode",
        Flag(<<"enableLEDS">>) \o Text(<<"type", "subnet", "subnetMask",
        "startIP", "endIP">>) \o Number(<<"created", "modified">>)
        \o Text(<<"subnetV6">>) \o Number(<<"subnetMaskV6">>)
        \o Text(<<"startIPV6", "endIPV6">>))

IPReservation ==
    Both("Sub.IPReservation",
        Text(<<"nickname", "ipAddress", "macAddress">>))

IPReservationList ==
    Both("Sub.IPReservationList",
        Text(<<"id">>) \o Objects(<<"reservations">>) \o Number(<<"created",
        "modified">>))

DnsConfiguration ==
    Both("Sub.DnsConfiguration",
        Flag(<<"ISP", "custom">>) \o Text(<<"primary", "secondary",
        "primaryV6", "secondaryV6">>))

InternetConnection ==
    Both("Sub.InternetConnection",
        Text(<<"type", "username", "password", "ipAddress", "subnetMask",
        "defaultGateway">>) \o Flag(<<"sendHostname">>)
        \o Text(<<"primaryDns", "secondaryDns">>) \o Number(<<"created",
        "modified">>) \o Flag(<<"ipV6Support">>) \o Text(<<"ipAddressV6">>)
        \o Number(<<"subnetMaskV6">>) \o Text(<<"defaultGatewayV6",
        "primaryDnsV6", "secondaryDnsV6">>))

WifiNetwork ==
    Both("Sub.WifiNetwork",
        Text(<<"type", "name", "password", "encryption">>)
        \o Values(<<"bands">>))

WifiNetworkList ==
    Both("Sub.WifiNetworkList",
        Objects(<<"wifiNetworks">>) \o Number(<<"created", "modified">>))

AccessTime ==
    Both("Sub.AccessTime",
        Text(<<"day">>) \o Values(<<"rangeList">>))

AccessTimes ==
    Both("Sub.AccessTimes",
        Objects(<<"schedule">>) \o Number(<<"created", "modified">>))

SubscriberDevice ==
    Both("Sub.SubscriberDevice",
        Text(<<"name", "description", "macAddress", "manufacturer">>)
        \o Number(<<"firstContact", "lastContact">>) \o Text(<<"group", "icon">>)
        \o Flag(<<"suspended">>) \o Text(<<"ip">>) \o Objects(<<"schedule">>))

SubscriberDeviceList ==
    Both("Sub.SubscriberDeviceList",
        Objects(<<"devices">>) \o Number(<<"created", "modified">>))

Association ==
    Both("Sub.Association",
        Text(<<"name", "ssid", "macAddress">>) \o Number(<<"rssi", "power">>)
        \o Text(<<"ipv4", "ipv6">>) \o Number(<<"tx", "rx">>)
        \o Text(<<"manufacturer">>))

AssociationList ==
    Both("Sub.AssociationList",
        Objects(<<"associations">>) \o Number(<<"created", "modified">>))

Client ==
    Both("Sub.Client",
        Text(<<"macAddress", "speed", "mode", "ipv4", "ipv6">>)
        \o Number(<<"tx", "rx">>) \o Text(<<"manufacturer">>))

ClientList ==
    Both("Sub.ClientList",
        Objects(<<"clients">>) \o Number(<<"created", "modified">>))

Location ==
    Both("Sub.Location",
        Text(<<"buildingName">>) \o Values(<<"addressLines">>)
        \o Text(<<"city", "state", "postal", "country">>) \o Values(<<"phones",
        "mobiles">>))

RadioHE ==
    Both("Sub.RadioHE",
        Flag(<<"multipleBSSID", "ema">>) \o Number(<<"bssColor">>))

RadioRates == Both("Sub.RadioRates", Number(<<"beacon", "multicast">>))

RadioInformation ==
    Both("Sub.RadioInformation",
        Text(<<"band">>) \o Number(<<"bandwidth", "channel">>)
        \o Text(<<"country", "channelMode">>) \o Number(<<"channelWidth">>)
        \o Text(<<"requireMode">>) \o Number(<<"txpower">>)
        \o Flag(<<"legacyRates">>) \o Number(<<"beaconInterval", "dtimPeriod",
        "maximumClients">>) \o Object(<<"rates", "he">>)
        \o Values(<<"rawInfo">>) \o Flag(<<"allowDFS">>) \o Text(<<"mimo">>))

AccessPoint ==
    Both("Sub.AccessPoint",
        Text(<<"id", "macAddress", "serialNumber", "name", "deviceType">>)
        \o Object(<<"subscriberDevices", "ipReservations", "address",
        "wifiNetworks", "internetConnection", "deviceMode",
        "dnsConfiguration">>) \o Objects(<<"radios">>)
        \o Flag(<<"automaticUpgrade">>) \o Text(<<"configurationUUID",
        "currentFirmware">>) \o Number(<<"currentFirmwareDate">>)
        \o Text(<<"latestFirmware">>) \o Number(<<"latestFirmwareDate">>)
        \o Flag(<<"newFirmwareAvailable">>) \o Text(<<"latestFirmwareURI">>))

AccessPointList == Both("Sub.AccessPointList", Objects(<<"list">>))

SubscriberInfo ==
    Both("Sub.SubscriberInfo",
        Text(<<"id", "userId", "firstName", "initials", "lastName",
        "phoneNumber", "secondaryEmail">>) \o Object(<<"accessPoints",
        "serviceAddress", "billingAddress">>) \o Number(<<"created",
        "modified">>))

StatsEntry == Both("Sub.StatsEntry", Number(<<"timestamp", "tx", "rx">>))

StatsBlock ==
    Both("Sub.StatsBlock",
        Number(<<"modified">>) \o Objects(<<"external", "internal">>))

SubTypes ==
    {HomeDeviceMode, IPReservation, IPReservationList, DnsConfiguration,
     InternetConnection, WifiNetwork, WifiNetworkList, AccessTime,
     AccessTimes, SubscriberDevice, SubscriberDeviceList, Association,
     AssociationList, Client, ClientList, Location, RadioHE, RadioRates,
     RadioInformation, AccessPoint, AccessPointList, SubscriberInfo,
     StatsEntry, StatsBlock}
===============================================================================
