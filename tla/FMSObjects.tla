------------------------------ MODULE FMSObjects ------------------------------
(*****************************************************************************)
(* The objects of this service: firmwares, devices, histories and reports    *)
(* (RESTAPI_FMSObjects.cpp).                                                 *)
(*****************************************************************************)
EXTENDS JsonDocument

Firmware ==
    Forgiving("FMS.Firmware",
        Text(<<"id", "release", "deviceType", "description", "revision",
        "uri", "image">>) \o Number(<<"imageDate", "size", "downloadCount">>)
        \o Text(<<"firmwareHash", "owner", "location", "uploader", "digest">>)
        \o Flag(<<"latest">>) \o Objects(<<"notes">>) \o Number(<<"created">>))

FirmwareList == Both("FMS.FirmwareList", Objects(<<"firmwares">>))

DeviceType ==
    Both("FMS.DeviceType",
        Text(<<"id", "deviceType", "manufacturer", "model", "policy">>)
        \o Objects(<<"notes">>) \o Number(<<"lastUpdate", "created">>)
        \o Text(<<"id", "id", "id">>))

DeviceTypeList == Both("FMS.DeviceTypeList", Objects(<<"deviceTypes">>))

RevisionHistoryEntry ==
    Both("FMS.RevisionHistoryEntry",
        Text(<<"id", "serialNumber", "fromRelease", "toRelease",
        "commandUUID", "revisionId">>) \o Number(<<"upgraded">>))

RevisionHistoryEntryList ==
    Both("FMS.RevisionHistoryEntryList",
        Objects(<<"deviceTypes">>))

FirmwareAgeDetails ==
    Both("FMS.FirmwareAgeDetails",
        Text(<<"latestId", "image">>) \o Number(<<"imageDate">>)
        \o Text(<<"revision", "uri">>) \o Number(<<"age">>) \o Flag(<<"latest">>))

DeviceConnectionInformation ==
    Both("FMS.DeviceConnectionInformation",
        Text(<<"serialNumber", "revision", "deviceType", "endPoint">>)
        \o Number(<<"lastUpdate">>) \o Text(<<"status">>))

DeviceReport ==
    Apart("FMS.DeviceReport",
        Counts(<<"ouis", "revisions", "deviceTypes", "status", "endPoints",
        "usingLatest", "unknownFirmwares", "matchedRevisions">>)
        \o Number(<<"snapshot", "numberOfDevices">>)
        \o Counts(<<"totalSecondsOld">>),
        <<>>)

DeviceInformation ==
    Both("FMS.DeviceInformation",
        Text(<<"serialNumber">>) \o Object(<<"history">>)
        \o Text(<<"currentFirmware">>) \o Number(<<"currentFirmwareDate">>)
        \o Text(<<"latestFirmware">>) \o Number(<<"latestFirmwareDate">>)
        \o Flag(<<"latestFirmwareAvailable">>) \o Text(<<"latestFirmwareURI">>))

DeviceCurrentInfo ==
    Both("FMS.DeviceCurrentInfo",
        Text(<<"serialNumber", "revision">>) \o Number(<<"upgraded">>))

DeviceCurrentInfoList ==
    Both("FMS.DeviceCurrentInfoList",
        Objects(<<"devices">>))

FMSTypes ==
    {Firmware, FirmwareList, DeviceType, DeviceTypeList,
     RevisionHistoryEntry, RevisionHistoryEntryList, FirmwareAgeDetails,
     DeviceConnectionInformation, DeviceReport, DeviceInformation,
     DeviceCurrentInfo, DeviceCurrentInfoList}
===============================================================================
