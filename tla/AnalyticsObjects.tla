--------------------------- MODULE AnalyticsObjects ---------------------------
(*****************************************************************************)
(* The objects of the analytics service: boards and time points              *)
(* (RESTAPI_AnalyticsObjects.cpp).                                           *)
(*****************************************************************************)
EXTENDS JsonDocument

Provisioning == INSTANCE ProvObjects

VenueInfo ==
    Both("Analytics.VenueInfo",
        Text(<<"id", "name", "description">>) \o Number(<<"retention",
        "interval">>) \o Flag(<<"monitorSubVenues">>))

BoardInfo ==
    Both("Analytics.BoardInfo",
        Inlined(Provisioning!Info) \o Objects(<<"venueList">>))

DeviceInfo ==
    Both("Analytics.DeviceInfo",
        Text(<<"boardId", "type", "serialNumber", "deviceType">>)
        \o Number(<<"lastContact", "lastPing", "lastState">>)
        \o Text(<<"lastFirmware">>) \o Number(<<"lastFirmwareUpdate",
        "lastConnection", "lastDisconnection", "pings", "states">>)
        \o Flag(<<"connected">>) \o Text(<<"connectionIp">>)
        \o Number(<<"associations_2g", "associations_5g", "associations_6g",
        "health", "lastHealth">>) \o Text(<<"locale">>) \o Number(<<"uptime",
        "memory">>))

DeviceInfoList == Both("Analytics.DeviceInfoList", Objects(<<"devices">>))

UE_rate ==
    Both("Analytics.UE_rate",
        Number(<<"bitrate", "mcs", "nss">>) \o Flag(<<"ht", "sgi">>)
        \o Number(<<"chwidth">>))

UETimePoint ==
    Both("Analytics.UETimePoint",
        Text(<<"station">>) \o Number(<<"rssi", "tx_bytes", "rx_bytes",
        "tx_duration", "rx_packets", "tx_packets", "tx_retries", "tx_failed",
        "connected", "inactive">>) \o Object(<<"tx_rate", "rx_rate">>)
        \o Objects(<<"tidstats">>) \o Number(<<"tx_bytes_bw", "rx_bytes_bw",
        "tx_packets_bw", "rx_packets_bw", "tx_failed_pct", "tx_retries_pct",
        "tx_duration_pct", "tx_bytes_delta", "rx_bytes_delta",
        "tx_packets_delta", "rx_packets_delta", "tx_failed_delta",
        "tx_retries_delta", "tx_duration_delta">>))

APTimePoint ==
    Both("Analytics.APTimePoint",
        Number(<<"collisions", "multicast", "rx_bytes", "rx_dropped",
        "rx_errors", "rx_packets", "tx_bytes", "tx_packets", "tx_dropped",
        "tx_errors", "tx_packets", "tx_bytes_bw", "rx_bytes_bw",
        "rx_dropped_pct", "tx_dropped_pct", "rx_packets_bw", "tx_packets_bw",
        "rx_errors_pct", "tx_errors_pct", "tx_bytes_delta", "rx_bytes_delta",
        "rx_dropped_delta", "tx_dropped_delta", "rx_packets_delta",
        "tx_packets_delta", "rx_errors_delta", "tx_errors_delta">>))

TIDstat_entry ==
    Both("Analytics.TIDstat_entry",
        Number(<<"rx_msdu", "tx_msdu", "tx_msdu_failed", "tx_msdu_retries">>))

RadioTimePoint ==
    Both("Analytics.RadioTimePoint",
        Number(<<"band", "channel_width", "active_ms", "busy_ms",
        "receive_ms", "transmit_ms", "tx_power", "channel", "temperature",
        "noise", "active_pct", "busy_pct", "receive_pct", "transmit_pct">>))

AveragePoint ==
    Both("Analytics.AveragePoint",
        Number(<<"min", "max", "avg">>))

SSIDTimePoint ==
    Both("Analytics.SSIDTimePoint",
        Text(<<"bssid", "mode", "ssid">>) \o Number(<<"band", "channel">>)
        \o Objects(<<"associations">>) \o Object(<<"tx_bytes_bw", "rx_bytes_bw",
        "tx_packets_bw", "rx_packets_bw", "tx_failed_pct", "tx_retries_pct",
        "tx_duration_pct">>))

DeviceTimePoint ==
    Both("Analytics.DeviceTimePoint",
        Text(<<"id", "boardId">>) \o Number(<<"timestamp">>)
        \o Object(<<"ap_data">>) \o Objects(<<"ssid_data", "radio_data">>)
        \o Object(<<"device_info">>) \o Text(<<"serialNumber">>))

DeviceTimePointAnalysis ==
    Both("Analytics.DeviceTimePointAnalysis",
        Object(<<"noise", "temperature", "active_pct", "busy_pct",
        "receive_pct", "transmit_pct", "tx_power", "tx_bytes_bw",
        "rx_bytes_bw", "rx_dropped_pct", "tx_dropped_pct", "rx_packets_bw",
        "tx_packets_bw", "rx_errors_pct", "tx_errors_pct">>))

DeviceTimePointList ==
    Both("Analytics.DeviceTimePointList",
        Objects(<<"points", "stats">>))

DeviceTimePointStats ==
    Both("Analytics.DeviceTimePointStats",
        Number(<<"firstPoint", "lastPoint", "count">>))

WifiClientRate ==
    Both("Analytics.WifiClientRate",
        Number(<<"bitrate", "chwidth", "mcs", "nss">>) \o Flag(<<"vht">>))

WifiClientHistory ==
    Both("Analytics.WifiClientHistory",
        Number(<<"timestamp">>) \o Text(<<"station_id", "bssid", "ssid">>)
        \o Number(<<"rssi", "rx_bitrate", "rx_chwidth", "rx_mcs", "rx_nss">>)
        \o Flag(<<"rx_vht">>) \o Number(<<"tx_bitrate", "tx_chwidth", "tx_mcs",
        "tx_nss">>) \o Flag(<<"tx_vht">>) \o Number(<<"rx_bytes", "tx_bytes",
        "rx_duration", "tx_duration", "rx_packets", "tx_packets">>)
        \o Text(<<"ipv4", "ipv6">>) \o Number(<<"channel_width", "noise",
        "tx_power", "channel", "active_ms", "busy_ms", "receive_ms">>)
        \o Text(<<"mode">>) \o Number(<<"ack_signal", "ack_signal_avg",
        "connected", "inactive", "tx_retries">>) \o Text(<<"venue_id">>))

AnalyticsTypes ==
    {VenueInfo, BoardInfo, DeviceInfo, DeviceInfoList, UE_rate, UETimePoint,
     APTimePoint, TIDstat_entry, RadioTimePoint, AveragePoint,
     SSIDTimePoint, DeviceTimePoint, DeviceTimePointAnalysis,
     DeviceTimePointList, DeviceTimePointStats, WifiClientRate,
     WifiClientHistory}
===============================================================================
