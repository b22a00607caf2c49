------------------------------- MODULE MCWifi -------------------------------
EXTENDS Wifi
CONSTANTS ap1, ap2, t1, t2, t3
HomeWpa == [ssid |-> "home", wpa |-> TRUE]
HomeOpen == [ssid |-> "home", wpa |-> FALSE]
CafeOpen == [ssid |-> "cafe", wpa |-> FALSE]
MCProfiles == {HomeWpa, CafeOpen}
LinkProfiles == {HomeWpa}
MCPassLengths == {7, 8, 63, 64, None}
=============================================================================
