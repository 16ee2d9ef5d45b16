----------------------------- MODULE NetworkManager -----------------------------
(***************************************************************************)
(* NetworkManager: tick() starts to join the Wi-Fi again when it is not    *)
(* connected, and connects Blynk when it is, both not before a retry       *)
(* interval has passed since the last attempt of either.  The driver does  *)
(* not join by itself (setAutoReconnect(false)).                           *)
(*                                                                         *)
(* Only the age of status_.lastAttemptMs matters: nowMs - lastAttemptMs, a *)
(* uint32 that wraps at Wrap.  Whether Blynk is connected is open at every *)
(* step.  Left out are the two counters, which are only reported, and      *)
(* publish(), which hands values to Blynk and keeps nothing.               *)
(***************************************************************************)
EXTENDS Naturals

CONSTANTS wifiRetryIntervalMs, Wrap

ASSUME RetryAssumption == Wrap \in Nat /\ wifiRetryIntervalMs \in 1 .. Wrap - 1

VARIABLES
  accessPoint,   \* is it there?
  wifi,          \* WiFi.status(): "down", "joining" or "up"
  wifiAge        \* nowMs - status_.lastAttemptMs

wifiVars == <<accessPoint, wifi, wifiAge>>

WifiTypeOK ==
  /\ accessPoint \in BOOLEAN /\ wifi \in {"down", "joining", "up"}
  /\ wifiAge \in 0 .. Wrap - 1

WifiInit == accessPoint = FALSE /\ wifi = "down" /\ wifiAge = 0

RetryDue == wifiAge >= wifiRetryIntervalMs

\* WiFi.begin: a join that is under way is started anew.
JoinAgain == wifi # "up" /\ RetryDue /\ wifi' = "joining" /\ wifiAge' = 0

\* Mutated form of ConnectBlynk: it is tried without Wi-Fi, too.
ConnectBlynkAnyway == RetryDue /\ wifiAge' = 0 /\ UNCHANGED wifi
ConnectBlynk == wifi = "up" /\ RetryDue /\ wifiAge' = 0 /\ UNCHANGED wifi

\* No attempt is due, or all is connected.
NoAttempt == (RetryDue => wifi = "up") /\ UNCHANGED <<wifi, wifiAge>>

NetworkTick == (JoinAgain \/ ConnectBlynk \/ NoAttempt) /\ UNCHANGED accessPoint

-----------------------------------------------------------------------------
\* The driver: an attempt succeeds or comes to nothing.
Joined == wifi = "joining" /\ accessPoint /\ wifi' = "up" /\ UNCHANGED <<accessPoint, wifiAge>>
JoinFails == wifi = "joining" /\ wifi' = "down" /\ UNCHANGED <<accessPoint, wifiAge>>

AccessPointChanges ==
  /\ accessPoint' = ~accessPoint
  /\ wifi' = IF wifi = "up" THEN "down" ELSE wifi
  /\ UNCHANGED wifiAge

\* Wi-Fi is joined again after the access point has come back for good, although
\* joining fails now and then and Blynk's attempts set the same timer back.
WifiIsRejoined == <>[]accessPoint => <>[](wifi = "up")
=============================================================================
