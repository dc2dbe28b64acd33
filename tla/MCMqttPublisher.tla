-------------------------- MODULE MCMqttPublisher --------------------------
(* MqttPublisher for TLC: any two of the three controllers enabled.           *)
EXTENDS MqttPublisher

Pairs == {{"view", "tx"}, {"view", "relay"}, {"tx", "relay"}}
=============================================================================
