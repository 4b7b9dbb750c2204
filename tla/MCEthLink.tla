------------------------------- MODULE MCEthLink -------------------------------
(* Instance of EthLink: two servers, a lease without an end, one that is       *)
(* renewed in time and one whose 85 % wrap in the word.                        *)
EXTENDS EthLink

CONSTANTS a, b, h

MCLeased == {a, b}
MCLeases == {0, 2, 5}
MCHosts == {h}
===============================================================================
