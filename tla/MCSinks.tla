------------------------------- MODULE MCSinks --------------------------------
(* A small instance of module Sinks.                                        *)
EXTENDS Sinks

CONSTANTS pay, leak

TwoActions == {pay, leak}
=============================================================================
