---------------------------- MODULE MCRelayLink ----------------------------
(***************************************************************************)
(* RelayLink for TLC: result codes, and delivery, which counts what was    *)
(* sent and received over the whole history of a connection.               *)
(***************************************************************************)
EXTENDS RelayLink

\* 12002 (timeout) and 12030 (connection error) as Win32 codes, and the same
\* two wrapped by HRESULT_FROM_WIN32; 0x80070000 is -2147024896.
WrappedTimeout == -2147012894
WrappedError   == -2147012866
Win32Timeout   == 12002
Win32Error     == 12030

\* WinHttpWebSocketReceive is documented to return Win32 codes; ReceiveLoop also
\* looks for a wrapped one, so either form may come.
EitherTimeout == {WrappedTimeout, Win32Timeout}
EitherError   == {WrappedError, Win32Error}

(***************************************************************************)
(* The frame that ends a message reaches the session, in whichever message *)
(* ReceiveLoop puts it, unless the connection breaks, the relay closes it  *)
(* or the client stops.                                                    *)
(***************************************************************************)
EndSent(n) == n \in DOMAIN sent /\ sent[n].kind = "final"
EndReceived(n) == \E i \in DOMAIN received : n \in Ids(received[i].frames)
Delivered ==
  \A n \in 1..MaxFrames :
    EndSent(n) ~> (EndReceived(n) \/ link # "up" \/ stopRequested \/ sessionStop)
=============================================================================
