------------------------------- MODULE KeronClient -------------------------------
(***************************************************************************)
(* The connection of the client mod (client/Connection/ConnexionUtils.cs)  *)
(* as its two windows use it: ConnexionWindow in the main menu connects    *)
(* and disconnects, ChatWindow polls in the space centre.  Everything runs *)
(* in the one thread of the game.                                          *)
(*                                                                         *)
(* ENetCS and the game are external.  ENetCS delivers the end of a         *)
(* connection as an event of Service(); a host that was already            *)
(* initialised may refuse to be initialised again.                         *)
(***************************************************************************)
VARIABLES
  scene,      (* "menu" (ConnexionWindow is there) or "space" (ChatWindow)  *)
  host,       (* ConnexionUtils.host: "none", "live" or "disposed"          *)
  link,       (* whether the peer has a connection to the server            *)
  connected,  (* ConnexionUtils.connected                                   *)
  shown       (* the last event put a chat message in the window            *)

clientvars == <<scene, host, link, connected, shown>>

(* What Service() can return; "timeout" when it returns false. *)
Answers  == {"Connect", "Disconnect", "timeout"}
Incoming == {"Chat", "Other", "Disconnect", "timeout"}

(* The constructor of the window finds nothing to disconnect. *)
ClientInit ==
  /\ scene = "menu" /\ host = "none"
  /\ link = FALSE /\ connected = FALSE /\ shown = FALSE

isConnected == connected

(* The game is loaded when the button has a connection, of this try or not. *)
ConnectTo(answer) ==
  /\ scene = "menu"
  /\ host' = IF answer = "timeout" THEN "disposed" ELSE "live"
  /\ link' = (answer = "Connect")
  /\ connected' = (answer = "Connect" \/ connected)
  /\ scene' = IF isConnected' THEN "space" ELSE "menu"
  /\ UNCHANGED shown

(* InitializeClient() throws: nothing after it runs. *)
ConnectRefused ==
  /\ scene = "menu" /\ host = "live"
  /\ UNCHANGED clientvars

(* FixedUpdate: an event that is not Receive is dropped. *)
ReceiveChatMessage(event) ==
  /\ scene = "space" /\ host = "live"
  /\ event \in {"Chat", "Other"} => link
  /\ link' = (link /\ event # "Disconnect")
  /\ shown' = (event = "Chat")
  /\ UNCHANGED <<scene, host, connected>>

(* The player leaves for the menu: the constructor of its window. *)
Disconnect ==
  /\ scene = "space" /\ scene' = "menu"
  /\ link' = (link /\ ~isConnected)
  /\ UNCHANGED <<host, connected, shown>>

ClientNext ==
  \/ \E answer \in Answers : ConnectTo(answer)
  \/ ConnectRefused
  \/ \E event \in Incoming : ReceiveChatMessage(event)
  \/ Disconnect

ClientSpec == ClientInit /\ [][ClientNext]_clientvars

(***************************************************************************)
(* "Are we already connected to a server ?  true, if connected, false      *)
(* otherwise" (ConnexionUtils.cs:82-85).                                   *)
(***************************************************************************)
ConnectedIsTrue == isConnected => link
================================================================================
