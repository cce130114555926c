---------------------------- MODULE SessionFlags ----------------------------
(***************************************************************************)
(* What one int carries: a descriptor and two flags (session_storage.h,    *)
(* session_storage_simple.c), the bit of a descriptor in the table of      *)
(* connected clients (stomp/data_wrappers/session.c), and the length of a  *)
(* message on the wire, computed once when the message is made             *)
(* (with_payload_length.c) and once more when it is sent (dataframe.c).    *)
(* The masks are single bits or all bits below one, so that they are       *)
(* written as divisions and remainders.                                    *)
(***************************************************************************)
EXTENDS Integers

MAX_NUMBER_OF_CONNECTIONS == 131072   \* 0x20000
FD_SPACE == 16384                     \* FD_MASK + 1 = 0x3FFF + 1
FD_IS_ENCODED == 524288               \* 0x80000
FD_CMD_PURGE_SESSION == 1048576       \* 0x100000
STOMP_SESSION_SIZE == MAX_NUMBER_OF_CONNECTIONS \div 64

(* The descriptors session_storage_add_new admits. *)
Descriptor == {fd \in Nat : fd <= MAX_NUMBER_OF_CONNECTIONS}

session_is_encoded(w) == (w \div FD_IS_ENCODED) % 2 = 1
session_is_cmd_purge(w) == (w \div FD_CMD_PURGE_SESSION) % 2 = 1

session_set_encoded(w) ==
    IF session_is_encoded(w) THEN w ELSE w + FD_IS_ENCODED

session_set_cmd_purge(w) ==
    IF session_is_cmd_purge(w) THEN w ELSE w + FD_CMD_PURGE_SESSION

session_without_flags(w) == w % FD_SPACE

session_wo_cmd_purge(w) ==
    (w % FD_SPACE) + (IF session_is_encoded(w) THEN FD_IS_ENCODED ELSE 0)

(* What a thread may find in an int of a client: the bare descriptor, the  *)
(* table's entry, or either with the purge command.                        *)
Words(fd) ==
    {fd, session_set_encoded(fd), session_set_cmd_purge(fd),
     session_set_cmd_purge(session_set_encoded(fd))}

(* The word of session_connected and the bit in it: the shift is by n % 32 *)
(* and the upper half is reached by a multiplication.                      *)
ConnectedBit(fd) ==
    LET n == fd % 64
    IN  [i |-> fd \div 64, shift |-> n % 32, upper |-> n >= 32]

-----------------------------------------------------------------------------
(* message_create_with_frame_len for a text of n characters to a client;   *)
(* a pill, which has no client, has no closing byte either.                *)
frame_len(n, encoded) ==
    IF ~encoded THEN n + 1
    ELSE n + (IF n < 126 THEN 2 ELSE IF n < 65536 THEN 4 ELSE 10) + 1

(* encode_websocket_frame *)
encode_websocket_frame(n) ==
    LET orig_len == n + 1
    IN  orig_len + (IF orig_len < 126 THEN 2
                    ELSE IF orig_len < 65536 THEN 4 ELSE 10)

(* ws_output_filter: the answer to a handshake has no closing byte. *)
ws_output_filter(n, encoded, http) ==
    IF encoded THEN encode_websocket_frame(n) ELSE IF http THEN n ELSE n + 1

=============================================================================
