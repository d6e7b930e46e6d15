----------------------------- MODULE WireFormat -----------------------------
(***************************************************************************)
(* include/lininoio.h: the two 16-bit words of the lininoio protocol.  A   *)
(* channel descriptor is a core and a protocol; a cdlen is a channel and a *)
(* length.  Only the bits are modelled, not the order of the bytes.        *)
(***************************************************************************)
EXTENDS Naturals

WordSize == 16 * 4096  \* uint16_t: the ids of the channels times the lengths
Word     == 0..WordSize-1
CoreId   == 0..7      \* LININOIO_MAX_NCORES
ProtoId  == 0..8191   \* LININOIO_N_PROTOS
ChanNr   == 0..15     \* LININOIO_MAX_NCHANNELS
DataSize == 0..4095

CdescrToCoreId(chan_descr)  == chan_descr \div 8192
CdescrToProtoId(chan_descr) == chan_descr % 8192

\* What the return value keeps, and what *chan_id is set to.
DecodeLength(cdlen) == cdlen % 4096
DecodeChanId(cdlen) == cdlen \div 4096

\* Cut to sixteen bits; a length of 4096 or more loses its upper part.
EncodeCdlen(dlen, chan_id) == (chan_id * 4096 + (dlen % 4096)) % WordSize
=============================================================================
