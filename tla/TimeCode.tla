------------------------------ MODULE TimeCode ------------------------------
(***************************************************************************)
(* The "floating point" time codes of IGMPv3 (QQIC, Max Resp Code) and     *)
(* MLDv2 (QQIC, Maximum Response Code), decoded as util.c does it with     *)
(* shifts and masks, and the reference definition of RFC 3376 section      *)
(* 4.1.1/4.1.7 and RFC 3810 section 5.1.3/5.1.9, written with arithmetic   *)
(* on the fields instead.                                                  *)
(***************************************************************************)
EXTENDS Naturals, Bitwise

\* timecode_8bit_decode: codes below 128 are the value; otherwise
\* 1|exp(3)|mant(4) is (mant | 0x10) << (exp + 3), returned as a uint16_t.
Decode8MaskAll(code) ==
    IF code < 128 THEN code
    ELSE LET exponent == (shiftR(code, 4) & 15) + 3
             mantissa == (code & 15) | 16
         IN  (mantissa * 2^exponent) % 2^16
Decode8(code) ==
    IF code < 128 THEN code
    ELSE LET exponent == (shiftR(code, 4) & 7) + 3
             mantissa == (code & 15) | 16
         IN  (mantissa * 2^exponent) % 2^16

\* timecode_16bit_decode: codes below 32768 are the value; otherwise
\* 1|exp(3)|mant(12) is (mant | 0x1000) << (exp + 3), a uint32_t (the
\* largest result, 0x1fff << 10, is far below 2^32).
Decode16(code) ==
    IF code < 32768 THEN code
    ELSE LET exponent == (shiftR(code, 12) & 7) + 3
             mantissa == (code & 4095) | 4096
         IN  mantissa * 2^exponent

\* The RFC's definition for a code of b bits with an m-bit mantissa: below
\* 2^(b-1) the code is the value, above it the fields exp and mant give
\* (2^m + mant) * 2^(exp + 3).
RfcValue(code, b, m) ==
    IF code < 2^(b - 1) THEN code
    ELSE LET field == code - 2^(b - 1)
         IN  (2^m + (field % 2^m)) * 2^((field \div 2^m) + 3)

\* Both decoders give the RFC value of every code, and a larger code never
\* stands for a shorter time: the query interval, response time and the
\* timers built from them grow with the code across the 127/128 and
\* 32767/32768 boundaries and across every exponent step.  Checked once,
\* over all 256 8-bit and all 65536 16-bit codes.
TimeCodesDecode ==
    /\ \A c \in 0..255 :
          /\ Decode8(c) = RfcValue(c, 8, 4)
          /\ c < 255 => Decode8(c) < Decode8(c + 1)
    /\ \A c \in 0..65535 :
          /\ Decode16(c) = RfcValue(c, 16, 12)
          /\ c < 65535 => Decode16(c) < Decode16(c + 1)

=============================================================================
