------------------------ MODULE MC_BitHelpersCheck ------------------------
EXTENDS BitHelpersCheck

\* 8 is the smallest scalarSize with a whole 8-byte load, 32 is sizeof(FrElement),
\* 12 is not a multiple of 8 bytes.
MCScalarSizes == {8, 12, 32}

\* Scalars narrower than the 8-byte load: 4 bytes (a uint32 exponent), 7 bytes.
MCNarrowScalarSizes == {4, 7}
=============================================================================
