\* One bridge of three interfaces, every configuration config.c can give
\* it where no outbound configured NONE sits beside a DYNAMIC inbound: the
\* interleaved calls of the control thread implement the atomic coupling.
CONSTANT N = 3
CONSTANT Bridges <- CouplingBridges
SPECIFICATION Spec
INVARIANT TypeOK
PROPERTY AtomicSpec
