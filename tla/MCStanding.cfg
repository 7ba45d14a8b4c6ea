SPECIFICATION Spec
CONSTANTS
    Salons = {s1}
    Handlers = {h1, h2}
PROPERTIES
    SuspensionSticks
