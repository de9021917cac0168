SPECIFICATION Spec
CONSTANTS
    large = large
    medium = medium
    small = small
    Queues = {large, medium, small}
    Capacity <- MCCapacity
    Values = {x, y}
    Default = x
    Raw = Raw
    Moved = Moved
    Broken = Broken
    Programs <- MCOneRing
PROPERTIES
    InsertsAtPosition
